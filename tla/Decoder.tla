------------------------------ MODULE Decoder -------------------------------
(***************************************************************************)
(* tools/telemetry-decode/src/main.rs, over the segment files of module    *)
(* FileStorage: it lists the directory once, sorts the paths by name, and  *)
(* reads one file after the other.  It takes no lock, so the writer goes   *)
(* on, rotates or is restarted between any two of its reads; one listing   *)
(* of the directory, one read of a file and one write of a record are      *)
(* taken as atomic.  Files given by name lie in the same directory and are *)
(* spelled as the listing does.                                            *)
(*                                                                         *)
(* A record's sequence number is its id; its type and severity are given   *)
(* by TypeOf and SeverityOf, known ones, as the validator stores no other. *)
(* The three output formats print the same records in the same order, kept *)
(* in `shown`.                                                             *)
(***************************************************************************)
EXTENDS FileStorage, Protocol

CONSTANTS Args,          \* command lines that occur: [files : Seq(Indices), in_dir : BOOLEAN]
          since, min_severity, packet_types,   \* the filter options; 0, 0, {} admit all
          TypeOf, SeverityOf,                  \* of the record with an id
          base, name_width                     \* seg-{:05}: 10 and 5 in the code

ASSUME DecoderAssumption ==
  /\ NoFile \notin Seq(Pieces)   \* an empty file is a file
  /\ Args \subseteq [files : Seq(Indices), in_dir : BOOLEAN]
  /\ since \in Nat /\ min_severity \in Nat
  /\ TypeOf \in [1 .. MaxWrites -> PacketTypes]
  /\ SeverityOf \in [1 .. MaxWrites -> Severities]
  /\ base \in Nat \ {0, 1} /\ name_width \in Nat \ {0}

VARIABLES stage,    \* idle, reading, or done
          paths,    \* paths still to be read
          shown,    \* records printed, in order
          dstats,   \* DecodeStats
          \* auxiliary:
          warned,   \* a file could not be read
          given,    \* the paths listed
          whole,    \* what was given is the directory, and files in it
          origin,   \* for each record of `shown` the path it was read from
          before,   \* records acknowledged when the directory was listed
          listed_in,  \* the run of the writer that was in
          started     \* calls of write before each restart

dvars == <<stage, paths, shown, dstats, warned, given, whole, origin, before, listed_in>>

DecoderInit ==
  /\ Init
  /\ stage = "idle"
  /\ paths = <<>> /\ shown = <<>> /\ given = <<>> /\ origin = <<>>
  /\ dstats = [total_seen |-> 0, decode_errors |-> 0, passed_filter |-> 0,
               by_type |-> [t \in {0} \cup PacketTypes |-> 0], by_severity |-> [s \in Severities |-> 0]]
  /\ warned = FALSE /\ whole = FALSE
  /\ before = <<>> /\ listed_in = 0
  /\ started = <<>>

-----------------------------------------------------------------------------
\* The name of a segment is its number with at least name_width digits.
Width(i) ==
  CHOOSE w \in name_width .. name_width + i :
    i < base ^ w /\ (w = name_width \/ base ^ (w - 1) <= i)

\* Names are compared digit by digit from the left; a name that is another's
\* beginning comes first, as its next character is the dot.
NameBefore(i, j) ==
  LET w == IF Width(i) > Width(j) THEN Width(i) ELSE Width(j)
      Aligned(n) == n * base ^ (w - Width(n))
  IN  \/ Aligned(i) < Aligned(j)
      \/ Aligned(i) = Aligned(j) /\ Width(i) < Width(j)

\* The names sort like the numbers in them: with the five digits of the code,
\* up to seg-99999.bin.
NamesInOrder == \A i, j \in Indices : NameBefore(i, j) <=> i < j

\* paths.sort()
AsGiven(listed) == listed   \* mutant
SortedByName(listed) ==
  LET places == DOMAIN listed
      order == CHOOSE p \in Bijection(places, places) :
                 \A j, k \in places : j < k => ~NameBefore(listed[p[k]], listed[p[j]])
  IN  [k \in places |-> listed[order[k]]]

\* collect_segments_in_dir: in the order the directory yields them, which
\* the sort makes irrelevant.
SegmentFiles == {i \in Indices : disk[i] # NoFile}

List(args) ==
  /\ stage = "idle"
  /\ given' = args.files \o (IF args.in_dir THEN SetToSeq(SegmentFiles) ELSE <<>>)
  /\ paths' = SortedByName(given')
  /\ stage' = IF given' = <<>> THEN "done" ELSE "reading"   \* no input: exit code 1
  /\ whole' = (args.in_dir /\ ToSet(args.files) \subseteq SegmentFiles)
  /\ before' = acked /\ listed_in' = runs
  /\ UNCHANGED <<vars, shown, dstats, warned, origin, started>>

\* The directory cannot be read to its end: exit code 1, whatever files were
\* given besides.
CannotList ==
  /\ stage = "idle"
  /\ \E args \in Args : args.in_dir
  /\ stage' = "done"
  /\ whole' = FALSE
  /\ UNCHANGED <<vars, paths, shown, dstats, warned, given, origin, before, listed_in, started>>

-----------------------------------------------------------------------------
\* A set of numbers as a sequence.
Ascending(places) ==
  CHOOSE s \in [1 .. Cardinality(places) -> places] :
    \A j, k \in DOMAIN s : j < k => s[j] < s[k]

\* read_segment: one result per chunk, with the piece that ends it.
Results(p) ==
  LET ends == Ascending({i \in 1 .. Len(p) : EndsChunk(p, i)})
  IN  [k \in 1 .. Len(ends) |->
         [ok |-> Readable(p, ends[k]), record |-> RecordIn(p[ends[k]])]]

\* passes_filter
PassesFilter(r) ==
  /\ r.id >= since
  /\ SeverityOf[r.id] >= min_severity
  /\ packet_types # {} => TypeOf[r.id] \in packet_types

\* The results that are printed: a chunk in error is reported and passed over.
Good(result) == result.ok /\ PassesFilter(result.record)

UntilFirstError(results) ==   \* mutant
  LET clean(k) == \A j \in 1 .. k : results[j].ok
  IN  [k \in 1 .. Cardinality({j \in 1 .. Len(results) : clean(j)}) |-> results[k].record]

Printed(results) ==
  LET good == Ascending({k \in DOMAIN results : Good(results[k])})
  IN  [k \in DOMAIN good |-> results[good[k]].record]

\* DecodeStats::record_seen and record_passed, for all the results of a
\* file.  A type or severity beyond its table is counted in none of its rows.
CountedSeen(table, results, key_of) ==   \* mutant
  [key \in DOMAIN table |->
     table[key] + Cardinality({k \in 1 .. Len(results) : key_of[results[k].record.id] = key})]

Tally(table, results, key_of) ==
  [key \in DOMAIN table |->
     table[key] + Cardinality({k \in DOMAIN results :
                                 Good(results[k]) /\ key_of[results[k].record.id] = key})]

Counted(results) ==
  [total_seen    |-> dstats.total_seen + Len(results),
   decode_errors |-> dstats.decode_errors + Cardinality({k \in DOMAIN results : ~results[k].ok}),
   passed_filter |-> dstats.passed_filter + Cardinality({k \in DOMAIN results : Good(results[k])}),
   by_type       |-> Tally(dstats.by_type, results, TypeOf),
   by_severity   |-> Tally(dstats.by_severity, results, SeverityOf)]

NextPath ==
  /\ stage = "reading" /\ paths # <<>>
  /\ paths' = Tail(paths)
  /\ UNCHANGED <<vars, stage, given, whole, before, listed_in, started>>

ReadFile ==
  /\ NextPath
  /\ disk[Head(paths)] # NoFile
  /\ LET results == Results(disk[Head(paths)])
     IN  /\ shown' = shown \o Printed(results)
         /\ origin' = origin \o [k \in DOMAIN Printed(results) |-> Head(paths)]
         /\ dstats' = Counted(results)
  /\ UNCHANGED warned

\* read_segment_file fails, as it must when there is no such file: a warning,
\* and on to the next path.
CannotRead ==
  /\ NextPath
  /\ warned' = TRUE
  /\ UNCHANGED <<shown, origin, dstats>>

\* The table, the JSON array and the statistics are printed.
Report ==
  /\ stage = "reading" /\ paths = <<>>
  /\ stage' = "done"
  /\ UNCHANGED <<vars, paths, shown, dstats, warned, given, whole, origin, before, listed_in, started>>

Decode == (\E args \in Args : List(args)) \/ CannotList \/ ReadFile \/ CannotRead \/ Report

\* The writer beside the decoder.
Writer ==
  /\ UNCHANGED dvars
  /\ \/ (\E r \in Record : Write(r)) /\ UNCHANGED started
     \/ Restart /\ started' = Append(started, writes)

DecoderNext == Writer \/ Decode

DecoderSpec == DecoderInit /\ [][DecoderNext]_<<vars, dvars, started>>

-----------------------------------------------------------------------------
Rows(table, key_of) ==
  \A key \in DOMAIN table :
    table[key] = Cardinality({k \in 1 .. Len(shown) : key_of[shown[k].id] = key})

\* The statistics agree with each other and with the output: what passed is
\* what is shown, each row of the tables counts the records shown with its
\* key, and errors and passes are apart.
StatisticsAgree ==
  /\ dstats.passed_filter = Len(shown)
  /\ Rows(dstats.by_type, TypeOf) /\ Rows(dstats.by_severity, SeverityOf)
  /\ dstats.decode_errors + dstats.passed_filter <= dstats.total_seen

Ids(records) == {records[k].id : k \in 1 .. Len(records)}

RunOf(id) == 1 + Cardinality({k \in 1 .. Len(started) : started[k] < id})

GivenTwice(path) == Cardinality({k \in 1 .. Len(given) : given[k] = path}) > 1

\* Whatever the order of the arguments, and whatever is written, rotated,
\* emptied or refilled by a restarted writer meanwhile: the records of each
\* run of the writer are shown in the order written, each once.  Only a file
\* that was given by name and as part of the directory is shown again.
ShownInOrder ==
  \A i, j \in 1 .. Len(shown) :
    i < j /\ RunOf(shown[i].id) = RunOf(shown[j].id) =>
      \/ shown[i].id < shown[j].id
      \/ origin[i] = origin[j] /\ GivenTwice(origin[i])

\* Of these records, the ones a reader can get now and the filter admits.
Wanted(ids) ==
  {id \in ids : /\ PassesFilter([id |-> id])
                /\ \E i \in {i \in Indices : disk[i] # NoFile} : \E j \in Read(i) : disk[i][j].id = id}

\* The whole directory was read, with no file that was not in it when it was
\* listed (a segment may be given by its name before there is one, and is then
\* read without those before it), and the writer was not restarted meanwhile.
WholeLogRead == stage = "done" /\ runs = listed_in /\ whole /\ ~warned

\* What the current run of the writer had acknowledged when the decoder
\* listed the directory is shown, whatever an earlier run left there: with
\* the exception of records damaged by a torn neighbour.
ShowsAllBefore == WholeLogRead => Wanted(Ids(before)) \subseteq Ids(shown)

\* Of what is written while it reads, it shows a part without holes: with a
\* record it shows every readable one acknowledged earlier, rotations in
\* between included.  Only a writer's first run promises that: a segment an
\* earlier run left is listed, and may be refilled before its turn comes,
\* while the segments the new run adds between the two were not listed.
NoHoles ==
  WholeLogRead /\ runs = 1 =>
    \A k \in 1 .. Len(shown) :
      Wanted({id \in Ids(acked) : id < shown[k].id}) \subseteq Ids(shown)

\* The decoder's view of the log is complete up to some moment of its reading.
ViewComplete == ShowsAllBefore /\ NoHoles
=============================================================================
