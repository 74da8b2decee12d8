---------------------------- MODULE TraceLoading ----------------------------
(***************************************************************************)
(* What the constructor of CellularQueue (src/src/frontend/                *)
(* cellular_queue.cc) makes of its files, line by line, and main of the    *)
(* arguments of the packet queue.  Whatever a file holds, what is accepted *)
(* must be what the rest of the program relies on.                         *)
(*                                                                         *)
(* A word of a file is a number or NaN, which stands for any text that is  *)
(* not one; a line without words is empty.  uint64_t is arithmetic modulo  *)
(* WORD, unsigned int modulo UINT, and a long that is stored in an int     *)
(* loses its upper bits.                                                   *)
(***************************************************************************)
EXTENDS Integers, FiniteSets, Sequences, SequencesExt

CONSTANTS
  WORD,             \* 2^64
  UINT,             \* 2^32
  NaN,
  HeavyLines,       \* lines a heavy trace may have
  TrainLines,       \* lines a packet-train trace may have
  OffsetLines,      \* lines a file of offsets may have
  QueueTypes,       \* values of --uplink-queue
  QueueArgs,        \* values of the queue's arguments, NaN for a missing one
  StartTimestamps,  \* values of --start-timestamp
  MaxLines          \* lines of a file (bound)

ASSUME LoadingAssumption ==
  /\ WORD \in Nat \ {0} /\ UINT \in Nat \ {0} /\ MaxLines \in Nat
  /\ StartTimestamps \subseteq 0..WORD-1
  /\ HeavyLines \cup TrainLines \cup OffsetLines \subseteq Seq(Int \cup {NaN})
  /\ QueueArgs \subseteq Int \cup {NaN}

VARIABLES
  phase,  \* the file that is read, or the end: loaded, threw, aborted
  file,   \* the lines of it so far
  start_timestamp_,
  queue_, \* type and limits
  heavy_pdo_schedule_, delay_pdo_traces_, psize_latency_offset_

loadVars == <<phase, file, start_timestamp_, queue_, heavy_pdo_schedule_,
              delay_pdo_traces_, psize_latency_offset_>>
contents == <<heavy_pdo_schedule_, delay_pdo_traces_, psize_latency_offset_>>

LoadInit ==
  /\ phase = "main"
  /\ file = <<>>
  /\ start_timestamp_ = 0
  /\ queue_ = [type |-> "infinite", packets |-> 0, bytes |-> 0]
  /\ heavy_pdo_schedule_ = <<>>
  /\ delay_pdo_traces_ = <<>>
  /\ psize_latency_offset_ = <<>>

IsNumber(word) == word # NaN

uint64(n) == n % WORD
int32(n) == ((n + UINT \div 2) % UINT) - UINT \div 2

\* An exception, or an assert that fails: there is no queue.
Gone ==
  /\ file' = <<>> /\ heavy_pdo_schedule_' = <<>>
  /\ delay_pdo_traces_' = <<>> /\ psize_latency_offset_' = <<>>
Throws == phase' = "threw" /\ Gone
Aborts == phase' = "aborted" /\ Gone

-----------------------------------------------------------------------------
(* main *)

get_arg(value) == IF IsNumber(value) THEN value % UINT ELSE 0

\* DroppingPacketQueue's constructor.
Limited(packets, bytes) == get_arg(packets) # 0 \/ get_arg(bytes) # 0

\* InfinitePacketQueue takes no arguments, the other queues need one.
get_packet_queue(type, packets, bytes) ==
  IF type = "infinite" THEN ~ IsNumber(packets) /\ ~ IsNumber(bytes)
  ELSE type \in {"droptail", "drophead"} /\ Limited(packets, bytes)

\* Arguments are missing: main says so, or fails when it reads the name that is
\* not there.
usage_error ==
  /\ phase = "main"
  /\ Throws
  /\ UNCHANGED <<start_timestamp_, queue_>>

\* The options; the queue is made before the traces are read.
main ==
  /\ phase = "main"
  /\ start_timestamp_' \in StartTimestamps
  /\ \E type \in QueueTypes, packets, bytes \in QueueArgs :
       IF get_packet_queue(type, packets, bytes)
       THEN /\ queue_' = [type |-> type, packets |-> get_arg(packets), bytes |-> get_arg(bytes)]
            /\ phase' = "heavy"
       ELSE phase' = "threw" /\ UNCHANGED queue_
  /\ UNCHANGED <<file, contents>>

-----------------------------------------------------------------------------
(* The constructor of CellularQueue *)

\* A file cannot be opened for reading, or the packet log for writing.
cannot_open ==
  /\ phase \in {"heavy", "train", "offsets"}
  /\ file = <<>>
  /\ Throws
  /\ UNCHANGED <<start_timestamp_, queue_>>

More(f) == phase = f /\ Len(file) < MaxLines
Reads(line) == file' = Append(file, line)

\* Bug: the start timestamp is not subtracted.
Time_uncut(ms) == ms

\* Times count from the start timestamp.
Time(ms) == ms - start_timestamp_

\* Bug: neighbouring lines are not compared.
OutOfOrder_never(ms, times) == FALSE

\* The line's time is before the last one kept.
OutOfOrder(ms, times) == times # <<>> /\ Time(ms) < Last(times)

read_heavy_line(line) ==
  /\ More("heavy")
  /\ IF line = <<>> \/ ~ IsNumber(line[1]) THEN Throws
     ELSE LET ms == uint64(line[1])
          IN  IF ms < start_timestamp_
              THEN Reads(line) /\ UNCHANGED <<phase, contents>>
              ELSE IF OutOfOrder(ms, heavy_pdo_schedule_) THEN Throws
              ELSE /\ heavy_pdo_schedule_' = Append(heavy_pdo_schedule_, Time(ms))
                   /\ Reads(line)
                   /\ UNCHANGED <<phase, delay_pdo_traces_, psize_latency_offset_>>
  /\ UNCHANGED <<start_timestamp_, queue_>>

end_of_heavy ==
  /\ phase = "heavy"
  /\ IF heavy_pdo_schedule_ = <<>> \/ Last(heavy_pdo_schedule_) = 0 THEN Throws
     ELSE phase' = "train" /\ file' = <<>> /\ UNCHANGED contents
  /\ UNCHANGED <<start_timestamp_, queue_>>

\* The assert on first_packet_delay_ms, which is -1 if there is no column for it.
DelayMissing(line) == Len(line) < 2 \/ int32(line[2]) < 0

TrainLine(line) ==
  [time  |-> Time(uint64(line[1])),
   delay |-> int32(line[2]),
   pdo   |-> [i \in 1..Len(line)-2 |-> int32(line[i + 2])]]

\* The first column is the time, the second the base delay, and the others are
\* opportunities.  Every word is converted before anything is checked.
read_train_line(line) ==
  /\ More("train")
  /\ IF line = <<>> \/ \E i \in 1..Len(line) : ~ IsNumber(line[i]) THEN Throws
     ELSE IF DelayMissing(line) THEN Aborts
     ELSE LET ms    == uint64(line[1])
              times == [i \in DOMAIN delay_pdo_traces_ |-> delay_pdo_traces_[i].time]
          IN  IF ms < start_timestamp_
              THEN Reads(line) /\ UNCHANGED <<phase, contents>>
              ELSE IF OutOfOrder(ms, times) THEN Throws
              ELSE /\ delay_pdo_traces_' = Append(delay_pdo_traces_,
                        TrainLine(line))
                   /\ Reads(line)
                   /\ UNCHANGED <<phase, heavy_pdo_schedule_, psize_latency_offset_>>
  /\ UNCHANGED <<start_timestamp_, queue_>>

end_of_train ==
  /\ phase = "train"
  /\ IF Len(delay_pdo_traces_) <= 2 THEN Throws
     ELSE phase' = "offsets" /\ file' = <<>> /\ UNCHANGED contents
  /\ UNCHANGED <<start_timestamp_, queue_>>

WithSize(lines) == {i \in DOMAIN lines : lines[i] # <<>>}

\* Every line with a size must have the next multiple of 100.
Expected(line, lines) == int32(line[1]) = 100 * (1 + Cardinality(WithSize(lines)))

\* The second word is an offset; further words are not looked at.
read_offset_line(line) ==
  /\ More("offsets")
  /\ IF line # <<>> /\ (~ IsNumber(line[1]) \/ ~ Expected(line, file)) THEN Throws
     ELSE IF Len(line) >= 2 /\ ~ IsNumber(line[2]) THEN Throws
     ELSE /\ psize_latency_offset_' =
               psize_latency_offset_ \o (IF Len(line) >= 2 THEN <<line[2]>> ELSE <<>>)
          /\ Reads(line)
          /\ UNCHANGED <<phase, heavy_pdo_schedule_, delay_pdo_traces_>>
  /\ UNCHANGED <<start_timestamp_, queue_>>

\* There may be no file of offsets.
end_of_offsets ==
  /\ phase = "offsets"
  /\ phase' = "loaded"
  /\ UNCHANGED <<file, start_timestamp_, queue_, contents>>

LoadStep ==
  \/ usage_error \/ main \/ cannot_open
  \/ \E line \in HeavyLines : read_heavy_line(line)
  \/ end_of_heavy
  \/ \E line \in TrainLines : read_train_line(line)
  \/ end_of_train
  \/ \E line \in OffsetLines : read_offset_line(line)
  \/ end_of_offsets

-----------------------------------------------------------------------------
(* Properties *)

\* The position of the i-th line of a file among the lines of a set.
Position(i, set) == Cardinality({j \in set : j <= i})

\* The times are those of the lines from the start timestamp on, in order and
\* counted from it.
CutAtStart(times, lines) ==
  LET kept == {i \in DOMAIN lines : uint64(lines[i][1]) >= start_timestamp_}
  IN  /\ Len(times) = Cardinality(kept)
      /\ \A i \in kept : times[Position(i, kept)] = uint64(lines[i][1]) - start_timestamp_

\* Both schedules are their files, cut at the same start timestamp.
SchedulesAsFiled ==
  /\ phase = "heavy" => CutAtStart(heavy_pdo_schedule_, file)
  /\ phase = "train" =>
       CutAtStart([i \in DOMAIN delay_pdo_traces_ |-> delay_pdo_traces_[i].time], file)

NonDecreasing(times) == \A i, j \in DOMAIN times : i <= j => times[i] <= times[j]

\* What the link and the delay queue rely on, of what the constructor checks:
\* opportunities in order and over more than no time, three lines with base
\* delays that are not negative, and a limit for a queue that drops packets.
\* (That the packet-train trace has opportunities and lasts is not checked.)
AcceptedUsable ==
  phase = "loaded" =>
    /\ heavy_pdo_schedule_ # <<>>
    /\ NonDecreasing(heavy_pdo_schedule_)
    /\ Last(heavy_pdo_schedule_) \in 1..WORD-1
    /\ Len(delay_pdo_traces_) > 2
    /\ NonDecreasing([i \in DOMAIN delay_pdo_traces_ |-> delay_pdo_traces_[i].time])
    /\ \A i \in DOMAIN delay_pdo_traces_ : delay_pdo_traces_[i].delay >= 0
    /\ queue_.type # "infinite" => queue_.packets + queue_.bytes > 0

\* Entry i of the offsets is the one for i times 100 bytes, if no line of the
\* file has a size without an offset (which would move those that follow).
OffsetsAligned ==
  phase \in {"offsets", "loaded"} /\ (\A i \in DOMAIN file : Len(file[i]) # 1) =>
    LET sized == WithSize(file)
    IN  /\ Len(psize_latency_offset_) = Cardinality(sized)
        /\ \A i \in sized : /\ int32(file[i][1]) = 100 * Position(i, sized)
                            /\ file[i][2] = psize_latency_offset_[Position(i, sized)]

\* What was read is what the files say: the schedules, cut at the start
\* timestamp, and for every size its own offset.
LoadedAsFiled == SchedulesAsFiled /\ OffsetsAligned

=============================================================================
