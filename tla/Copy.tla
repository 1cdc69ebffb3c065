-------------------------------- MODULE Copy ---------------------------------
(***************************************************************************)
(* COPY FROM and COPY TO of one table (execution/dml/copy_from_file.rs and  *)
(* copy_to_file.rs), up to the end of the transaction (db.rs).  COPY FROM   *)
(* is a thread that reads the file, a channel, and the executor, which runs *)
(* in the caller's thread and only while the caller resumes it.             *)
(***************************************************************************)
EXTENDS Integers, Sequences, Functions

CONSTANTS
    Files,      \* the files to import: Nothing if there is none, else the records
    Table,      \* the keys of the rows that are committed
    Keyed,      \* records that are a row, each for its key
    Nothing

(* Records that are none: too few or too many values, a value that cannot   *)
(* be cast, and one empty value too many.  The last is in every record of a *)
(* file or in none, as the csv reader wants all records to be as long as    *)
(* the first.                                                               *)
NoRow == {"short", "cast", "trailing"}

VARIABLES
    op,         \* "from" or "to"
    file,       \* the records of the file
    rows,       \* the committed rows
    reader,     \* where the reading thread is
    at,         \* the next record to read, or row to write
    chan,       \* rows sent and not received
    exec,       \* where the executor is
    batch,      \* rows in the transaction ("from"), records in the buffer ("to")
    reply,      \* what the executor yielded last
    passed      \* whether the caller went on after an error

copyVars == <<op, file, rows, reader, at, chan, exec, batch, reply, passed>>

CopyInit ==
    /\ op \in {"from", "to"}
    /\ file \in IF op = "from" THEN Files ELSE {<<>>}
    /\ rows = Table
    /\ reader = Nothing /\ at = 1 /\ chan = <<>>
    /\ exec = "bound" /\ batch = <<>> /\ reply = Nothing /\ passed = FALSE

ThreadOver == {"ok", "error", "panic"}

(* throw!: the error is yielded and the executor waits to be resumed.       *)
Throw == exec' = "failed" /\ reply' = <<"error">>

-----------------------------------------------------------------------------
(* The thread that reads the file.                                          *)

OpenFile ==
    /\ reader = "open"
    /\ reader' = IF file = Nothing THEN "error" ELSE "read"
    /\ UNCHANGED <<op, file, rows, at, chan, exec, batch, reply, passed>>

(* The receiver lives as long as the executor does.                         *)
Receiver == exec \in {"recv", "failed"}

(* Mutant of ReadRecord: the channel has room for one row.                  *)
ReadRecordBounded ==
    /\ reader = "read" /\ at <= Len(file)
    /\ \/ /\ file[at] \in Keyed /\ Receiver /\ Len(chan) < 1
          /\ chan' = Append(chan, file[at]) /\ at' = at + 1
          /\ UNCHANGED reader
       \/ /\ file[at] \in {"short", "cast"} \/ (file[at] \in Keyed /\ ~Receiver)
          /\ reader' = "error"
          /\ UNCHANGED <<at, chan>>
       \/ /\ file[at] = "trailing"
          /\ reader' = "panic"
          /\ UNCHANGED <<at, chan>>
    /\ UNCHANGED <<op, file, rows, exec, batch, reply, passed>>

(* One empty value too many passes the check of the length, but there is no *)
(* column to cast it to: build_with_row panics.                             *)
ReadRecord ==
    /\ reader = "read" /\ at <= Len(file)
    /\ \/ /\ file[at] \in Keyed /\ Receiver
          /\ chan' = Append(chan, file[at]) /\ at' = at + 1
          /\ UNCHANGED reader
       \/ /\ file[at] \in {"short", "cast"} \/ (file[at] \in Keyed /\ ~Receiver)
          /\ reader' = "error"
          /\ UNCHANGED <<at, chan>>
       \/ /\ file[at] = "trailing"
          /\ reader' = "panic"
          /\ UNCHANGED <<at, chan>>
    /\ UNCHANGED <<op, file, rows, exec, batch, reply, passed>>

EndOfFile ==
    /\ reader = "read" /\ at > Len(file)
    /\ reader' = "ok"
    /\ UNCHANGED <<op, file, rows, at, chan, exec, batch, reply, passed>>

ReaderStep == OpenFile \/ ReadRecord \/ EndOfFile

-----------------------------------------------------------------------------
(* The executor of COPY FROM.                                               *)

(* The caller resumes the executor.  The table may be gone since binding.   *)
Start ==
    /\ op = "from" /\ exec = "bound"
    /\ \/ Throw /\ UNCHANGED reader
       \/ reader' = "open" /\ exec' = "recv" /\ UNCHANGED reply
    /\ UNCHANGED <<op, file, rows, at, chan, batch, passed>>

(* append_tuple, without the entries of indexes.                            *)
Receive ==
    /\ exec = "recv" /\ chan # <<>>
    /\ chan' = Tail(chan)
    /\ \/ /\ Head(chan) \in Range(rows \o batch)
          /\ Throw /\ UNCHANGED batch
       \/ /\ Head(chan) \notin Range(rows \o batch)
          /\ batch' = Append(batch, Head(chan))
          /\ UNCHANGED <<exec, reply>>
    /\ UNCHANGED <<op, file, rows, reader, at, passed>>

EndOfRows ==
    /\ exec = "recv" /\ chan = <<>> /\ reader \in ThreadOver
    /\ exec' = "join"
    /\ UNCHANGED <<op, file, rows, reader, at, chan, batch, reply, passed>>

(* Mutant of Join: the result of the thread is not looked at.               *)
JoinAnyway ==
    /\ exec = "join"
    /\ exec' = "yielded" /\ reply' = <<"import", Len(batch)>>
    /\ UNCHANGED <<op, file, rows, reader, at, chan, batch, passed>>

(* A panic of the thread is passed on to the caller, whose iterator is      *)
(* dropped.  Else the result comes from a second thread that sends it.      *)
Join ==
    /\ exec = "join"
    /\ \/ /\ reader = "ok"
          /\ exec' = "yielded" /\ reply' = <<"import", Len(batch)>>
          /\ UNCHANGED batch
       \/ reader = "error" /\ Throw /\ UNCHANGED batch
       \/ /\ reader = "panic"
          /\ exec' = "gone" /\ reply' = <<"panic">> /\ batch' = <<>>
    /\ UNCHANGED <<op, file, rows, reader, at, chan, passed>>

-----------------------------------------------------------------------------
(* The executor of COPY TO.                                                 *)

(* create_writer empties the file.  A header is optional.                   *)
CreateWriter ==
    /\ op = "to" /\ exec = "bound"
    /\ \/ Throw /\ UNCHANGED batch
       \/ exec' = "write" /\ batch' \in {<<>>, <<"header">>} /\ UNCHANGED reply
    /\ UNCHANGED <<op, file, rows, reader, at, chan, passed>>

(* A record goes to the buffer, which is written out when it is full.  The  *)
(* scan or the write may fail.                                              *)
WriteRecord ==
    /\ exec = "write" /\ at <= Len(rows)
    /\ \/ Throw /\ UNCHANGED <<file, at, batch>>
       \/ /\ \/ UNCHANGED file /\ batch' = Append(batch, rows[at])
             \/ file' = file \o batch /\ batch' = <<rows[at]>>
          /\ at' = at + 1
          /\ UNCHANGED <<exec, reply>>
    /\ UNCHANGED <<op, rows, reader, chan, passed>>

(* Mutant of Flush: whether the rest was written is not looked at.          *)
FlushAnyway ==
    /\ exec = "write" /\ at > Len(rows)
    /\ exec' = "yielded" /\ reply' = <<"export">>
    /\ file' \in {file, file \o batch} /\ batch' = <<>>
    /\ UNCHANGED <<op, rows, reader, at, chan, passed>>

Flush ==
    /\ exec = "write" /\ at > Len(rows)
    /\ \/ Throw /\ UNCHANGED <<file, batch>>
       \/ /\ exec' = "yielded" /\ reply' = <<"export">>
          /\ file' = file \o batch /\ batch' = <<>>
    /\ UNCHANGED <<op, rows, reader, at, chan, passed>>

ExecutorStep == Receive \/ EndOfRows \/ Join \/ WriteRecord \/ Flush

-----------------------------------------------------------------------------
(* The caller.                                                              *)

(* The executor ends and with it the receiver; a writer writes what is left *)
(* in its buffer, or fails to.                                              *)
Destroy ==
    /\ chan' = <<>>
    /\ IF op = "to" THEN file' \in {file, file \o batch} ELSE UNCHANGED file

(* next after a result or an error ends the executor.                       *)
Resume ==
    /\ exec \in {"failed", "yielded"}
    /\ exec' = "over" /\ passed' = (exec = "failed")
    /\ Destroy
    /\ batch' = IF op = "to" THEN <<>> ELSE batch
    /\ UNCHANGED <<op, rows, reader, at, reply>>

(* The iterator is dropped, by the caller or by done when it meets an error *)
(* or the commit fails: the transaction ends.                               *)
Drop ==
    /\ exec \in {"bound", "failed", "yielded", "over"}
    /\ exec' = "gone" /\ Destroy /\ batch' = <<>>
    /\ UNCHANGED <<op, rows, reader, at, reply, passed>>

(* done commits once the executor is over, an error that next returned      *)
(* before notwithstanding.                                                  *)
CopyDone ==
    /\ exec = "over"
    /\ exec' = "committed" /\ rows' = rows \o batch /\ batch' = <<>>
    /\ UNCHANGED <<op, file, reader, at, chan, reply, passed>>

CallerStep == Start \/ CreateWriter \/ Resume \/ Drop \/ CopyDone

CopyNext == ReaderStep \/ ExecutorStep \/ CallerStep

(* Threads are scheduled.  Nothing makes the caller go on.                  *)
CopySpec ==
    CopyInit /\ [][CopyNext]_copyVars /\ WF_copyVars(ReaderStep) /\ WF_copyVars(ExecutorStep)

-----------------------------------------------------------------------------
(* COPY FROM reports the rows of the whole file (CopyFromFile), in their    *)
(* order, although they reach it through a thread that may fail after any   *)
(* of them; and it commits all or none of them, unless the caller gets an   *)
(* error from next and then calls done.                                     *)
ImportWhole ==
    op = "from" =>
        /\ reply # Nothing /\ reply[1] = "import" /\ exec \in {"yielded", "over"} =>
              batch = file /\ reply[2] = Len(file)
        /\ ~passed => rows = Table \/ rows = Table \o file

(* Once COPY TO has reported the end (CopyToFile), the file holds every row *)
(* in order, behind the header if there is one, whatever was written out    *)
(* when.                                                                    *)
ExportWhole ==
    reply = <<"export">> => file \in {rows, <<"header">> \o rows}

(* An executor of COPY that is resumed yields or ends (rx.recv): it does    *)
(* not wait for a thread that has ended, well or not.                       *)
CopyReturns == exec \in {"recv", "join", "write"} ~> exec \notin {"recv", "join", "write"}

(* The thread that reads the file ends, also if the caller drops the        *)
(* iterator, and if the caller keeps it after an error and never resumes it.*)
ReaderFinishes == reader # Nothing ~> reader \in ThreadOver

(* Neither the executor of COPY nor the thread that reads for it waits      *)
(* forever for the other or for the caller (CopyFromFile and its comment on *)
(* cancellation).                                                           *)
CopyEnds == CopyReturns /\ ReaderFinishes
=============================================================================
