---------------------------- MODULE JsonLineStream ----------------------------
(***************************************************************************)
(* convert_json_line_stream (windmill-object-store, feature parquet): the *)
(* caller's JSON values are written to a temporary file, DataFusion reads *)
(* it back as record batches, and a spawned task encodes them (Parquet,   *)
(* CSV or JSON) through a ChannelWriter into a bounded mpsc channel whose *)
(* receiver is returned as the output stream.  Each encoder write runs on *)
(* a blocking thread (spawn_blocking) and blocking_send waits while the   *)
(* channel is full.  The receiver may be dropped at any time (the client  *)
(* of the download goes away).  A chunk of output is abstracted to the    *)
(* number of batches it covers.                                           *)
(***************************************************************************)
EXTENDS Naturals, Sequences

CONSTANTS
    Formats,     \* S3ModeFormat: parquet, csv, json
    MaxChunks,   \* bound on the input stream's items
    MaxBatches,  \* bound on the record batches DataFusion yields
    ChanCap      \* MAX_MPSC_SIZE, scaled down

VARIABLES
    format,   \* the requested output format
    callPc,   \* the async fn: create | reading | planning | returned | failed
    tmpFile,  \* the temporary .json file exists
    rows,     \* input items written to the file
    taskPc,   \* the spawned task
    batch,    \* record batches taken from the DataFusion stream
    chan,     \* the mpsc channel: a sequence of chunks
    rxAlive,  \* the returned receiver stream is held
    got,      \* chunks the receiver has taken
    ended,    \* the receiver saw the end of the stream
    poisoned  \* an encoder write panicked holding the writer's mutex

jvars == <<format, callPc, tmpFile, rows, taskPc, batch, chan, rxAlive, got,
          ended, poisoned>>

\* A chunk: encoded data, the encoder's closing bytes, or an error item;
\* upto is the number of batches the output covers once it is read.
Chunks == [k : {"data", "close", "err"}, upto : 0..MaxBatches]

TaskSteps == {"idle", "next", "writing", "sendErrBreak", "sendErrContinue",
              "closing", "removing", "done"}

JsonTypeOK ==
    /\ format \in Formats
    /\ callPc \in {"create", "reading", "planning", "returned", "failed"}
    /\ tmpFile \in BOOLEAN
    /\ rows \in 0..MaxChunks
    /\ taskPc \in TaskSteps
    /\ batch \in 0..MaxBatches
    /\ chan \in Seq(Chunks) /\ Len(chan) <= ChanCap
    /\ rxAlive \in BOOLEAN
    /\ got \in Seq(Chunks)
    /\ ended \in BOOLEAN
    /\ poisoned \in BOOLEAN

JsonInit ==
    /\ format \in Formats
    /\ callPc = "create"
    /\ tmpFile = FALSE
    /\ rows = 0
    /\ taskPc = "idle"
    /\ batch = 0
    /\ chan = <<>>
    /\ rxAlive = FALSE
    /\ got = <<>>
    /\ ended = FALSE
    /\ poisoned = FALSE

\* The encoders: CSV and JSON write each batch as it comes, Parquet may
\* buffer it into the current row group.  On close Parquet writes the
\* remaining rows and the footer, JSON the closing bracket, CSV nothing.
WriteEmits == {TRUE, FALSE}
CloseEmits == format # "csv"

(***************************************************************************)
(* The async fn, up to the return of the receiver.                         *)
(***************************************************************************)

\* tokio::fs::File::create of temp_dir()/<random>.json.
CreateTmpFile ==
    /\ callPc = "create"
    /\ \/ callPc' = "reading" /\ tmpFile' = TRUE
       \/ callPc' = "failed" /\ UNCHANGED tmpFile
    /\ UNCHANGED <<format, rows, taskPc, batch, chan, rxAlive, got, ended, poisoned>>

\* One item of the input stream: an Ok value is written as a line (a write
\* error returns at once through `?`), an Err removes the file and is
\* returned, the end of the stream moves on.
ReadChunk ==
    /\ callPc = "reading"
    /\ \/ /\ rows < MaxChunks
          /\ \/ rows' = rows + 1 /\ UNCHANGED callPc
             \/ callPc' = "failed" /\ UNCHANGED rows
          /\ UNCHANGED tmpFile
       \/ /\ callPc' = "failed" /\ tmpFile' = FALSE
          /\ UNCHANGED rows
       \/ /\ callPc' = "planning"
          /\ UNCHANGED <<tmpFile, rows>>
    /\ UNCHANGED <<format, taskPc, batch, chan, rxAlive, got, ended, poisoned>>

\* Mutant: the task is spawned before the fallible steps, so it runs when
\* the call returns an error.
PlanSpawnsEarly ==
    /\ callPc = "planning"
    /\ taskPc' = "next"
    /\ \/ callPc' = "returned" /\ rxAlive' = TRUE
       \/ callPc' = "failed" /\ UNCHANGED rxAlive
    /\ UNCHANGED <<format, tmpFile, rows, batch, chan, got, ended, poisoned>>

\* flush, sync_all, register_json, sql, execute_stream and the writer's
\* construction, each behind `?`; on success the task is spawned and the
\* receiver returned.
Plan ==
    /\ callPc = "planning"
    /\ \/ /\ callPc' = "returned" /\ taskPc' = "next" /\ rxAlive' = TRUE
       \/ /\ callPc' = "failed"
          /\ UNCHANGED <<taskPc, rxAlive>>
    /\ UNCHANGED <<format, tmpFile, rows, batch, chan, got, ended, poisoned>>

(***************************************************************************)
(* The spawned task.                                                       *)
(***************************************************************************)

\* datafusion_stream.next(): a batch, an error, or the end.
NextBatch ==
    /\ taskPc = "next"
    /\ \/ /\ batch < MaxBatches
          /\ batch' = batch + 1 /\ taskPc' = "writing"
       \/ taskPc' = "sendErrBreak" /\ UNCHANGED batch
       \/ taskPc' = "closing" /\ UNCHANGED batch
    /\ UNCHANGED <<format, callPc, tmpFile, rows, chan, rxAlive, got, ended, poisoned>>

\* Put a chunk with blocking_send: it waits while the channel is full and
\* fails once the receiver is gone.
CanSend == ~rxAlive \/ Len(chan) < ChanCap
Sent(c) == chan' = IF rxAlive THEN Append(chan, c) ELSE chan

\* Mutant: the chunk is offered with try_send and lost on a full channel.
WriteBatchTrySend ==
    /\ taskPc = "writing"
    /\ \E emit \in WriteEmits :
        /\ format # "parquet" => emit
        /\ IF emit /\ rxAlive /\ Len(chan) < ChanCap
           THEN chan' = Append(chan, [k |-> "data", upto |-> batch])
           ELSE UNCHANGED chan
        /\ taskPc' = "next"
    /\ UNCHANGED <<format, callPc, tmpFile, rows, batch, rxAlive, got, ended, poisoned>>

\* spawn_blocking(writer.write(&batch)), awaited.  A write that fails (the
\* channel is closed, or the encoder errors) sends an Err and the loop goes
\* on with the next batch.  A write that panics is a JoinError, only
\* logged: the bytes it sent stay sent, no Err is sent, and the writer's
\* mutex is poisoned, so every later lock().unwrap() panics the same way.
WriteBatch ==
    /\ taskPc = "writing"
    /\ \/ /\ ~poisoned
          /\ \E emit \in WriteEmits :
               /\ format # "parquet" => emit
               /\ emit => CanSend
               /\ IF emit
                  THEN /\ Sent([k |-> "data", upto |-> batch])
                       /\ taskPc' = IF rxAlive THEN "next" ELSE "sendErrContinue"
                  ELSE /\ UNCHANGED chan
                       /\ taskPc' = "next"
          /\ UNCHANGED poisoned
       \/ /\ ~poisoned
          /\ taskPc' = "sendErrContinue"
          /\ UNCHANGED <<chan, poisoned>>
       \/ /\ \/ UNCHANGED chan
             \/ ~poisoned /\ CanSend /\ Sent([k |-> "data", upto |-> batch])
          /\ poisoned' = TRUE
          /\ taskPc' = "next"
    /\ UNCHANGED <<format, callPc, tmpFile, rows, batch, rxAlive, got, ended>>

\* Mutant: the error is queued without waiting for room (an unbounded send).
SendErrUnbounded ==
    /\ taskPc \in {"sendErrBreak", "sendErrContinue"}
    /\ chan' = IF rxAlive THEN Append(chan, [k |-> "err", upto |-> batch])
               ELSE chan
    /\ taskPc' = IF taskPc = "sendErrBreak" THEN "closing" ELSE "next"
    /\ UNCHANGED <<format, callPc, tmpFile, rows, batch, rxAlive, got, ended, poisoned>>

\* Mutant: the loop continues after a DataFusion error as after a write
\* error (continue for break).
SendErrContinues ==
    /\ taskPc \in {"sendErrBreak", "sendErrContinue"}
    /\ CanSend
    /\ Sent([k |-> "err", upto |-> batch])
    /\ taskPc' = "next"
    /\ UNCHANGED <<format, callPc, tmpFile, rows, batch, rxAlive, got, ended, poisoned>>

\* tx.send(Err(e)).await: waits for room, fails (logged) on a closed
\* channel; after a DataFusion error the loop breaks, after a write error
\* it continues.
SendErr ==
    /\ taskPc \in {"sendErrBreak", "sendErrContinue"}
    /\ CanSend
    /\ Sent([k |-> "err", upto |-> batch])
    /\ taskPc' = IF taskPc = "sendErrBreak" THEN "closing" ELSE "next"
    /\ UNCHANGED <<format, callPc, tmpFile, rows, batch, rxAlive, got, ended, poisoned>>

\* spawn_blocking(writer.take().close()?).await??: closing bytes that cannot
\* be sent make close fail, and the task returns before remove_file; on a
\* poisoned mutex the closure panics and the JoinError returns the same way.
Close ==
    /\ taskPc = "closing"
    /\ \/ /\ poisoned
          /\ taskPc' = "done"
          /\ UNCHANGED chan
       \/ /\ ~poisoned
          /\ CloseEmits => CanSend
          /\ IF CloseEmits
             THEN /\ Sent([k |-> "close", upto |-> batch])
                  /\ taskPc' = IF rxAlive THEN "removing" ELSE "done"
             ELSE /\ UNCHANGED chan
                  /\ taskPc' = "removing"
    /\ UNCHANGED <<format, callPc, tmpFile, rows, batch, rxAlive, got, ended, poisoned>>

\* drop(ctx); tokio::fs::remove_file(&path).
RemoveTmpFile ==
    /\ taskPc = "removing"
    /\ tmpFile' = FALSE /\ taskPc' = "done"
    /\ UNCHANGED <<format, callPc, rows, batch, chan, rxAlive, got, ended, poisoned>>

(***************************************************************************)
(* The receiver stream (ReceiverStream over rx).                           *)
(***************************************************************************)

Recv ==
    /\ rxAlive /\ chan # <<>>
    /\ got' = Append(got, Head(chan)) /\ chan' = Tail(chan)
    /\ UNCHANGED <<format, callPc, tmpFile, rows, taskPc, batch, rxAlive, ended, poisoned>>

\* Every sender (the task's tx and the writer's clone) is dropped once the
\* task is over: the stream ends.
RecvEnd ==
    /\ rxAlive /\ chan = <<>> /\ taskPc = "done" /\ ~ended
    /\ ended' = TRUE
    /\ UNCHANGED <<format, callPc, tmpFile, rows, taskPc, batch, chan, rxAlive,
                   got, poisoned>>

\* The client goes away: the receiver and its buffered chunks are dropped.
Disconnect ==
    /\ rxAlive /\ ~ended
    /\ rxAlive' = FALSE /\ chan' = <<>>
    /\ UNCHANGED <<format, callPc, tmpFile, rows, taskPc, batch, got, ended, poisoned>>

JsonNext ==
    \/ CreateTmpFile \/ ReadChunk \/ Plan
    \/ NextBatch \/ WriteBatch \/ SendErr \/ Close \/ RemoveTmpFile
    \/ Recv \/ RecvEnd \/ Disconnect

JsonSpec == JsonInit /\ [][JsonNext]_jvars

(***************************************************************************)
(* Properties.                                                             *)
(***************************************************************************)

Last(s) == s[Len(s)]

\* A client that read the stream to its end, saw no error item and got the
\* encoder's closing bytes last (the Parquet footer, the JSON array's
\* closing bracket) has the whole result: chunks in batch order, and for
\* JSON one data chunk per batch.  The task awaits each blocking write
\* before the next batch, and after a write that panicked the close panics
\* too, so the closing bytes certify a complete output.
ClosedOutputComplete ==
    LET noErr == \A i \in 1..Len(got) : got[i].k # "err"
    IN  ended /\ noErr /\ got # <<>> /\ Last(got).k = "close" =>
            /\ \A i \in 1..Len(got) - 1 : got[i].upto <= got[i + 1].upto
            /\ format = "json" =>
                  /\ Len(got) = batch + 1
                  /\ \A j \in 1..batch : got[j] = [k |-> "data", upto |-> j]

\* Once convert_json_line_stream has returned an error, or its task has
\* finished, the temporary file is gone from temp_dir.
TmpFileRemoved ==
    (callPc = "failed" \/ taskPc = "done") => ~tmpFile

(***************************************************************************)
(* Refinement: the stream the caller gets behaves as ChunkStream.  What  *)
(* was sent is what the receiver took followed by what waits in the     *)
(* channel; the stream exists once the call has returned it, and the    *)
(* producer has finished once the task is over (its senders dropped).   *)
(***************************************************************************)
Stream == INSTANCE ChunkStream WITH
    Items <- Chunks,
    Cap <- ChanCap,
    sent <- got \o chan,
    nread <- Len(got),
    rx <- IF rxAlive THEN "open" ELSE IF callPc = "returned" THEN "dropped" ELSE "none",
    fin <- taskPc = "done",
    ended <- ended

\* The receiver returned by convert_json_line_stream is a bounded FIFO of
\* the task's chunks: no chunk is lost or reordered while it is held, the
\* task sends nothing before the stream is returned or after it is done,
\* blocking sends keep at most MAX_MPSC_SIZE chunks waiting, and the stream
\* ends only once the task has finished and every chunk was read.
ImplementsChunkStream == Stream!ChunkStreamSpec

====
