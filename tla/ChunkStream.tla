---------------------------- MODULE ChunkStream ----------------------------
(***************************************************************************)
(* What the stream returned by convert_json_line_stream promises its      *)
(* reader, with the encoder task and DataFusion left out: a bounded FIFO  *)
(* of chunks from one producer to one reader.  The stream is kept as its  *)
(* whole history, `sent`, and the number of chunks read, `nread`: the     *)
(* reader sees a prefix of what was sent, in order, nothing is lost while *)
(* the reader holds the stream, at most Cap chunks wait unread, nothing   *)
(* is sent once the producer has finished, and the stream ends only after *)
(* the producer finished and every chunk was read.  A reader that goes    *)
(* away drops the chunks it had not read.                                 *)
(***************************************************************************)
EXTENDS Naturals, Sequences

CONSTANTS
    Items,  \* what a chunk may be
    Cap     \* how many chunks may wait unread

VARIABLES
    sent,   \* every chunk the reader holds or will read
    nread,  \* how many of them it has read
    rx,     \* the stream: "none" before it is returned, "open", "dropped"
    fin,    \* the producer has finished
    ended   \* the reader saw the end of the stream

svars == <<sent, nread, rx, fin, ended>>

Unread == Len(sent) - nread

StreamInit ==
    /\ sent = <<>>
    /\ nread = 0
    /\ rx = "none"
    /\ fin = FALSE
    /\ ended = FALSE

\* The stream is handed to the reader, once.
Open ==
    /\ rx = "none"
    /\ rx' = "open"
    /\ UNCHANGED <<sent, nread, fin, ended>>

\* The producer adds a chunk while the reader holds the stream and there
\* is room for it.
Put(c) ==
    /\ rx = "open" /\ ~fin
    /\ Unread < Cap
    /\ sent' = Append(sent, c)
    /\ UNCHANGED <<nread, rx, fin, ended>>

\* The producer is done; it may finish after the reader has gone.
Finish ==
    /\ rx # "none" /\ ~fin
    /\ fin' = TRUE
    /\ UNCHANGED <<sent, nread, rx, ended>>

\* The reader takes the oldest unread chunk.
Take ==
    /\ rx = "open" /\ Unread > 0
    /\ nread' = nread + 1
    /\ UNCHANGED <<sent, rx, fin, ended>>

\* The reader sees the end: the producer has finished and nothing is left.
End ==
    /\ rx = "open" /\ fin /\ Unread = 0 /\ ~ended
    /\ ended' = TRUE
    /\ UNCHANGED <<sent, nread, rx, fin>>

\* The reader goes away before the end; the unread chunks are dropped.
Drop ==
    /\ rx = "open" /\ ~ended
    /\ rx' = "dropped"
    /\ sent' = SubSeq(sent, 1, nread)
    /\ UNCHANGED <<nread, fin, ended>>

StreamNext ==
    \/ Open
    \/ \E c \in Items : Put(c)
    \/ Finish \/ Take \/ End \/ Drop

ChunkStreamSpec == StreamInit /\ [][StreamNext]_svars

====
