------------------------------- MODULE Export -------------------------------
(***************************************************************************)
(* The CSV exports (api/csv.go, api/runs.go): a goroutine turns the rows   *)
(* of a query into CSV and writes them into an io.Pipe, the handler copies *)
(* the pipe to the client.  The query may fail at any row and the client   *)
(* may leave at any time.                                                  *)
(*                                                                         *)
(* An item is the header (0) or one CSV line, numbered in query order.  A  *)
(* write of the CSV writer's buffer to the pipe blocks until the reader    *)
(* has taken all of it, in as many parts as it likes, or has closed.       *)
(***************************************************************************)
EXTENDS Naturals, Sequences, SequencesExt, Totals

CONSTANTS Kinds,      \* exports asked for: "session" or "run"
          MaxRows,    \* rows a query may have
          MaxLines   \* probes of a sample, each a line of a session export

ASSUME ExportAssumption ==
  Kinds \subseteq {"session", "run"} /\ MaxRows \in Nat /\ MaxLines \in Nat \ {0}

VARIABLES
  kind,      \* which export this is
  rows,      \* what the query would yield: the number of lines of each row
  pos,       \* rows yielded so far
  producer,  \* where the goroutine is
  announced, \* announce was called
  header,    \* writeHeader was called
  buffer,    \* items of the write in progress
  started,   \* the channel of capacity one
  written,   \* how the write end of the pipe was closed
  closed,    \* the read end is closed
  handler,   \* where the handler is
  client,    \* "here" or "gone"
  sent,      \* items the client was sent
  answer,    \* status line: 0 while there is none
  broken     \* history: the query failed

exportVars == <<kind, rows, pos, producer, announced, header, buffer, started, written, closed,
          handler, client, sent, answer, broken>>
prodVars == <<pos, producer, announced, header, buffer, started, written, broken>>
handVars == <<closed, handler, sent, answer>>

ExportInit ==
  /\ kind \in Kinds
  /\ rows \in SeqOf(IF kind = "session" THEN 1 .. MaxLines ELSE {1}, MaxRows)
  /\ pos = 0 /\ producer = "none" /\ announced = FALSE /\ header = FALSE /\ buffer = <<>>
  /\ started = "empty" /\ written = "open" /\ closed = FALSE /\ handler = "find"
  /\ client = "here" /\ sent = <<>> /\ answer = 0 /\ broken = FALSE
ExportIdle ==
  /\ kind = "none" /\ rows = <<>>
  /\ pos = 0 /\ producer = "none" /\ announced = FALSE /\ header = FALSE /\ buffer = <<>>
  /\ started = "empty" /\ written = "open" /\ closed = FALSE /\ handler = "done"
  /\ client = "gone" /\ sent = <<>> /\ answer = 0 /\ broken = FALSE

-----------------------------------------------------------------------------
(* The items of the file.                                                  *)

LinesBefore(n) == Total(rows, 1 .. n)
\* writeCSVEvent: a line per attempted probe.  writeRunIPRow: one line.
Lines(n) == [i \in 1 .. rows[n] |-> LinesBefore(n - 1) + i]
\* writeHeader: once.
WriteHeader == IF header THEN <<>> ELSE <<0>>
File == [i \in 1 .. LinesBefore(Len(rows)) + 1 |-> i - 1]

-----------------------------------------------------------------------------
(* The goroutine.                                                          *)

\* announce: only the first call sends.
Announce(r) ==
  /\ announced' = TRUE
  /\ started' = IF announced THEN started ELSE r

\* The visitor is called with a row: it announces success, writes and flushes.
Visit ==
  /\ producer = "query" /\ pos < Len(rows)
  /\ pos' = pos + 1
  /\ Announce("ok")
  /\ header' = TRUE
  /\ buffer' = WriteHeader \o Lines(pos + 1)
  /\ producer' = "flush"
  /\ UNCHANGED <<written, broken>>

Flushed ==
  /\ producer = "flush" /\ buffer = <<>>
  /\ producer' = "query"
  /\ UNCHANGED <<pos, announced, header, buffer, started, written, broken>>

\* The reader is closed: the write fails, and with it the visitor and the query.
FlushFails ==
  /\ producer \in {"flush", "last"} /\ buffer # <<>> /\ closed
  /\ buffer' = <<>> /\ written' = "error" /\ producer' = "done"
  /\ UNCHANGED <<pos, announced, header, started, broken>>

\* Mutant of QueryFails: after a failure the header is written all the same.
QueryFailsHeader ==
  /\ producer = "query"
  /\ broken' = TRUE /\ Announce("ok") /\ header' = TRUE
  /\ buffer' = WriteHeader /\ producer' = "last"
  /\ UNCHANGED <<pos, written>>

\* The query fails, at once or after some rows: before the first row the
\* handler is told, afterwards only the pipe is.
QueryFails ==
  /\ producer = "query"
  /\ broken' = TRUE /\ Announce("error")
  /\ written' = "error" /\ producer' = "done"
  /\ UNCHANGED <<pos, header, buffer>>

\* The query ends: an empty result still gets its header.
QueryEnds ==
  /\ producer = "query" /\ pos = Len(rows)
  /\ Announce("ok") /\ header' = TRUE
  /\ buffer' = WriteHeader /\ producer' = "last"
  /\ UNCHANGED <<pos, written, broken>>

LastFlushed ==
  /\ producer = "last" /\ buffer = <<>>
  /\ written' = "eof" /\ producer' = "done"
  /\ UNCHANGED <<pos, announced, header, buffer, started, broken>>

\* The steps that do not wait for chance: a query answers in the end.
Proceed == Visit \/ Flushed \/ FlushFails \/ QueryEnds \/ LastFlushed
StreamFails == QueryFails
\* csvStream and runCSVStream differ in the query and in the line they write.
CsvStream    == kind = "session" /\ (Proceed \/ StreamFails)
RunCsvStream == kind = "run" /\ (Proceed \/ StreamFails)
Producer == (CsvStream \/ RunCsvStream) /\ UNCHANGED <<kind, rows, handVars, client>>

-----------------------------------------------------------------------------
(* The handler.                                                            *)

\* The session or run is looked up; the goroutine is started.
Find ==
  /\ handler = "find"
  /\ \/ handler' = "wait" /\ producer' = "query" /\ UNCHANGED answer
     \/ handler' = "done" /\ answer' \in {404, 503} /\ UNCHANGED producer
  /\ UNCHANGED <<kind, rows, pos, announced, header, buffer, started, written, closed, client, sent, broken>>

\* <-started: an error closes the body and becomes a structured answer.
AwaitStart ==
  /\ handler = "wait" /\ started # "empty"
  /\ IF started = "ok" THEN handler' = "copy" /\ answer' = 200 /\ UNCHANGED closed
     ELSE handler' = "done" /\ answer' = 503 /\ closed' = TRUE
  /\ started' = "empty"
  /\ UNCHANGED <<kind, rows, pos, producer, announced, header, buffer, written, client, sent, broken>>

\* Read returns a part of the write in progress, and the client takes it.
CopyPart ==
  /\ handler = "copy" /\ buffer # <<>>
  /\ \E n \in 1 .. Len(buffer) :
       sent' = sent \o SubSeq(buffer, 1, n) /\ buffer' = SubSeq(buffer, n + 1, Len(buffer))
  /\ UNCHANGED <<kind, rows, pos, producer, announced, header, started, written, closed, handler,
                 client, answer, broken>>

\* Mutant of CopyFails: the body is left open.
CopyFailsOpen ==
  /\ handler = "copy" /\ buffer # <<>> /\ client = "gone"
  /\ \E n \in 1 .. Len(buffer) : buffer' = SubSeq(buffer, n + 1, Len(buffer))
  /\ handler' = "left"
  /\ UNCHANGED <<kind, rows, pos, producer, announced, header, started, written, closed, client, sent,
                 answer, broken>>

\* The part was read, but w.Write fails; the deferred Close runs.
CopyFails ==
  /\ handler = "copy" /\ buffer # <<>> /\ client = "gone"
  /\ \E n \in 1 .. Len(buffer) : buffer' = SubSeq(buffer, n + 1, Len(buffer))
  /\ handler' = "left" /\ closed' = TRUE
  /\ UNCHANGED <<kind, rows, pos, producer, announced, header, started, written, client, sent, answer, broken>>

\* Read returns EOF or the error the goroutine closed with.  The run export
\* then aborts the connection; the session export ends the file as it is.
CopyEnds ==
  /\ handler = "copy" /\ buffer = <<>> /\ written # "open"
  /\ handler' = IF kind = "run" /\ written = "error" THEN "aborted" ELSE "clean"
  /\ closed' = TRUE
  /\ UNCHANGED <<kind, rows, prodVars, client, sent, answer>>

\* The client, or the server's write deadline, breaks the connection.
ClientLeaves ==
  /\ client = "here" /\ client' = "gone"
  /\ UNCHANGED <<kind, rows, prodVars, handVars>>

Handler == Find \/ AwaitStart \/ CopyPart \/ CopyFails \/ CopyEnds

-----------------------------------------------------------------------------
Exporting == Producer \/ Handler \/ ClientLeaves

\* Both goroutines keep running and a query answers; that it fails, or that
\* the client leaves, is not counted on.
ExportFairness ==
  /\ WF_exportVars(Proceed /\ UNCHANGED <<kind, rows, handVars, client>>)
  /\ WF_exportVars(Handler)
-----------------------------------------------------------------------------
(* Properties.                                                             *)

\* A run export that ends cleanly is the whole pool: a failure in the middle
\* is never mistaken for a short file ("an incomplete transfer rather than a
\* valid-looking CSV").  A session export may be short only after a failure.
CleanIsComplete ==
  handler = "clean" /\ (kind = "run" \/ ~broken) => sent = File

\* A file that holds just the header means that there was nothing to export,
\* for both exports: a query that fails before its first row never becomes
\* "a valid-looking header-only CSV".
HeaderOnlyMeansEmpty ==
  handler = "clean" /\ Len(sent) <= 1 => rows = <<>> /\ ~broken

\* The exports tell the client the truth (csvStream, runCSVStream and the
\* Visit functions): a file that looks complete is complete, one that looks
\* empty is empty, what was sent is at any time a beginning of the file, under
\* a 200, and a query that failed before its first row is answered with a 503.
ExportTruthful ==
  kind \in Kinds =>
    /\ CleanIsComplete /\ HeaderOnlyMeansEmpty
    /\ IsPrefix(sent, File) /\ (sent # <<>> => answer = 200)
    /\ handler \in {"done", "copy", "clean", "aborted", "left"} /\ broken /\ pos = 0 => answer = 503

\* The goroutine and the handler both end, whoever fails or leaves first: no
\* goroutine stays blocked on a pipe nobody reads.
ExportEnds ==
  <>(producer \in {"none", "done"} /\ handler \in {"clean", "aborted", "left", "done"})
=============================================================================
