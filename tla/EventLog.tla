------------------------------ MODULE EventLog ------------------------------
(***************************************************************************)
(* event_log of crates/telio-lana/src/event_log_file.rs, the libmoose mock *)
(* every mocked moose function calls: it checks whether events-moose.log   *)
(* exists, opens it for appending if it does and creates (truncates) it    *)
(* if it does not, formats one line, and hands it to a single              *)
(* File::write, whose Err becomes Ok(0).                                   *)
(*                                                                         *)
(* Writers are threads calling moose functions.  One call is three steps,  *)
(* separated where another thread can change the file: the exists() check, *)
(* the open, and the write.  A line is LEN bytes; byte i of the line of    *)
(* call c of writer w is <<w, c, i>> (the time stamp, function name and    *)
(* arguments only make the line's content).  The two format calls use a    *)
(* constant, valid format description and do not fail.                     *)
(***************************************************************************)
EXTENDS Naturals, Sequences, SequencesExt

CONSTANTS
  Writers,     \* threads calling event_log
  MAX_CALLS,   \* calls each writer makes
  LEN,         \* bytes of a line
  SHORT        \* File::write may write fewer bytes than asked, or fail

VARIABLES
  exists,      \* Path::new(LOGFILE_PATH).exists()
  file,        \* the file's bytes
  pc,          \* pc[w]: "idle", "append", "create" or "write"
  fd,          \* fd[w]: the file of w's call is open in append mode
  calls,       \* calls[w]: calls of w that returned
  written,     \* history: the bytes each returned call reported, in order
  failed       \* history: the calls <<w, c>> whose moose function returned Err

vars == <<exists, file, pc, fd, calls, written, failed>>

Line(w, c) == [i \in 1..LEN |-> <<w, c, i>>]

Init ==
  /\ exists = FALSE
  /\ file = <<>>
  /\ pc = [w \in Writers |-> "idle"]
  /\ fd = [w \in Writers |-> FALSE]
  /\ calls = [w \in Writers |-> 0]
  /\ written = <<>>
  /\ failed = {}

\* if std::path::Path::new(&LOGFILE_PATH).exists()
CheckExists(w) ==
  /\ pc[w] = "idle" /\ calls[w] < MAX_CALLS
  /\ pc' = [pc EXCEPT ![w] = IF exists THEN "append" ELSE "create"]
  /\ UNCHANGED <<exists, file, fd, calls, written, failed>>

\* The mocked moose function returns: every one of them (init,
\* moose_deinit, set_context_*, send_serviceQuality_node_heartbeat,
\* fetch_context, fetch_specific_context) maps event_log's Ok(_) to
\* success and anything else to Err(EventLogError).
Return(w, ok) ==
  /\ pc' = [pc EXCEPT ![w] = "idle"]
  /\ calls' = [calls EXCEPT ![w] = @ + 1]
  /\ failed' = IF ok THEN failed ELSE failed \cup {<<w, calls[w] + 1>>}

\* event_log returns Err(EventLogError): nothing written.
Fail(w) ==
  /\ Return(w, FALSE)
  /\ UNCHANGED <<exists, file, fd, written>>

\* Mutant: OpenOptions::new().write(true) without .append(true).
OpenAppendNoAppend(w) ==
  /\ pc[w] = "append"
  /\ \/ /\ pc' = [pc EXCEPT ![w] = "write"]
        /\ fd' = [fd EXCEPT ![w] = FALSE]
        /\ UNCHANGED <<exists, file, calls, written, failed>>
     \/ Fail(w)

\* OpenOptions::new().write(true).append(true).open(LOGFILE_PATH): the
\* file is not created, so the open fails if it is gone; it may also fail
\* for any other reason.
OpenAppend(w) ==
  /\ pc[w] = "append"
  /\ \/ /\ exists
        /\ pc' = [pc EXCEPT ![w] = "write"]
        /\ fd' = [fd EXCEPT ![w] = TRUE]
        /\ UNCHANGED <<exists, file, calls, written, failed>>
     \/ Fail(w)

\* File::create(LOGFILE_PATH): creates the file or truncates it, opened
\* for writing at offset 0.
Create(w) ==
  /\ pc[w] = "create"
  /\ \/ /\ exists' = TRUE /\ file' = <<>>
        /\ pc' = [pc EXCEPT ![w] = "write"]
        /\ fd' = [fd EXCEPT ![w] = FALSE]
        /\ UNCHANGED <<calls, written, failed>>
     \/ Fail(w)

\* The bytes of file after writing data at offset pos.
WriteAt(f, pos, data) ==
  SubSeq(f, 1, pos) \o data \o SubSeq(f, pos + Len(data) + 1, Len(f))

\* Mutant: f.write_all(..).map_err(|_| EventLogError): a write cut short
\* fails the call after its first bytes reached the file.
WriteAllErr(w) ==
  /\ pc[w] = "write"
  /\ \E n \in IF SHORT THEN 0..LEN ELSE {LEN} :
       LET data == SubSeq(Line(w, calls[w] + 1), 1, n)
           pos  == IF fd[w] THEN Len(file) ELSE 0
       IN /\ file' = WriteAt(file, pos, data)
          /\ written' = Append(written, data)
          /\ Return(w, n = LEN)
  /\ UNCHANGED <<exists, fd>>

\* Ok(f.write(buffer.as_bytes()).unwrap_or(0)): one write of the line,
\* which may be short, or fail and report 0.  An append-mode write goes to
\* the end of the file; a write through the descriptor File::create opened
\* goes to its offset, 0.
Write(w) ==
  /\ pc[w] = "write"
  /\ \E n \in IF SHORT THEN 0..LEN ELSE {LEN} :
       LET data == SubSeq(Line(w, calls[w] + 1), 1, n)
           pos  == IF fd[w] THEN Len(file) ELSE 0
       IN /\ file' = WriteAt(file, pos, data)
          /\ written' = Append(written, data)
  /\ Return(w, TRUE)
  /\ UNCHANGED <<exists, fd>>

Next ==
  \E w \in Writers :
    \/ CheckExists(w) \/ OpenAppend(w) \/ Create(w) \/ Write(w)

Spec == Init /\ [][Next]_vars

(***************************************************************************)
(* Properties                                                              *)
(***************************************************************************)
\* With one caller the log is a journal: the file holds the bytes of every
\* event_log call in the order the calls returned, as many as each call
\* reported (a short write is followed by the next line, not overwritten).
LogIsCallOrder == file = FlattenSeq(written)

\* A moose function that reports Err(EventLogError) has left no byte of
\* its line in the log, so a caller that retries it does not log the event
\* twice: event_log fails only before anything is written, and a write
\* that fails or is cut short is still a success (unwrap_or(0)).
ErrorLeavesNoTrace ==
  \A f \in failed : \A i \in 1..Len(file) : <<file[i][1], file[i][2]>> # f
=============================================================================
