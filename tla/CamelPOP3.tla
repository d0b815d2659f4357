------------------------------ MODULE CamelPOP3 ------------------------------
(***************************************************************************)
(* The engine of the POP3 provider (camel-pop3-engine.c), with the server  *)
(* and the connection it talks over, and the files of the data cache the   *)
(* replies to RETR are written to (cmd_tocache of camel-pop3-folder.c).    *)
(*                                                                         *)
(* Messages have the numbers 1, 2, ... in the order they came to the       *)
(* maildrop, which is also the order of their places in it.  A body is one *)
(* line, named for its message, and the end of the reply; no line of a     *)
(* body looks like a reply.  Every command has the length 1.               *)
(***************************************************************************)
EXTENDS Naturals, FiniteSets, SequencesExt

CONSTANTS
  Messages,  \* how many messages come to the maildrop
  Limit,     \* CAMEL_POP3_SEND_LIMIT, in commands
  Faults     \* what else may go wrong, see the actions that ask

ASSUME PopAssumption == Messages \in Nat \ {0} /\ Limit \in Nat \ {0}

VARIABLES
  drop,       \* the messages in the maildrop on the server's disk
  marked,     \* those the session has deleted
  up,         \* the connection is up
  toServer,   \* commands on their way to the server
  wire,       \* lines on their way to the engine, those in its buffer first
  pipe,       \* CAMEL_POP3_CAP_PIPE
  sent,       \* engine->current, then engine->active
  queue,      \* engine->queue
  sentlen,
  reading,    \* how far the reply to engine->current is read: "line", "data" or "rest"
  ioerror,    \* camel_pop3_engine_iterate has returned -1
  cancelled,  \* the operation of the thread is cancelled
  cache,      \* the file of each message in the data cache
  err         \* fi->err # 0

netVars    == <<drop, marked, up, toServer, wire, pipe>>
engineVars == <<sent, queue, sentlen, reading, ioerror, cancelled>>
popVars    == <<netVars, engineVars, cache, err>>

Uids    == 1 .. Messages
Retr(u) == [op |-> "RETR", uid |-> u]
Dele(u) == [op |-> "DELE", uid |-> u]
Quit    == [op |-> "QUIT", uid |-> 0]

Line(kind, u) == [kind |-> kind, uid |-> u]

NoFile == [mark |-> "", lines |-> <<>>]

PopInit ==
  /\ drop = {} /\ marked = {} /\ up = FALSE /\ toServer = <<>> /\ wire = <<>>
  /\ pipe = FALSE
  /\ sent = <<>> /\ queue = <<>> /\ sentlen = 0
  /\ reading = "line" /\ ioerror = FALSE /\ cancelled = FALSE
  /\ cache = [u \in Uids |-> NoFile]
  /\ err = [u \in Uids |-> FALSE]

-----------------------------------------------------------------------------
(* The server and the connection (external).                               *)

\* The server answers the next command; it may refuse to send a message.  What
\* the session has deleted it forgets at QUIT, and at no other time.
ServerAnswers ==
  /\ toServer # <<>>
  /\ toServer' = Tail(toServer)
  /\ LET c == Head(toServer) IN
     CASE c.op = "RETR" ->
            /\ wire' \in {wire \o <<Line("err", c.uid)>>,
                          wire \o <<Line("ok", c.uid), Line("body", c.uid), Line("end", c.uid)>>}
            /\ c.uid \notin drop => wire' = wire \o <<Line("err", c.uid)>>
            /\ UNCHANGED <<drop, marked>>
       [] c.op = "DELE" ->
            /\ marked' = marked \cup {c.uid}
            /\ wire' = wire \o <<Line("ok", c.uid)>>
            /\ UNCHANGED drop
       [] c.op = "QUIT" ->
            /\ drop' = drop \ marked
            /\ marked' = {}
            /\ wire' = wire \o <<Line("ok", 0)>>
  /\ UNCHANGED <<up, pipe, engineVars, cache, err>>

\* Some of the lines still arrive; what the session has deleted is kept.
ConnectionLost ==
  /\ up
  /\ up' = FALSE
  /\ toServer' = <<>>
  /\ marked' = {}
  /\ \E n \in 0 .. Len(wire) : wire' = SubSeq(wire, 1, n)
  /\ UNCHANGED <<drop, pipe, engineVars, cache, err>>

-----------------------------------------------------------------------------
(* The engine.                                                             *)

\* The outcomes of a write to the server.  Nothing comes of one that is
\* accepted after the connection is lost.
WriteOutcomes == IF cancelled THEN {FALSE} ELSE IF up THEN {TRUE} ELSE BOOLEAN

\* Mutant: the length of what is sent is not counted.
WindowUncounted(s, len) == IF pipe THEN 3 * Messages ELSE IF s = <<>> THEN 1 ELSE 0

\* How many more commands may be sent now: with pipelining up to the limit, and
\* always one when none is outstanding.
Window(s, len) == IF pipe /\ len < Limit THEN Limit - len ELSE IF s = <<>> THEN 1 ELSE 0

Fitting(s, len, cs) == IF Window(s, len) < Len(cs) THEN Window(s, len) ELSE Len(cs)

\* camel_pop3_engine_command_new and engine_command_queue, of several commands
\* in a row: what cannot be sent, or not be written, is queued.
Issue(cs) ==
  \E ok \in WriteOutcomes :
    LET n == IF ok THEN Fitting(sent, sentlen, cs) ELSE 0 IN
    /\ sent' = sent \o SubSeq(cs, 1, n)
    /\ queue' = queue \o SubSeq(cs, n + 1, Len(cs))
    /\ sentlen' = sentlen + n
    /\ toServer' = IF up THEN toServer \o SubSeq(cs, 1, n) ELSE toServer

\* The label ioerror: everything outstanding fails.
FailAll ==
  /\ ioerror' = TRUE
  /\ sent' = <<>>
  /\ queue' = <<>>
  /\ reading' = "line"

\* The rest of camel_pop3_engine_iterate, once the reply is read: the next
\* command becomes current, and what is queued is sent as far as it fits.
NextCurrent ==
  LET rest == Tail(sent)
      n    == Fitting(rest, sentlen - 1, queue)
  IN
  \E ok \in IF n = 0 THEN {TRUE} ELSE WriteOutcomes :
    IF ok
    THEN /\ sent' = rest \o SubSeq(queue, 1, n)
         /\ queue' = SubSeq(queue, n + 1, Len(queue))
         /\ sentlen' = sentlen - 1 + n
         /\ toServer' = IF up THEN toServer \o SubSeq(queue, 1, n) ELSE toServer
         /\ reading' = "line"
         /\ UNCHANGED ioerror
    ELSE /\ FailAll
         /\ sentlen' = sentlen - 1
         /\ UNCHANGED toServer

\* stream_fill fails: the connection is lost and everything that arrived is
\* read, or the operation is cancelled.
FillFails == (~up /\ wire = <<>>) \/ cancelled

File(u, mark, lines) == cache' = [cache EXCEPT ![u] = [mark |-> mark, lines |-> lines]]

\* The first line of a reply.  To a RETR that is answered +OK cmd_tocache
\* begins with '*'; a write to a file, too, fails when cancelled, and may fail
\* at any time.
ReadReply ==
  LET c == Head(sent) IN
  /\ reading = "line"
  /\ wire # <<>>
  /\ wire' = Tail(wire)
  /\ IF Head(wire).kind = "ok" /\ c.op = "RETR"
     THEN /\ \/ ~cancelled /\ File(c.uid, "*", <<>>) /\ reading' = "data"
             \/ reading' = "rest" /\ UNCHANGED cache
          /\ UNCHANGED <<sent, queue, sentlen, toServer, ioerror>>
     ELSE NextCurrent /\ UNCHANGED cache
  /\ UNCHANGED <<drop, marked, up, pipe, cancelled, err>>

ReadNoReply ==
  /\ reading = "line"
  /\ FillFails
  /\ FailAll
  /\ UNCHANGED <<netVars, sentlen, cancelled, cache, err>>

\* cmd_tocache writes what it reads and, when it has read the end, '#' over the
\* '*'; then fi->err is 0.
ReadBody ==
  LET c == Head(sent) IN
  /\ reading = "data"
  /\ wire # <<>>
  /\ wire' = Tail(wire)
  /\ IF Head(wire).kind = "end"
     THEN /\ NextCurrent
          /\ \/ /\ ~cancelled
                /\ File(c.uid, "#", cache[c.uid].lines)
                /\ err' = [err EXCEPT ![c.uid] = FALSE]
             \/ UNCHANGED <<cache, err>>
     ELSE /\ \/ /\ ~cancelled
                /\ File(c.uid, "*", Append(cache[c.uid].lines, Head(wire).uid))
                /\ UNCHANGED reading
             \/ reading' = "rest" /\ UNCHANGED cache
          /\ UNCHANGED <<sent, queue, sentlen, toServer, ioerror, err>>
  /\ UNCHANGED <<drop, marked, up, pipe, cancelled>>

\* camel_pop3_stream_getd until there is no more, after cmd_tocache gave up.
ReadRest ==
  /\ reading = "rest"
  /\ wire # <<>>
  /\ wire' = Tail(wire)
  /\ IF Head(wire).kind = "end"
     THEN NextCurrent
     ELSE UNCHANGED <<sent, queue, sentlen, toServer, reading, ioerror>>
  /\ UNCHANGED <<drop, marked, up, pipe, cancelled, cache, err>>

\* Mutant: the end of the connection counts as the end of the data.
ReadNoDataMarked ==
  /\ reading \in {"data", "rest"}
  /\ FillFails
  /\ NextCurrent
  /\ File(Head(sent).uid, "#", cache[Head(sent).uid].lines)
  /\ UNCHANGED <<drop, marked, up, wire, pipe, cancelled, err>>

\* The data ends early: the command counts as answered all the same, and the
\* engine goes on to read the reply to the next.  Without the fault "shift" the
\* cancelled operation gives up in the middle of a message only when no other
\* command is sent.
ReadNoData ==
  /\ reading \in {"data", "rest"}
  /\ FillFails
  /\ Len(sent) > 1 /\ "shift" \notin Faults => ~up /\ wire = <<>>
  /\ NextCurrent
  /\ UNCHANGED <<drop, marked, up, wire, pipe, cancelled, cache, err>>

Read == sent # <<>> /\ (ReadReply \/ ReadNoReply \/ ReadBody \/ ReadRest \/ ReadNoData)

Pending(c) == Contains(sent, c) \/ Contains(queue, c)

\* camel_pop3_engine_iterate goes on: nothing has failed, something is sent,
\* and the command waited for, if there is one, is not answered.
Iterates(c) == ~ioerror /\ sent # <<>> /\ (c = Quit \/ Pending(c))
=============================================================================
