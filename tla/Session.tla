------------------------------- MODULE Session -------------------------------
(***************************************************************************)
(* One HTTP session of main.cpp: a socket, its read buffer, the llhttp     *)
(* parser and the fields of the request being read.  The threads that run  *)
(* the io_context execute its completion handlers; a request that is       *)
(* complete is answered by a thread of the business pool, which reads the  *)
(* fields and posts the write back to the io_context.                      *)
(*                                                                         *)
(* The session has neither a strand nor a mutex: what keeps two threads    *)
(* off it is that it reads only while it owes no answer.  That fails when  *)
(* an answer is written, and the parser reset, before the handler that     *)
(* read the request has tested message_complete: `overtaken' remembers it. *)
(*                                                                         *)
(* The client waits for its answer before it sends again.  A request       *)
(* arrives as one piece or two; a read takes what has arrived.  `fields'   *)
(* says whose request they describe: what a cut does to their contents is  *)
(* the subject of Request.                                                 *)
(* An upgrade request behaves as a good one: the parser stops, and reading *)
(* goes on after the answer.  The bytes of an answer are assumed to be     *)
(* taken from the caller when the write starts (do_write's string dies     *)
(* with the call).                                                         *)
(***************************************************************************)
EXTENDS Integers, Sequences, FiniteSets

CONSTANTS
  IOThread,     \* the threads in io_context.run()
  MaxRequests   \* bound on the requests of the client

ASSUME SessionAssumption ==
  /\ IsFiniteSet(IOThread)
  /\ MaxRequests \in Nat

VARIABLES
  kind,      \* what each request of the client is
  sent,      \* requests the client has sent
  wire,      \* pieces on their way to the server
  eof,       \* the client has closed or reset the connection
  received,  \* answers the client has, each the request whose fields it used
  reads,     \* async_read_some calls outstanding
  io,        \* each io thread: where in a handler, and the pieces it parses
  parsing,   \* the request the parser is in the middle of, or 0
  fields,    \* the request that req_url, query_params... describe, or 0
  complete,  \* message_complete
  jobs,      \* process_request tasks in the business pool
  posted,    \* do_write tasks in the io_context
  writing,   \* async_write operations outstanding
  closed,    \* the socket is closed
  overtaken  \* history: the parser was reset under a handler still running

client  == <<kind, sent, eof>>
others  == <<closed, overtaken>>
request == <<parsing, fields, complete>>
answers == <<jobs, posted, writing>>
vars    == <<kind, sent, wire, eof, received, reads, io, parsing, fields,
             complete, jobs, posted, writing, closed, overtaken>>

-----------------------------------------------------------------------------
Request == 1..MaxRequests

\* A good request is answered, with 500 when its handler throws; a silent one
\* (/favicon.ico, /robots.txt) has an empty answer; the parser refuses a
\* malformed one.
Kind == {"good", "silent", "malformed"}

Piece == [req : Request, begin : BOOLEAN, end : BOOLEAN]
Cuts(r) ==
  { <<[req |-> r, begin |-> TRUE, end |-> TRUE]>>,
    <<[req |-> r, begin |-> TRUE, end |-> FALSE],
      [req |-> r, begin |-> FALSE, end |-> TRUE]>> }

\* An answer posted for the request req, built from the fields of used.
Answer == [req : Request, used : Request \cup {0}]

Resting  == [pc |-> "idle", pieces |-> <<>>]
At(l)    == [pc |-> l, pieces |-> <<>>]
Busy     == {t \in IOThread : io[t].pc # "idle"}

\* The last reference to the session is a handler, a task or an operation.
Gone == reads = 0 /\ Busy = {} /\ jobs = {} /\ posted = {} /\ writing = {}

-----------------------------------------------------------------------------
(* The client.                                                             *)
Send ==
  /\ ~eof /\ sent < MaxRequests
  /\ Len(received) = sent
  /\ sent' = sent + 1
  /\ \E p \in Cuts(sent + 1) : wire' = wire \o p
  /\ UNCHANGED <<kind, eof, received, reads, io, request, answers, others>>

Disconnect ==
  /\ ~eof
  /\ eof' = TRUE
  /\ UNCHANGED <<kind, sent, wire, received, reads, io, request, answers,
                 others>>

-----------------------------------------------------------------------------
(* do_read: the handler of async_read_some.                                *)

\* fault: async_read, which completes only when the buffer is full
WholeBuffer == Len(wire) > 2

Readable == wire # <<>>

ReadReady(t) ==
  /\ io[t].pc = "idle" /\ reads > 0
  /\ Readable /\ ~closed
  /\ \E n \in 1..Len(wire) :
       /\ io' = [io EXCEPT ![t] = [pc |-> "parse", pieces |-> SubSeq(wire, 1, n)]]
       /\ wire' = SubSeq(wire, n + 1, Len(wire))
  /\ reads' = reads - 1
  /\ UNCHANGED <<client, received, request, answers, others>>

ReadFails(t) ==
  /\ io[t].pc = "idle" /\ reads > 0
  /\ eof \/ closed
  /\ reads' = reads - 1
  /\ UNCHANGED <<client, wire, received, io, request, answers, others>>

\* llhttp refuses a malformed request and a piece that continues nothing.
Refused(p) == kind[p.req] = "malformed" \/ (~p.begin /\ parsing # p.req)

ParseError(t) ==
  /\ io[t].pc = "parse"
  /\ Refused(Head(io[t].pieces))
  /\ io' = [io EXCEPT ![t] = Resting]
  /\ UNCHANGED <<client, wire, received, reads, request, answers, others>>

\* on_message_complete posts process_request to the business pool.

\* fault: posted for every callback of the parser
PostForEveryPiece(p) == jobs \cup {p.req}

Tasks(p) == IF p.end THEN jobs \cup {p.req} ELSE jobs

AfterPiece(rest) ==
  IF rest = <<>> THEN At("test") ELSE [pc |-> "parse", pieces |-> rest]

Parse(t) ==
  /\ io[t].pc = "parse"
  /\ LET p == Head(io[t].pieces)
     IN /\ ~Refused(p)
        /\ fields' = IF p.begin THEN p.req ELSE fields
        /\ parsing' = IF p.end THEN 0 ELSE p.req
        /\ complete' = (complete \/ p.end)
        /\ jobs' = Tasks(p)
        /\ io' = [io EXCEPT ![t] = AfterPiece(Tail(io[t].pieces))]
  /\ UNCHANGED <<client, wire, received, reads, posted, writing, others>>

\* fault: reads on whether or not a request is complete
AlwaysRead == TRUE

\* fault: does not read the rest of a request
ReadBetween == ~complete /\ parsing = 0

MayRead == ~complete

\* The test of message_complete that ends the handler.
Test(t) ==
  /\ io[t].pc = "test"
  /\ io' = [io EXCEPT ![t] = IF MayRead THEN At("read") ELSE Resting]
  /\ UNCHANGED <<client, wire, received, reads, request, answers, others>>

StartRead(t) ==
  /\ io[t].pc = "read"
  /\ io' = [io EXCEPT ![t] = Resting]
  /\ reads' = reads + 1
  /\ UNCHANGED <<client, wire, received, request, answers, others>>

-----------------------------------------------------------------------------
(* process_request in the business pool; an empty answer is not posted.    *)
Silent == fields # 0 /\ kind[fields] = "silent"

Build(r) ==
  /\ r \in jobs
  /\ jobs' = jobs \ {r}
  /\ posted' = IF Silent THEN posted
                         ELSE posted \cup {[req |-> r, used |-> fields]}
  /\ UNCHANGED <<client, wire, received, reads, io, request, writing, others>>

(* do_write.                                                               *)
StartWrite(t, a) ==
  /\ io[t].pc = "idle" /\ a \in posted
  /\ posted' = posted \ {a}
  /\ writing' = writing \cup {a}
  /\ UNCHANGED <<client, wire, received, reads, io, request, jobs, others>>

WriteOk(t, a) ==
  /\ io[t].pc = "idle" /\ a \in writing
  /\ ~closed
  /\ writing' = writing \ {a}
  /\ received' = Append(received, a.used)
  /\ io' = [io EXCEPT ![t] = At("reset")]
  /\ UNCHANGED <<client, wire, reads, request, jobs, posted, others>>

WriteFails(t, a) ==
  /\ io[t].pc = "idle" /\ a \in writing
  /\ eof \/ closed
  /\ writing' = writing \ {a}
  /\ closed' = TRUE
  /\ UNCHANGED <<client, wire, received, reads, io, request, jobs, posted,
                 overtaken>>

\* reset_parser, then do_read.
ResetParser(t) ==
  /\ io[t].pc = "reset"
  /\ parsing' = 0 /\ fields' = 0
  /\ complete' = FALSE
  /\ overtaken' = (overtaken \/ \E u \in IOThread \ {t} : io[u].pc = "test")
  /\ io' = [io EXCEPT ![t] = At("read")]
  /\ UNCHANGED <<client, wire, received, reads, answers, closed>>

-----------------------------------------------------------------------------
\* The accepted socket, after start().
Init ==
  /\ kind \in [Request -> Kind]
  /\ sent = 0 /\ wire = <<>> /\ eof = FALSE /\ received = <<>>
  /\ reads = 1
  /\ io = [t \in IOThread |-> Resting]
  /\ parsing = 0 /\ fields = 0 /\ complete = FALSE
  /\ jobs = {} /\ posted = {} /\ writing = {}
  /\ closed = FALSE /\ overtaken = FALSE

Handler(t) ==
  \/ ReadReady(t) \/ ReadFails(t)
  \/ ParseError(t) \/ Parse(t) \/ Test(t) \/ StartRead(t)
  \/ \E a \in posted : StartWrite(t, a)
  \/ \E a \in writing : WriteOk(t, a) \/ WriteFails(t, a)
  \/ ResetParser(t)

Business == \E r \in jobs : Build(r)

Next == Send \/ Disconnect \/ Business \/ \E t \in IOThread : Handler(t)

Spec == Init /\ [][Next]_vars

\* The io threads run handlers that are ready and the business pool its tasks.
Server == Business \/ \E t \in IOThread : Handler(t)
FairSpec == Spec /\ WF_vars(Server)

-----------------------------------------------------------------------------
TypeOK ==
  /\ kind \in [Request -> Kind]
  /\ sent \in 0..MaxRequests
  /\ wire \in Seq(Piece)
  /\ received \in Seq(Request \cup {0})
  /\ reads \in Nat
  /\ io \in [IOThread -> [pc : {"idle", "parse", "test", "read", "reset"},
                          pieces : Seq(Piece)]]
  /\ \A t \in IOThread : io[t].pc = "parse" <=> io[t].pieces # <<>>
  /\ parsing \in Request \cup {0} /\ fields \in Request \cup {0}
  /\ jobs \subseteq Request
  /\ posted \subseteq Answer /\ writing \subseteq Answer
  /\ {eof, complete, closed, overtaken} \subseteq BOOLEAN

(* Without a strand the session is safe because at most one thread or      *)
(* operation has its buffer, parser and socket: a read is outstanding, or  *)
(* a handler runs, or an answer is under way, beside at most one handler   *)
(* that is returning from the request and will not read.  It stays so      *)
(* until a reset overtakes that handler's test (main.cpp:592).             *)
Returning(t) == io[t].pc = "test" /\ complete
HalfDuplex ==
  overtaken \/
    LET owed == Cardinality(jobs) + Cardinality(posted) + Cardinality(writing)
        user == {t \in Busy : ~Returning(t)}
    IN owed + Cardinality(user) + reads <= 1

(* Requests sent one at a time are answered in order, each from its own    *)
(* fields: on_message_complete posts exactly once for a request, and no    *)
(* reset or later request comes between it and build_response.  Two reads  *)
(* at once would be needed to break it, so this too holds until a reset    *)
(* overtakes a handler.                                                    *)
AnswersMatch == overtaken \/ \A i \in 1..Len(received) : received[i] = i

(* The server drops a connection only when the client closed it or sent a  *)
(* request that is malformed or has no answer: on every other path one of  *)
(* the handlers reads again.                                               *)
DroppedForCause ==
  Gone => eof \/ overtaken \/ \E r \in 1..sent : kind[r] # "good"

(* A good request that follows good ones is answered, unless the client    *)
(* goes away or a reset overtakes a handler: no piece of it is lost        *)
(* between a read and the next, and no read is left out.                   *)
Answered ==
  \A r \in Request :
    (sent = r /\ \A q \in 1..r : kind[q] = "good")
      ~> (Len(received) >= r \/ eof \/ overtaken)
=============================================================================
