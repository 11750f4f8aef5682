------------------------------- MODULE LogRing -------------------------------
(***************************************************************************)
(* The log of log-system.h: a ring of entries between the threads that     *)
(* call logger, warn, error... and the thread that prints, with atomic     *)
(* indexes and no lock, and log_stop, which main calls.                    *)
(*                                                                         *)
(* An index is loaded and stored in one step, and an entry is copied field *)
(* by field.  Every thread of the server pushes, and nothing keeps two     *)
(* pushes apart: `serial' holds until a push begins inside another.  What  *)
(* the race on the entry then leaves in it is modelled field by field      *)
(* only, and nothing is claimed of it.                                     *)
(***************************************************************************)
EXTENDS Naturals, Sequences

CONSTANTS
  Producer,  \* the threads that log
  RingSize,  \* RING_SIZE
  MaxPush,   \* bound on the calls of each thread
  Blank      \* what a field holds before the first message

ASSUME LogRingAssumption ==
  /\ RingSize \in Nat /\ RingSize >= 2
  /\ MaxPush \in Nat
  /\ Blank \notin Producer \X (1..MaxPush)

VARIABLES
  head,     \* ring_head
  tail,     \* ring_tail
  slot,     \* ring_buffer
  pc,       \* each producer: where in try_push
  at,       \* each producer: the head it has loaded
  made,     \* each producer: how many messages it has logged
  wpc,      \* the writer: where in log_writer
  entry,    \* the writer: its copy of an entry
  stop,     \* log_stop: "no", "asked" (log_running is false) or "returned"
  printed,  \* history: what the writer has printed
  lost,     \* history: messages that try_push refused
  serial,   \* history: no push has begun inside another
  owed      \* history: messages in the ring when log_stop was called

producers == <<pc, at, made>>
ring      == <<head, tail, slot>>
history   == <<lost, serial, owed>>
vars      == <<head, tail, slot, pc, at, made, wpc, entry, stop, printed, lost,
               serial, owed>>

-----------------------------------------------------------------------------
Message == Producer \X (1..MaxPush)
Index   == 0..(RingSize - 1)
Entry   == [text : Message \cup {Blank}, level : Message \cup {Blank}]

Mine(p) == <<p, made[p]>>

WithText(e, m)  == [text |-> m, level |-> e.level]
WithLevel(e, m) == [text |-> e.text, level |-> m]

\* (i + 1) & (RING_SIZE - 1)
Succ(i) == IF i + 1 = RingSize THEN 0 ELSE i + 1

\* Entries from i up to j, and the index k entries after i.
Span(i, j) == IF i <= j THEN j - i ELSE RingSize - i + j
Fwd(i, k)  == IF i + k < RingSize THEN i + k ELSE i + k - RingSize

Waiting == [k \in 1..Span(tail, head) |-> slot[Fwd(tail, k - 1)].text]
InRing  == {Waiting[k] : k \in 1..Span(tail, head)}

-----------------------------------------------------------------------------
(* try_push.                                                               *)
Pushing == {p \in Producer : pc[p] # "idle"}

LoadHead(p) ==
  /\ pc[p] = "idle" /\ made[p] < MaxPush
  /\ made' = [made EXCEPT ![p] = @ + 1]
  /\ at' = [at EXCEPT ![p] = head]
  /\ pc' = [pc EXCEPT ![p] = "full?"]
  /\ serial' = (serial /\ Pushing = {})
  /\ UNCHANGED <<ring, wpc, entry, stop, printed, lost, owed>>

FullAtTail(h) == h = tail   \* fault: head where next is meant
Full(h) == Succ(h) = tail

TestFull(p) ==
  /\ pc[p] = "full?"
  /\ \/ ~Full(at[p]) /\ pc' = [pc EXCEPT ![p] = "text"] /\ UNCHANGED lost
     \/ Full(at[p]) /\ pc' = [pc EXCEPT ![p] = "idle"] /\ lost' = lost \cup {Mine(p)}
  /\ UNCHANGED <<ring, at, made, wpc, entry, stop, printed, serial, owed>>

CopyText(p) ==
  /\ pc[p] = "text"
  /\ slot' = [slot EXCEPT ![at[p]] = WithText(@, Mine(p))]
  /\ pc' = [pc EXCEPT ![p] = "level"]
  /\ UNCHANGED <<head, tail, at, made, wpc, entry, stop, printed, history>>

CopyLevel(p) ==
  /\ pc[p] = "level"
  /\ slot' = [slot EXCEPT ![at[p]] = WithLevel(@, Mine(p))]
  /\ pc' = [pc EXCEPT ![p] = "publish"]
  /\ UNCHANGED <<head, tail, at, made, wpc, entry, stop, printed, history>>

Publish(p) ==
  /\ pc[p] = "publish"
  /\ head' = Succ(at[p])
  /\ pc' = [pc EXCEPT ![p] = "idle"]
  /\ UNCHANGED <<tail, slot, at, made, wpc, entry, stop, printed, history>>

-----------------------------------------------------------------------------
(* log_writer: it looks at log_running before each round, a round empties  *)
(* the ring, and the last round follows the flag.                          *)
Running == stop = "no"

\* fault: the writer returns when the flag is cleared
EndAtOnce == "ended"
RoundAgain == "round"  \* fault: the flag is not looked at when the ring is empty
LastRound == "last"

TestRunning ==
  /\ wpc = "running?"
  /\ wpc' = IF Running THEN "round" ELSE LastRound
  /\ UNCHANGED <<ring, producers, entry, stop, printed, history>>


Empty == tail = head

FindEmpty ==
  /\ wpc \in {"round", "last"}
  /\ Empty
  /\ wpc' = IF wpc = "round" THEN "running?" ELSE "ended"
  /\ UNCHANGED <<ring, producers, entry, stop, printed, history>>

FindEntry ==
  /\ wpc \in {"round", "last"}
  /\ ~Empty
  /\ entry' = WithText(entry, slot[tail].text)
  /\ wpc' = IF wpc = "round" THEN "level" ELSE "last level"
  /\ UNCHANGED <<ring, producers, stop, printed, history>>

TakeLevel ==
  /\ wpc \in {"level", "last level"}
  /\ entry' = WithLevel(entry, slot[tail].level)
  /\ wpc' = IF wpc = "level" THEN "free" ELSE "last free"
  /\ UNCHANGED <<ring, producers, stop, printed, history>>

\* The store of ring_tail, and the line that is printed from the copy; the
\* last round prints every line as "LOG".
Line == IF wpc = "free" THEN entry ELSE WithLevel(entry, Blank)

Free ==
  /\ wpc \in {"free", "last free"}
  /\ tail' = Succ(tail)
  /\ printed' = Append(printed, Line)
  /\ wpc' = IF wpc = "free" THEN "round" ELSE "last"
  /\ UNCHANGED <<head, slot, producers, entry, stop, history>>

-----------------------------------------------------------------------------
(* log_stop: the store of log_running, and the join of the writer.         *)
StopAsked ==
  /\ stop = "no"
  /\ stop' = "asked"
  /\ owed' = InRing
  /\ UNCHANGED <<ring, producers, wpc, entry, printed, lost, serial>>

StopReturns ==
  /\ stop = "asked"
  /\ wpc = "ended"
  /\ stop' = "returned"
  /\ UNCHANGED <<ring, producers, wpc, entry, printed, history>>

-----------------------------------------------------------------------------
\* log_start has made the writer.
Init ==
  /\ head = 0 /\ tail = 0
  /\ slot = [i \in Index |-> [text |-> Blank, level |-> Blank]]
  /\ pc = [p \in Producer |-> "idle"]
  /\ at = [p \in Producer |-> 0]
  /\ made = [p \in Producer |-> 0]
  /\ wpc = "running?"
  /\ entry = [text |-> Blank, level |-> Blank]
  /\ stop = "no"
  /\ printed = <<>> /\ lost = {} /\ serial = TRUE /\ owed = {}

Push(p) == LoadHead(p) \/ TestFull(p) \/ CopyText(p) \/ CopyLevel(p) \/ Publish(p)

Writer == TestRunning \/ FindEmpty \/ FindEntry \/ TakeLevel \/ Free

Next == Writer \/ StopAsked \/ StopReturns \/ \E p \in Producer : Push(p)

Spec == Init /\ [][Next]_vars

\* The writer is a thread, and main is in the join.
FairSpec == Spec /\ WF_vars(Writer) /\ WF_vars(StopReturns)

-----------------------------------------------------------------------------
ControlOK ==
  /\ head \in Index /\ tail \in Index
  /\ pc \in [Producer -> {"idle", "full?", "text", "level", "publish"}]
  /\ at \in [Producer -> Index]
  /\ wpc \in {"running?", "round", "level", "free", "last", "last level",
              "last free", "ended"}
  /\ stop \in {"no", "asked", "returned"}
  /\ serial \in BOOLEAN

TypeOK ==
  /\ ControlOK
  /\ made \in [Producer -> 0..MaxPush]
  /\ slot \in [Index -> Entry] /\ entry \in Entry
  /\ printed \in Seq(Entry)
  /\ lost \subseteq Message /\ owed \subseteq Message \cup {Blank}

Queue == INSTANCE LogQueue WITH
           queue <- Waiting, closing <- (stop # "no"),
           Room <- RingSize - 1, Plain <- Blank

(* While no two pushes overlap, the ring is a queue of RING_SIZE - 1       *)
(* messages: none is lost but to a full ring, none is printed twice, torn  *)
(* or out of order, however the writer's steps fall between those of       *)
(* try_push (log-system.h:46-70).                                          *)
ImplementsQueue == Queue!Spec

(* What had been logged when log_stop was called has been printed when it  *)
(* returns: the writer goes round once more after it has seen the flag     *)
(* (log-system.h:104), whatever it was doing when the flag was cleared.    *)
DrainedAtStop ==
  serial /\ stop = "returned" =>
    \A m \in owed : \E i \in 1..Len(printed) : printed[i].text = m

(* log_stop returns, also when overlapping pushes have moved ring_head     *)
(* back behind ring_tail: the writer reaches it again after printing what  *)
(* the ring held before.                                                   *)
LogStopReturns == (stop = "asked") ~> (stop = "returned")
=============================================================================
