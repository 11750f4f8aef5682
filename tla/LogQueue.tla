------------------------------- MODULE LogQueue -------------------------------
(***************************************************************************)
(* What the log promises its callers while their calls do not overlap: a   *)
(* queue of Room messages that loses one only when it is full, and whose   *)
(* messages are printed once, whole and in the order of the calls, each    *)
(* with its level unless the log is being closed.                          *)
(***************************************************************************)
EXTENDS Naturals, Sequences

CONSTANTS Message, Room, Plain

VARIABLES
  queue,    \* the messages that wait to be printed
  printed,  \* what has been printed: a text, and its level or Plain
  lost,     \* messages that found the queue full
  closing,  \* the log is being closed
  serial    \* no two calls have overlapped

qvars == <<queue, printed, lost, closing, serial>>

Init ==
  /\ queue = <<>> /\ printed = <<>> /\ lost = {}
  /\ closing = FALSE /\ serial = TRUE

Push(m) ==
  /\ Len(queue) < Room
  /\ queue' = Append(queue, m)
  /\ UNCHANGED <<printed, lost, closing, serial>>

Lose(m) ==
  /\ Len(queue) = Room
  /\ lost' = lost \cup {m}
  /\ UNCHANGED <<queue, printed, closing, serial>>

Emit ==
  /\ queue # <<>>
  /\ \E l \in {Head(queue), Plain} :
       /\ l = Plain => closing
       /\ printed' = Append(printed, [text |-> Head(queue), level |-> l])
  /\ queue' = Tail(queue)
  /\ UNCHANGED <<lost, closing, serial>>

Close == closing' = TRUE /\ UNCHANGED <<queue, printed, lost, serial>>

\* Two calls overlap: nothing is promised from then on.
Overlap == ~serial'

Next ==
  \/ Emit \/ Close \/ Overlap
  \/ \E m \in Message : Push(m) \/ Lose(m)

Spec == Init /\ [][Next]_qvars
=============================================================================
