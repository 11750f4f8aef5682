--------------------------- MODULE SessionProofs ---------------------------
(***************************************************************************)
(* Proofs about Session, for any set of io threads and any number of       *)
(* requests.                                                               *)
(***************************************************************************)
EXTENDS Session, FiniteSetTheorems, SequenceTheorems, TLAPS

-----------------------------------------------------------------------------
(* Types.                                                                  *)
LEMMA InitTypeOK == Init => TypeOK
<1> SUFFICES ASSUME Init PROVE TypeOK
  OBVIOUS
<1>1. sent \in 0..MaxRequests
  BY SessionAssumption DEF Init
<1>2. <<>> \in Seq(Piece) /\ <<>> \in Seq(Request \cup {0})
  OBVIOUS
<1>3. /\ io \in [IOThread -> [pc : {"idle", "parse", "test", "read", "reset"},
                             pieces : Seq(Piece)]]
      /\ \A t \in IOThread : io[t].pc = "parse" <=> io[t].pieces # <<>>
  BY <1>2 DEF Init, Resting
<1>4. {eof, complete, closed, overtaken} \subseteq BOOLEAN
  BY DEF Init
<1> QED BY <1>1, <1>2, <1>3, <1>4 DEF Init, TypeOK

LEMMA SplitType ==
  ASSUME NEW s \in Seq(Piece), NEW n \in 1..Len(s)
  PROVE  /\ SubSeq(s, 1, n) \in Seq(Piece) /\ SubSeq(s, 1, n) # <<>>
         /\ SubSeq(s, n + 1, Len(s)) \in Seq(Piece)
OBVIOUS

LEMMA TailType ==
  ASSUME NEW s \in Seq(Piece), s # <<>>
  PROVE  /\ Head(s) \in Piece /\ Tail(s) \in Seq(Piece)
OBVIOUS

LEMMA PiecesType ==
  ASSUME NEW S, NEW a \in S, NEW b \in S
  PROVE  <<a>> \in Seq(S) /\ <<a, b>> \in Seq(S)
<1>1. <<a>> \in Seq(S)
  OBVIOUS
<1>2. <<a, b>> \in Seq(S)
  OBVIOUS
<1> QED BY <1>1, <1>2

LEMMA CutType ==
  ASSUME NEW r \in Request, NEW p \in Cuts(r)
  PROVE  p \in Seq(Piece)
<1> DEFINE whole == [req |-> r, begin |-> TRUE, end |-> TRUE]
           first == [req |-> r, begin |-> TRUE, end |-> FALSE]
           last  == [req |-> r, begin |-> FALSE, end |-> TRUE]
<1>1. whole \in Piece /\ first \in Piece /\ last \in Piece
  BY DEF Piece
<1>2. p = <<whole>> \/ p = <<first, last>>
  BY DEF Cuts
<1> HIDE DEF whole, first, last
<1> QED BY <1>1, <1>2, PiecesType

\* A handler that is not parsing holds no pieces.
LEMMA MoveType ==
  ASSUME TypeOK, NEW t \in IOThread, NEW l \in {"idle", "test", "read", "reset"},
         io' = [io EXCEPT ![t] = [pc |-> l, pieces |-> <<>>]]
  PROVE  /\ io' \in [IOThread -> [pc : {"idle", "parse", "test", "read", "reset"},
                                  pieces : Seq(Piece)]]
         /\ \A u \in IOThread : io'[u].pc = "parse" <=> io'[u].pieces # <<>>
<1> DEFINE n == [pc |-> l, pieces |-> <<>>]
<1>1. /\ n \in [pc : {"idle", "parse", "test", "read", "reset"}, pieces : Seq(Piece)]
      /\ n.pc # "parse" /\ n.pieces = <<>>
  OBVIOUS
<1> HIDE DEF n
<1>2. io' = [io EXCEPT ![t] = n]
  BY DEF n
<1> QED BY <1>1, <1>2 DEF TypeOK

LEMMA ParsingType ==
  ASSUME TypeOK, NEW t \in IOThread, NEW s \in Seq(Piece), s # <<>>,
         io' = [io EXCEPT ![t] = [pc |-> "parse", pieces |-> s]]
  PROVE  /\ io' \in [IOThread -> [pc : {"idle", "parse", "test", "read", "reset"},
                                  pieces : Seq(Piece)]]
         /\ \A u \in IOThread : io'[u].pc = "parse" <=> io'[u].pieces # <<>>
<1> DEFINE n == [pc |-> "parse", pieces |-> s]
<1>1. /\ n \in [pc : {"idle", "parse", "test", "read", "reset"}, pieces : Seq(Piece)]
      /\ n.pc = "parse" /\ n.pieces # <<>>
  OBVIOUS
<1> HIDE DEF n
<1>2. io' = [io EXCEPT ![t] = n]
  BY DEF n
<1> QED BY <1>1, <1>2 DEF TypeOK

LEMMA ClientTypeOK == ASSUME TypeOK, Send \/ Disconnect PROVE TypeOK'
<1>1. CASE Send
  <2>1. sent + 1 \in Request /\ sent + 1 \in 0..MaxRequests
    BY <1>1, SessionAssumption DEF Send, TypeOK, Request
  <2>2. wire' \in Seq(Piece)
    <3>1. PICK p \in Cuts(sent + 1) : wire' = wire \o p
      BY <1>1 DEF Send
    <3>2. p \in Seq(Piece)
      BY <2>1, <3>1, CutType
    <3> QED BY <3>1, <3>2 DEF TypeOK
  <2> QED BY <1>1, <2>1, <2>2 DEF Send, TypeOK, request, answers, others
<1>2. CASE Disconnect
  BY <1>2 DEF Disconnect, TypeOK, request, answers, others
<1> QED BY <1>1, <1>2

LEMMA ReadTypeOK ==
  ASSUME TypeOK, NEW t \in IOThread, ReadReady(t) \/ ReadFails(t)
  PROVE  TypeOK'
<1>1. CASE ReadReady(t)
  <2>1. PICK n \in 1..Len(wire) :
          /\ io' = [io EXCEPT ![t] = [pc |-> "parse", pieces |-> SubSeq(wire, 1, n)]]
          /\ wire' = SubSeq(wire, n + 1, Len(wire))
    BY <1>1 DEF ReadReady
  <2>2. wire \in Seq(Piece) /\ reads \in Nat /\ reads > 0
    BY <1>1 DEF ReadReady, TypeOK
  <2>3. /\ SubSeq(wire, 1, n) \in Seq(Piece) /\ SubSeq(wire, 1, n) # <<>>
        /\ wire' \in Seq(Piece)
    BY <2>1, <2>2, SplitType
  <2>4. /\ io' \in [IOThread -> [pc : {"idle", "parse", "test", "read", "reset"},
                                 pieces : Seq(Piece)]]
        /\ \A u \in IOThread : io'[u].pc = "parse" <=> io'[u].pieces # <<>>
    BY <2>1, <2>3, ParsingType
  <2>5. reads' \in Nat
    BY <1>1, <2>2 DEF ReadReady
  <2> QED BY <1>1, <2>3, <2>4, <2>5
          DEF ReadReady, TypeOK, client, request, answers, others
<1>2. CASE ReadFails(t)
  <2>1. reads' \in Nat
    BY <1>2 DEF ReadFails, TypeOK
  <2> QED BY <1>2, <2>1 DEF ReadFails, TypeOK, client, request, answers, others
<1> QED BY <1>1, <1>2

LEMMA ParseTypeOK ==
  ASSUME TypeOK, NEW t \in IOThread, Parse(t)
  PROVE  TypeOK'
<1> DEFINE p == Head(io[t].pieces)
           rest == Tail(io[t].pieces)
<1>1. p \in Piece /\ rest \in Seq(Piece)
  BY TailType DEF Parse, TypeOK
<1>2. p.req \in Request /\ p.end \in BOOLEAN /\ p.begin \in BOOLEAN
  BY <1>1 DEF Piece
<1>3. /\ fields' = (IF p.begin THEN p.req ELSE fields)
      /\ parsing' = (IF p.end THEN 0 ELSE p.req)
      /\ complete' = (complete \/ p.end)
      /\ jobs' = (IF p.end THEN jobs \cup {p.req} ELSE jobs)
      /\ io' = [io EXCEPT ![t] = AfterPiece(rest)]
  BY DEF Parse, Tasks
<1> HIDE DEF p, rest
<1>4. /\ io' \in [IOThread -> [pc : {"idle", "parse", "test", "read", "reset"},
                               pieces : Seq(Piece)]]
      /\ \A u \in IOThread : io'[u].pc = "parse" <=> io'[u].pieces # <<>>
  <2>1. CASE rest = <<>>
    BY <1>3, <2>1, MoveType DEF AfterPiece, At
  <2>2. CASE rest # <<>>
    BY <1>1, <1>3, <2>2, ParsingType DEF AfterPiece
  <2> QED BY <2>1, <2>2
<1>5. complete' \in BOOLEAN
  BY <1>2, <1>3 DEF TypeOK
<1>6. parsing' \in Request \cup {0} /\ fields' \in Request \cup {0}
      /\ jobs' \subseteq Request
  BY <1>2, <1>3 DEF TypeOK
<1>7. UNCHANGED <<kind, sent, eof, wire, received, reads, posted, writing,
                  closed, overtaken>>
  BY DEF Parse, client, others
<1> QED BY <1>4, <1>5, <1>6, <1>7 DEF TypeOK

LEMMA HandleTypeOK ==
  ASSUME TypeOK, NEW t \in IOThread,
         ParseError(t) \/ Test(t) \/ StartRead(t) \/ ResetParser(t)
  PROVE  TypeOK'
<1>1. \E l \in {"idle", "test", "read", "reset"} :
        io' = [io EXCEPT ![t] = [pc |-> l, pieces |-> <<>>]]
  BY DEF ParseError, Test, StartRead, ResetParser, Resting, At
<1>2. /\ io' \in [IOThread -> [pc : {"idle", "parse", "test", "read", "reset"},
                               pieces : Seq(Piece)]]
      /\ \A u \in IOThread : io'[u].pc = "parse" <=> io'[u].pieces # <<>>
  BY <1>1, MoveType
<1>3. CASE ParseError(t)
  BY <1>2, <1>3 DEF ParseError, TypeOK, client, request, answers, others
<1>4. CASE Test(t)
  BY <1>2, <1>4 DEF Test, TypeOK, client, request, answers, others
<1>5. CASE StartRead(t)
  <2>1. reads' \in Nat
    BY <1>5 DEF StartRead, TypeOK
  <2> QED BY <1>2, <1>5, <2>1
          DEF StartRead, TypeOK, client, request, answers, others
<1>6. CASE ResetParser(t)
  <2>1. overtaken' \in BOOLEAN
    BY <1>6 DEF ResetParser, TypeOK
  <2>2. complete' \in BOOLEAN /\ closed' = closed
    BY <1>6 DEF ResetParser
  <2> QED BY <1>2, <1>6, <2>1, <2>2 DEF ResetParser, TypeOK, client, answers
<1> QED BY <1>3, <1>4, <1>5, <1>6

LEMMA AnswerTypeOK ==
  ASSUME TypeOK,
         \/ \E r \in jobs : Build(r)
         \/ \E t \in IOThread :
              \/ \E a \in posted : StartWrite(t, a)
              \/ \E a \in writing : WriteOk(t, a) \/ WriteFails(t, a)
  PROVE  TypeOK'
<1>1. ASSUME NEW r \in jobs, Build(r) PROVE TypeOK'
  <2>1. [req |-> r, used |-> fields] \in Answer
    BY DEF TypeOK, Answer
  <2>2. posted' \subseteq Answer /\ jobs' \subseteq Request
    BY <1>1, <2>1 DEF Build, TypeOK
  <2> QED BY <1>1, <2>2 DEF Build, TypeOK, client, request, others
<1>2. ASSUME NEW t \in IOThread, NEW a \in posted, StartWrite(t, a) PROVE TypeOK'
  BY <1>2 DEF StartWrite, TypeOK, client, request, others
<1>3. ASSUME NEW t \in IOThread, NEW a \in writing, WriteOk(t, a) PROVE TypeOK'
  <2>1. a.used \in Request \cup {0}
    BY DEF TypeOK, Answer
  <2>2. received' \in Seq(Request \cup {0})
    BY <1>3, <2>1 DEF WriteOk, TypeOK
  <2>3. /\ io' \in [IOThread -> [pc : {"idle", "parse", "test", "read", "reset"},
                                 pieces : Seq(Piece)]]
        /\ \A u \in IOThread : io'[u].pc = "parse" <=> io'[u].pieces # <<>>
    BY <1>3, MoveType DEF WriteOk, At
  <2> QED BY <1>3, <2>2, <2>3 DEF WriteOk, TypeOK, client, request, others
<1>4. ASSUME NEW t \in IOThread, NEW a \in writing, WriteFails(t, a) PROVE TypeOK'
  BY <1>4 DEF WriteFails, TypeOK, client, request
<1> QED BY <1>1, <1>2, <1>3, <1>4

LEMMA NextTypeOK == TypeOK /\ [Next]_vars => TypeOK'
<1> SUFFICES ASSUME TypeOK, [Next]_vars PROVE TypeOK'
  OBVIOUS
<1>1. CASE Send \/ Disconnect
  BY <1>1, ClientTypeOK
<1>2. CASE Business
  BY <1>2, AnswerTypeOK DEF Business
<1>3. ASSUME NEW t \in IOThread, Handler(t) PROVE TypeOK'
  BY <1>3, ReadTypeOK, ParseTypeOK, HandleTypeOK, AnswerTypeOK DEF Handler
<1>4. CASE UNCHANGED vars
  BY <1>4 DEF vars, TypeOK
<1> QED BY <1>1, <1>2, <1>3, <1>4 DEF Next

-----------------------------------------------------------------------------
(* Until a reset overtakes a handler, one party has the session: a read, a *)
(* handler, a task or an answer.  Each predicate says which, and what is   *)
(* left of the request the client sent last.                               *)
Whole(r) == [req |-> r, begin |-> TRUE, end |-> TRUE]
First(r) == [req |-> r, begin |-> TRUE, end |-> FALSE]
Last(r)  == [req |-> r, begin |-> FALSE, end |-> TRUE]

\* Threads not in U rest, or return from a request.
Idle(U)  == \A u \in IOThread \ U : io[u].pc = "idle"
Quiet(U) == \A u \in IOThread \ U : io[u].pc = "idle" \/ Returning(u)
NoAnswer == jobs = {} /\ posted = {} /\ writing = {}

Caught == sent = Len(received)
Behind == sent = Len(received) + 1

\* Pieces not read yet, and pieces a handler parses.
InRead(w) ==
  \/ Caught /\ w = <<>>
  \/ Behind /\ w = <<Whole(sent)>>
  \/ Behind /\ w = <<First(sent), Last(sent)>>
  \/ Behind /\ w = <<Last(sent)>> /\ parsing = sent /\ fields = sent
InParse(s, w) ==
  /\ Behind
  /\ \/ s = <<Whole(sent)>> /\ w = <<>>
     \/ s = <<First(sent), Last(sent)>> /\ w = <<>>
     \/ s = <<First(sent)>> /\ w = <<Last(sent)>>
     \/ s = <<Last(sent)>> /\ w = <<>> /\ parsing = sent /\ fields = sent

Cause == eof \/ \E r \in 1..sent : kind[r] # "good"

Reading == /\ reads = 1 /\ NoAnswer /\ ~complete
           /\ Idle({}) /\ InRead(wire)
Parsing(t) == /\ reads = 0 /\ NoAnswer /\ ~complete /\ Idle({t})
              /\ io[t].pc = "parse" /\ InParse(io[t].pieces, wire)
Between(t) == /\ reads = 0 /\ NoAnswer /\ ~complete /\ Idle({t})
              /\ io[t].pc \in {"test", "read"} /\ InRead(wire)
Owing == /\ reads = 0 /\ complete /\ Quiet({})
         /\ Behind /\ wire = <<>> /\ fields = sent
         /\ \/ jobs = {sent} /\ posted = {} /\ writing = {}
            \/ /\ jobs = {} /\ writing = {}
               /\ posted = {[req |-> sent, used |-> sent]}
            \/ /\ jobs = {} /\ posted = {}
               /\ writing = {[req |-> sent, used |-> sent]}
Resetting(t) == /\ reads = 0 /\ NoAnswer /\ complete /\ Quiet({t})
                /\ io[t].pc = "reset"
                /\ \/ Caught /\ wire = <<>>
                   \/ Behind /\ wire = <<Whole(sent)>>
                   \/ Behind /\ wire = <<First(sent), Last(sent)>>
Dropped == reads = 0 /\ NoAnswer /\ Quiet({}) /\ Cause

Owner == \/ Reading \/ Owing \/ Dropped
         \/ \E t \in IOThread : Parsing(t) \/ Between(t) \/ Resetting(t)

InTurn == AnswersMatch /\ (closed => eof) /\ (overtaken \/ Owner)

IInv == TypeOK /\ InTurn

\* Who has the session, seen from what is there.
LEMMA WhoHasIt ==
  ASSUME Owner
  PROVE  /\ reads > 0 => Reading
         /\ \A t \in IOThread : io[t].pc = "parse" => Parsing(t)
         /\ \A t \in IOThread : io[t].pc = "read" => Between(t)
         /\ \A t \in IOThread : io[t].pc = "reset" => Resetting(t)
         /\ \A t \in IOThread : io[t].pc = "test" /\ ~complete => Between(t)
         /\ \A t \in IOThread : io[t].pc = "test" /\ complete =>
              \/ Owing
              \/ Dropped
              \/ \E u \in IOThread \ {t} : Resetting(u)
         /\ jobs # {} \/ posted # {} \/ writing # {} => Owing
<1> USE DEF Idle, Quiet, Returning, NoAnswer
<1>1. CASE Reading
  BY <1>1 DEF Reading
<1>2. CASE Owing
  BY <1>2 DEF Owing
<1>3. CASE Dropped
  BY <1>3 DEF Dropped
<1>4. ASSUME NEW u \in IOThread, Parsing(u)
      PROVE  /\ reads = 0 /\ NoAnswer /\ ~complete /\ Parsing(u)
             /\ \A t \in IOThread \ {u} : io[t].pc = "idle"
             /\ io[u].pc = "parse"
  BY <1>4 DEF Parsing
<1>5. ASSUME NEW u \in IOThread, Between(u)
      PROVE  /\ reads = 0 /\ NoAnswer /\ ~complete /\ Between(u)
             /\ \A t \in IOThread \ {u} : io[t].pc = "idle"
             /\ io[u].pc \in {"test", "read"}
  BY <1>5 DEF Between
<1>6. ASSUME NEW u \in IOThread, Resetting(u)
      PROVE  /\ reads = 0 /\ NoAnswer /\ complete /\ Resetting(u)
             /\ \A t \in IOThread \ {u} : io[t].pc = "idle" \/ Returning(t)
             /\ io[u].pc = "reset"
  BY <1>6 DEF Resetting
<1>7. CASE \E u \in IOThread : Parsing(u)
  BY <1>4, <1>7
<1>8. CASE \E u \in IOThread : Between(u)
  BY <1>5, <1>8
<1>9. CASE \E u \in IOThread : Resetting(u)
  BY <1>6, <1>9
<1> QED BY <1>1, <1>2, <1>3, <1>7, <1>8, <1>9 DEF Owner

LEMMA InitIInv == Init => IInv
<1> SUFFICES ASSUME Init PROVE IInv
  OBVIOUS
<1>1. Reading
  BY DEF Init, Reading, NoAnswer, Idle, InRead, Caught, Resting
<1>2. AnswersMatch /\ (closed => eof)
  BY DEF Init, AnswersMatch
<1> QED BY <1>1, <1>2, InitTypeOK DEF IInv, InTurn, Owner

-----------------------------------------------------------------------------
(* The client.                                                             *)
LEMMA CutShape ==
  ASSUME NEW r, NEW p \in Cuts(r)
  PROVE  p = <<Whole(r)>> \/ p = <<First(r), Last(r)>>
BY DEF Cuts, Whole, First, Last

LEMMA SendOwner ==
  ASSUME IInv, Send, Owner
  PROVE  Owner'
<1>1. /\ UNCHANGED <<kind, eof, received, reads, io, parsing, fields, complete,
                     jobs, posted, writing, closed, overtaken>>
      /\ Caught /\ sent' = sent + 1
  BY DEF Send, Caught, request, answers, others
<1>2. sent \in Nat /\ wire \in Seq(Piece)
  BY SessionAssumption DEF IInv, TypeOK
<1>3. Behind' /\ ~Behind
  BY <1>1, <1>2 DEF Behind, Caught
<1>4. PICK p \in Cuts(sent + 1) : wire' = wire \o p
  BY DEF Send
<1>5. wire = <<>> =>
        wire' = <<Whole(sent')>> \/ wire' = <<First(sent'), Last(sent')>>
  <2>1. p = <<Whole(sent')>> \/ p = <<First(sent'), Last(sent')>>
    BY <1>1, CutShape
  <2>2. <<>> \o <<Whole(sent')>> = <<Whole(sent')>>
        /\ <<>> \o <<First(sent'), Last(sent')>> = <<First(sent'), Last(sent')>>
    OBVIOUS
  <2> QED BY <1>4, <2>1, <2>2
<1>6. /\ \A U : Idle(U)' = Idle(U) /\ Quiet(U)' = Quiet(U)
      /\ NoAnswer' = NoAnswer
  BY <1>1 DEF Idle, Quiet, Returning, NoAnswer
<1>7. InRead(wire) => InRead(wire)'
  BY <1>3, <1>5 DEF InRead
<1>8. Cause => Cause'
  BY <1>1, <1>2 DEF Cause
<1>9. CASE Reading
  BY <1>1, <1>6, <1>7, <1>9 DEF Reading, Owner
<1>10. CASE Owing
  BY <1>3, <1>10 DEF Owing
<1>11. CASE Dropped
  BY <1>1, <1>6, <1>8, <1>11 DEF Dropped, Owner
<1>12. ASSUME NEW t \in IOThread, Parsing(t) PROVE FALSE
  BY <1>3, <1>12 DEF Parsing, InParse
<1>13. ASSUME NEW t \in IOThread, Between(t) PROVE Owner'
  <2>1. Between(t)'
    BY <1>1, <1>6, <1>7, <1>13 DEF Between
  <2> QED BY <2>1 DEF Owner
<1>14. ASSUME NEW t \in IOThread, Resetting(t) PROVE Owner'
  <2>1. wire = <<>>
    BY <1>3, <1>14 DEF Resetting
  <2>2. Resetting(t)'
    BY <1>1, <1>3, <1>5, <1>6, <1>14, <2>1 DEF Resetting
  <2> QED BY <2>2 DEF Owner
<1> QED BY <1>9, <1>10, <1>11, <1>12, <1>13, <1>14 DEF Owner

LEMMA DisconnectOwner ==
  ASSUME IInv, Disconnect, Owner
  PROVE  Owner'
<1>1. /\ UNCHANGED <<kind, sent, wire, received, reads, io, parsing, fields,
                     complete, jobs, posted, writing>>
      /\ eof'
  BY DEF Disconnect, request, answers, others
<1> QED BY <1>1
        DEF Owner, Reading, Owing, Dropped, Parsing, Between, Resetting, Idle,
            Quiet, Returning, NoAnswer, InRead, InParse, Caught, Behind, Cause

-----------------------------------------------------------------------------
(* Reading and parsing.                                                    *)
LEMMA SubSeqOne ==
  ASSUME NEW S, NEW s \in Seq(S), NEW k \in 1..Len(s)
  PROVE  SubSeq(s, k, k) = <<s[k]>>
<1>1. \A i \in k..k : s[i] \in S
  OBVIOUS
<1>2. /\ SubSeq(s, k, k) \in Seq(S) /\ Len(SubSeq(s, k, k)) = 1
      /\ SubSeq(s, k, k)[1] = s[k]
  <2>1. k \in Int
    OBVIOUS
  <2>2. /\ SubSeq(s, k, k) \in Seq(S)
        /\ Len(SubSeq(s, k, k)) = (IF k <= k THEN k - k + 1 ELSE 0)
        /\ \A i \in 1..(k - k + 1) : SubSeq(s, k, k)[i] = s[k + i - 1]
    BY <1>1, <2>1, SubSeqProperties
  <2> QED BY <2>1, <2>2
<1> DEFINE one == SubSeq(s, k, k)
           v == s[k]
<1>3. one \in Seq(S) /\ Len(one) = 1 /\ one[1] = v /\ v \in S
  BY <1>2
<1> HIDE DEF one, v
<1>4. <<v>> \in Seq(S) /\ Len(<<v>>) = 1 /\ <<v>>[1] = v
  BY <1>3
<1>5. \A i \in 1..Len(one) : one[i] = <<v>>[i]
  BY <1>3, <1>4
<1>6. one = <<v>>
  BY <1>3, <1>4, <1>5, SeqEqual
<1> QED BY <1>6 DEF one, v

LEMMA SplitOne ==
  ASSUME NEW a, NEW n \in 1..Len(<<a>>)
  PROVE  SubSeq(<<a>>, 1, n) = <<a>> /\ SubSeq(<<a>>, n + 1, Len(<<a>>)) = <<>>
<1>1. n = 1 /\ Len(<<a>>) = 1 /\ n + 1 = 2
  OBVIOUS
<1>2. SubSeq(<<a>>, 1, 1) = <<a>>
  <2>1. <<a>> \in Seq({a}) /\ 1 \in 1..Len(<<a>>) /\ <<a>>[1] = a
    OBVIOUS
  <2> QED BY <2>1, SubSeqOne
<1>3. SubSeq(<<a>>, 2, 1) = <<>>
  BY SubSeqEmpty
<1> QED BY <1>1, <1>2, <1>3

LEMMA SplitTwo ==
  ASSUME NEW a, NEW b, NEW n \in 1..Len(<<a, b>>)
  PROVE  \/ /\ SubSeq(<<a, b>>, 1, n) = <<a>>
            /\ SubSeq(<<a, b>>, n + 1, Len(<<a, b>>)) = <<b>>
         \/ /\ SubSeq(<<a, b>>, 1, n) = <<a, b>>
            /\ SubSeq(<<a, b>>, n + 1, Len(<<a, b>>)) = <<>>
<1> DEFINE s == <<a, b>>
<1>1. /\ s \in Seq({a, b}) /\ Len(s) = 2 /\ s[1] = a /\ s[2] = b
      /\ (n = 1 /\ n + 1 = 2) \/ (n = 2 /\ n + 1 = 3)
  OBVIOUS
<1> HIDE DEF s
<1>2. SubSeq(s, 1, 1) = <<a>> /\ SubSeq(s, 2, 2) = <<b>>
  BY <1>1, SubSeqOne
<1>3. SubSeq(s, 1, 2) = s
  BY <1>1, SubSeqFull
<1>4. SubSeq(s, 3, 2) = <<>>
  BY SubSeqEmpty
<1>5. \/ SubSeq(s, 1, n) = <<a>> /\ SubSeq(s, n + 1, Len(s)) = <<b>>
      \/ SubSeq(s, 1, n) = s /\ SubSeq(s, n + 1, Len(s)) = <<>>
  BY <1>1, <1>2, <1>3, <1>4
<1> QED BY <1>5 DEF s

LEMMA ReadReadyOwner ==
  ASSUME IInv, NEW t \in IOThread, ReadReady(t), Owner
  PROVE  Parsing(t)'
<1>1. PICK n \in 1..Len(wire) :
        /\ io' = [io EXCEPT ![t] = [pc |-> "parse", pieces |-> SubSeq(wire, 1, n)]]
        /\ wire' = SubSeq(wire, n + 1, Len(wire))
  BY DEF ReadReady
<1>2. /\ UNCHANGED <<kind, sent, eof, received, parsing, fields, complete, jobs,
                     posted, writing>>
      /\ reads > 0 /\ reads' = reads - 1 /\ wire # <<>>
  BY DEF ReadReady, Readable, client, request, answers, others
<1>3. Reading
  BY <1>2, WhoHasIt
<1>4. /\ io'[t].pc = "parse" /\ io'[t].pieces = SubSeq(wire, 1, n)
      /\ \A u \in IOThread \ {t} : io'[u] = io[u]
  BY <1>1 DEF IInv, TypeOK
<1>5. /\ Behind
      /\ \/ wire = <<Whole(sent)>>
         \/ wire = <<First(sent), Last(sent)>>
         \/ wire = <<Last(sent)>> /\ parsing = sent /\ fields = sent
  BY <1>2, <1>3 DEF Reading, InRead
<1>6. InParse(io'[t].pieces, wire')
  <2>1. CASE wire = <<Whole(sent)>>
    BY <1>1, <1>4, <1>5, <2>1, SplitOne DEF InParse
  <2>2. CASE wire = <<First(sent), Last(sent)>>
    BY <1>1, <1>4, <1>5, <2>2, SplitTwo DEF InParse
  <2>3. CASE wire = <<Last(sent)>> /\ parsing = sent /\ fields = sent
    BY <1>1, <1>4, <1>5, <2>3, SplitOne DEF InParse
  <2> QED BY <1>5, <2>1, <2>2, <2>3
<1>7. InParse(io[t].pieces, wire)'
  BY <1>2, <1>6 DEF InParse, Behind
<1>8. reads' = 0 /\ NoAnswer' /\ ~complete' /\ Idle({t})'
  BY <1>2, <1>3, <1>4 DEF Reading, NoAnswer, Idle
<1> QED BY <1>4, <1>7, <1>8 DEF Parsing

LEMMA ReadFailsOwner ==
  ASSUME IInv, NEW t \in IOThread, ReadFails(t), Owner
  PROVE  Dropped'
<1>1. /\ UNCHANGED <<kind, sent, eof, io, complete, jobs, posted, writing>>
      /\ reads > 0 /\ reads' = reads - 1 /\ (eof \/ closed)
  BY DEF ReadFails, client, request, answers, others
<1>2. Reading /\ eof
  BY <1>1, WhoHasIt DEF IInv, InTurn
<1> QED BY <1>1, <1>2
        DEF Reading, Dropped, NoAnswer, Idle, Quiet, Cause, Returning

\* What the parser meets first.
LEMMA HeadOfPieces ==
  ASSUME IInv, NEW t \in IOThread, Parsing(t)
  PROVE  LET p == Head(io[t].pieces)
             rest == Tail(io[t].pieces) IN
         /\ Behind /\ p.req = sent /\ sent \in 1..sent
         /\ \/ p.begin /\ p.end /\ rest = <<>> /\ wire = <<>>
            \/ /\ p.begin /\ ~p.end
               /\ \/ rest = <<Last(sent)>> /\ wire = <<>>
                  \/ rest = <<>> /\ wire = <<Last(sent)>>
            \/ /\ ~p.begin /\ p.end /\ rest = <<>> /\ wire = <<>>
               /\ parsing = sent /\ fields = sent
<1> DEFINE s == io[t].pieces
<1>1. InParse(s, wire)
  BY DEF Parsing
<1>2. sent \in 1..sent
  <2>1. sent \in Nat /\ Len(received) \in Nat /\ sent = Len(received) + 1
    BY <1>1, SessionAssumption DEF IInv, TypeOK, InParse, Behind
  <2> QED BY <2>1
<1>3. /\ Whole(sent).req = sent /\ Whole(sent).begin /\ Whole(sent).end
      /\ First(sent).req = sent /\ First(sent).begin /\ ~First(sent).end
      /\ Last(sent).req = sent /\ ~Last(sent).begin /\ Last(sent).end
  BY DEF Whole, First, Last
<1>4. \A a : Head(<<a>>) = a /\ Tail(<<a>>) = <<>>
  OBVIOUS
<1>5. \A a, b : Head(<<a, b>>) = a /\ Tail(<<a, b>>) = <<b>>
  OBVIOUS
<1> HIDE DEF s
<1>6. CASE s = <<Whole(sent)>> /\ wire = <<>>
  BY <1>1, <1>2, <1>3, <1>4, <1>6 DEF s, InParse
<1>7. CASE s = <<First(sent), Last(sent)>> /\ wire = <<>>
  BY <1>1, <1>2, <1>3, <1>5, <1>7 DEF s, InParse
<1>8. CASE s = <<First(sent)>> /\ wire = <<Last(sent)>>
  BY <1>1, <1>2, <1>3, <1>4, <1>8 DEF s, InParse
<1>9. CASE s = <<Last(sent)>> /\ wire = <<>> /\ parsing = sent /\ fields = sent
  BY <1>1, <1>2, <1>3, <1>4, <1>9 DEF s, InParse
<1> QED BY <1>1, <1>6, <1>7, <1>8, <1>9 DEF InParse

LEMMA ParseErrorOwner ==
  ASSUME IInv, NEW t \in IOThread, ParseError(t), Owner
  PROVE  Dropped'
<1>1. /\ UNCHANGED <<kind, sent, eof, reads, parsing, complete, jobs, posted,
                     writing>>
      /\ io[t].pc = "parse"
      /\ Refused(Head(io[t].pieces))
      /\ io' = [io EXCEPT ![t] = Resting]
  BY DEF ParseError, client, request, answers, others
<1>2. Parsing(t)
  BY <1>1, WhoHasIt
<1>3. kind[sent] = "malformed" /\ sent \in 1..sent
  BY <1>1, <1>2, HeadOfPieces DEF Refused
<1>4. Cause'
  BY <1>1, <1>3 DEF Cause
<1>5. Quiet({})'
  BY <1>1, <1>2 DEF Parsing, Idle, Quiet, Returning, Resting, IInv, TypeOK
<1> QED BY <1>1, <1>2, <1>4, <1>5 DEF Parsing, Dropped, NoAnswer

LEMMA ParseOwner ==
  ASSUME IInv, NEW t \in IOThread, Parse(t), Owner
  PROVE  Owner'
<1> DEFINE p == Head(io[t].pieces)
           rest == Tail(io[t].pieces)
<1>1. /\ UNCHANGED <<kind, sent, wire, eof, received, reads, posted, writing>>
      /\ io[t].pc = "parse"
      /\ fields' = (IF p.begin THEN p.req ELSE fields)
      /\ parsing' = (IF p.end THEN 0 ELSE p.req)
      /\ complete' = (complete \/ p.end)
      /\ jobs' = (IF p.end THEN jobs \cup {p.req} ELSE jobs)
      /\ io' = [io EXCEPT ![t] = AfterPiece(rest)]
  BY DEF Parse, Tasks, client, others
<1>2. Parsing(t)
  BY <1>1, WhoHasIt
<1>3. /\ Behind /\ p.req = sent
      /\ \/ p.begin /\ p.end /\ rest = <<>> /\ wire = <<>>
         \/ /\ p.begin /\ ~p.end
            /\ \/ rest = <<Last(sent)>> /\ wire = <<>>
               \/ rest = <<>> /\ wire = <<Last(sent)>>
         \/ /\ ~p.begin /\ p.end /\ rest = <<>> /\ wire = <<>>
            /\ parsing = sent /\ fields = sent
  BY <1>2, HeadOfPieces
<1>4. /\ io'[t] = AfterPiece(rest)
      /\ \A u \in IOThread \ {t} : io'[u] = io[u] /\ io[u].pc = "idle"
  BY <1>1, <1>2 DEF Parsing, Idle, IInv, TypeOK
<1>5. reads = 0 /\ jobs = {} /\ posted = {} /\ writing = {} /\ ~complete
  BY <1>2 DEF Parsing, NoAnswer
<1> HIDE DEF p, rest
<1>6. CASE p.end
  <2>1. /\ rest = <<>> /\ wire = <<>> /\ complete' /\ fields' = sent
        /\ jobs' = {sent}
    BY <1>1, <1>3, <1>5, <1>6
  <2>2. Quiet({})'
    BY <1>4, <2>1 DEF Quiet, Returning, AfterPiece, At
  <2>3. Owing'
    BY <1>1, <1>3, <1>5, <2>1, <2>2 DEF Owing, Behind
  <2> QED BY <2>3 DEF Owner
<1>7. CASE ~p.end
  <2>1. /\ p.begin /\ complete' = complete /\ fields' = sent /\ parsing' = sent
        /\ jobs' = {}
        /\ \/ rest = <<Last(sent)>> /\ wire = <<>>
           \/ rest = <<>> /\ wire = <<Last(sent)>>
    BY <1>1, <1>3, <1>5, <1>7 DEF IInv, TypeOK
  <2>2. Idle({t})' /\ NoAnswer'
    BY <1>1, <1>4, <1>5, <2>1 DEF Idle, NoAnswer
  <2>3. Behind'
    BY <1>1, <1>3 DEF Behind
  <2>4. CASE rest = <<Last(sent)>> /\ wire = <<>>
    <3>1. io'[t].pc = "parse" /\ io'[t].pieces = rest
      <4>1. <<Last(sent)>> # <<>>
        OBVIOUS
      <4> QED BY <1>4, <2>4, <4>1 DEF AfterPiece
    <3>2. Parsing(t)'
      BY <1>1, <1>5, <2>1, <2>2, <2>3, <2>4, <3>1 DEF Parsing, InParse, Last
    <3> QED BY <3>2 DEF Owner
  <2>5. CASE rest = <<>> /\ wire = <<Last(sent)>>
    <3>1. io'[t].pc = "test"
      BY <1>4, <2>5 DEF AfterPiece, At
    <3>2. Between(t)'
      BY <1>1, <1>5, <2>1, <2>2, <2>3, <2>5, <3>1 DEF Between, InRead, Last
    <3> QED BY <3>2 DEF Owner
  <2> QED BY <2>1, <2>4, <2>5
<1> QED BY <1>6, <1>7

LEMMA TestOwner ==
  ASSUME IInv, NEW t \in IOThread, Test(t), Owner
  PROVE  Owner'
<1>1. /\ UNCHANGED <<kind, sent, wire, eof, received, reads, parsing, fields,
                     complete, jobs, posted, writing>>
      /\ io[t].pc = "test"
      /\ io' = [io EXCEPT ![t] = IF ~complete THEN At("read") ELSE Resting]
  BY DEF Test, MayRead, client, request, answers, others
<1>2. CASE ~complete
  <2>1. Between(t)
    BY <1>1, <1>2, WhoHasIt
  <2>2. /\ io'[t].pc = "read"
        /\ \A u \in IOThread \ {t} : io'[u] = io[u]
    BY <1>1, <1>2 DEF At, IInv, TypeOK
  <2>3. InRead(wire)'
    BY <1>1, <2>1 DEF Between, InRead, Caught, Behind
  <2>4. Between(t)'
    BY <1>1, <2>1, <2>2, <2>3 DEF Between, Idle, NoAnswer
  <2> QED BY <2>4 DEF Owner
<1>3. CASE complete
  <2>1. /\ io'[t].pc = "idle"
        /\ \A u \in IOThread \ {t} : io'[u] = io[u]
    BY <1>1, <1>3 DEF Resting, IInv, TypeOK
  <2>2. \A U : Quiet(U) => Quiet(U)'
    BY <1>1, <2>1 DEF Quiet, Returning
  <2>3. CASE Owing
    BY <1>1, <2>2, <2>3 DEF Owing, Behind, Owner
  <2>4. CASE Dropped
    BY <1>1, <2>2, <2>4 DEF Dropped, NoAnswer, Cause, Owner
  <2>5. ASSUME NEW u \in IOThread \ {t}, Resetting(u) PROVE Owner'
    <3>1. Resetting(u)'
      BY <1>1, <2>1, <2>2, <2>5 DEF Resetting, NoAnswer, Caught, Behind
    <3> QED BY <3>1 DEF Owner
  <2> QED BY <1>1, <1>3, <2>3, <2>4, <2>5, WhoHasIt
<1> QED BY <1>2, <1>3

LEMMA StartReadOwner ==
  ASSUME IInv, NEW t \in IOThread, StartRead(t), Owner
  PROVE  Reading'
<1>1. /\ UNCHANGED <<sent, wire, received, parsing, fields, complete, jobs,
                     posted, writing>>
      /\ io[t].pc = "read" /\ io' = [io EXCEPT ![t] = Resting]
      /\ reads' = reads + 1
  BY DEF StartRead, client, request, answers, others
<1>2. Between(t)
  BY <1>1, WhoHasIt
<1>3. Idle({})'
  BY <1>1, <1>2 DEF Between, Idle, Resting, IInv, TypeOK
<1>4. InRead(wire)'
  BY <1>1, <1>2 DEF Between, InRead, Caught, Behind
<1> QED BY <1>1, <1>2, <1>3, <1>4 DEF Between, Reading, NoAnswer

-----------------------------------------------------------------------------
(* Answers.                                                                *)
LEMMA BuildOwner ==
  ASSUME IInv, NEW r \in jobs, Build(r), Owner
  PROVE  Owner'
<1>1. /\ UNCHANGED <<kind, sent, wire, eof, received, reads, io, parsing, fields,
                     complete, writing>>
      /\ jobs' = jobs \ {r}
      /\ posted' = (IF Silent THEN posted
                              ELSE posted \cup {[req |-> r, used |-> fields]})
  BY DEF Build, client, request, others
<1>2. Owing
  BY WhoHasIt
<1>3. r = sent /\ jobs = {sent} /\ posted = {} /\ writing = {}
  BY <1>2 DEF Owing
<1>4. sent \in 1..sent
  <2>1. sent \in Nat /\ Len(received) \in Nat /\ sent = Len(received) + 1
    BY <1>2, SessionAssumption DEF IInv, TypeOK, Owing, Behind
  <2> QED BY <2>1
<1>5. Quiet({})'
  BY <1>1, <1>2 DEF Owing, Quiet, Returning
<1>6. CASE Silent
  <2>1. Cause'
    BY <1>1, <1>2, <1>4, <1>6 DEF Silent, Cause, Owing
  <2>2. Dropped'
    BY <1>1, <1>2, <1>3, <1>5, <1>6, <2>1 DEF Dropped, Owing, NoAnswer
  <2> QED BY <2>2 DEF Owner
<1>7. CASE ~Silent
  <2>1. posted' = {[req |-> sent, used |-> sent]} /\ jobs' = {}
    BY <1>1, <1>2, <1>3, <1>7 DEF Owing
  <2>2. Owing'
    BY <1>1, <1>2, <1>3, <1>5, <2>1 DEF Owing, Behind
  <2> QED BY <2>2 DEF Owner
<1> QED BY <1>6, <1>7

LEMMA StartWriteOwner ==
  ASSUME IInv, NEW t \in IOThread, NEW a \in posted, StartWrite(t, a), Owner
  PROVE  Owing'
<1>1. /\ UNCHANGED <<sent, wire, received, reads, io, parsing, fields, complete,
                     jobs>>
      /\ posted' = posted \ {a} /\ writing' = writing \cup {a}
  BY DEF StartWrite, client, request, others
<1>2. Owing
  BY WhoHasIt
<1>3. /\ a = [req |-> sent, used |-> sent] /\ posted = {a} /\ jobs = {}
      /\ writing = {}
  BY <1>2 DEF Owing
<1>4. Quiet({})'
  BY <1>1, <1>2 DEF Owing, Quiet, Returning
<1> QED BY <1>1, <1>2, <1>3, <1>4 DEF Owing, Behind

LEMMA WriteOkInTurn ==
  ASSUME IInv, NEW t \in IOThread, NEW a \in writing, WriteOk(t, a), Owner,
         ~overtaken
  PROVE  Resetting(t)' /\ AnswersMatch'
<1>1. /\ UNCHANGED <<kind, sent, wire, eof, reads, parsing, fields, complete,
                     jobs, posted, overtaken>>
      /\ io[t].pc = "idle"
      /\ writing' = writing \ {a}
      /\ received' = Append(received, a.used)
      /\ io' = [io EXCEPT ![t] = At("reset")]
  BY DEF WriteOk, client, request, others
<1>2. Owing
  BY WhoHasIt
<1>3. a.used = sent /\ writing = {a} /\ jobs = {} /\ posted = {}
  BY <1>2 DEF Owing
<1>4. /\ received \in Seq(Request \cup {0}) /\ sent = Len(received) + 1
      /\ sent \in Request \cup {0}
  BY <1>2 DEF IInv, TypeOK, Owing, Behind, Answer, Request
<1>5. /\ Len(received') = sent
      /\ \A i \in 1..Len(received) : received'[i] = received[i]
      /\ received'[sent] = sent
  BY <1>1, <1>3, <1>4
<1>6. AnswersMatch'
  <2>1. \A i \in 1..Len(received) : received[i] = i
    BY DEF IInv, InTurn, AnswersMatch
  <2>2. Len(received) \in Nat
    BY <1>4
  <2>3. \A i \in 1..sent : received'[i] = i
    BY <1>4, <1>5, <2>1, <2>2
  <2> QED BY <1>5, <2>3 DEF AnswersMatch
<1>7. /\ io'[t].pc = "reset"
      /\ \A u \in IOThread \ {t} : io'[u] = io[u]
  BY <1>1 DEF At, IInv, TypeOK
<1>8. Quiet({t})'
  BY <1>1, <1>2, <1>7 DEF Owing, Quiet, Returning
<1>9. Caught' /\ wire' = <<>>
  BY <1>1, <1>2, <1>5 DEF Caught, Owing
<1>10. Resetting(t)'
  BY <1>1, <1>2, <1>3, <1>7, <1>8, <1>9 DEF Resetting, Owing, NoAnswer
<1> QED BY <1>6, <1>10

LEMMA WriteFailsOwner ==
  ASSUME IInv, NEW t \in IOThread, NEW a \in writing, WriteFails(t, a), Owner
  PROVE  Dropped'
<1>1. /\ UNCHANGED <<kind, sent, eof, reads, io, complete, jobs, posted>>
      /\ writing' = writing \ {a} /\ eof
  BY DEF WriteFails, client, request, IInv, InTurn
<1>2. Owing
  BY WhoHasIt
<1>3. writing = {a} /\ jobs = {} /\ posted = {}
  BY <1>2 DEF Owing
<1>4. Quiet({})'
  BY <1>1, <1>2 DEF Owing, Quiet, Returning
<1> QED BY <1>1, <1>2, <1>3, <1>4 DEF Owing, Dropped, NoAnswer, Cause

\* A reset that overtakes no handler leaves the session to this one.
LEMMA ResetOwner ==
  ASSUME IInv, NEW t \in IOThread, ResetParser(t), Owner
  PROVE  overtaken' \/ Between(t)'
<1>1. /\ UNCHANGED <<kind, sent, wire, eof, received, reads, jobs, posted,
                     writing>>
      /\ io[t].pc = "reset" /\ complete' = FALSE
      /\ overtaken' = (overtaken \/ \E u \in IOThread \ {t} : io[u].pc = "test")
      /\ io' = [io EXCEPT ![t] = At("read")]
  BY DEF ResetParser, client, answers
<1>2. Resetting(t)
  BY <1>1, WhoHasIt
<1>3. /\ io'[t].pc = "read"
      /\ \A u \in IOThread \ {t} : io'[u] = io[u]
  BY <1>1 DEF At, IInv, TypeOK
<1>4. ~overtaken' => Idle({t})'
  BY <1>1, <1>2, <1>3 DEF Resetting, Quiet, Returning, Idle
<1>5. InRead(wire)'
  BY <1>1, <1>2 DEF Resetting, InRead, Caught, Behind
<1>6. NoAnswer' /\ reads' = 0
  BY <1>1, <1>2 DEF Resetting, NoAnswer
<1> QED BY <1>1, <1>3, <1>4, <1>5, <1>6 DEF Between

-----------------------------------------------------------------------------
LEMMA NextInTurn == IInv /\ [Next]_vars => InTurn'
<1> SUFFICES ASSUME IInv, [Next]_vars PROVE InTurn'
  OBVIOUS
<1>1. closed' => eof'
  <2>1. CASE \E t \in IOThread : \E a \in writing : WriteFails(t, a)
    BY <2>1 DEF WriteFails, client, IInv, InTurn
  <2>2. CASE closed' = closed /\ (eof => eof')
    BY <2>2 DEF IInv, InTurn
  <2>3. ASSUME NEW t \in IOThread, Handler(t),
               ~(\E a \in writing : WriteFails(t, a))
        PROVE  closed' = closed /\ eof' = eof
    BY <2>3 DEF Handler, ReadReady, ReadFails, ParseError, Parse, Test, StartRead,
         StartWrite, WriteOk, ResetParser, client, others
  <2>4. ASSUME Send \/ Disconnect \/ Business \/ UNCHANGED vars
        PROVE  closed' = closed /\ (eof => eof')
    <3>1. CASE Send \/ Business \/ UNCHANGED vars
      BY <3>1 DEF Send, Business, Build, client, others, vars
    <3>2. CASE Disconnect
      BY <3>2 DEF Disconnect, others
    <3> QED BY <2>4, <3>1, <3>2
  <2> QED BY <2>1, <2>2, <2>3, <2>4 DEF Next
<1>2. overtaken => overtaken'
  <2>1. ASSUME NEW t \in IOThread, Handler(t), overtaken PROVE overtaken'
    BY <2>1 DEF Handler, ReadReady, ReadFails, ParseError, Parse, Test, StartRead,
         StartWrite, WriteOk, WriteFails, ResetParser, others
  <2>2. CASE Send \/ Disconnect \/ Business \/ UNCHANGED vars
    BY <2>2 DEF Send, Disconnect, Business, Build, others, vars
  <2> QED BY <2>1, <2>2 DEF Next
<1>3. ASSUME ~overtaken, Owner
      PROVE  (overtaken' \/ Owner') /\ AnswersMatch'
  <2>1. CASE Send
    BY <1>3, <2>1, SendOwner DEF Send, IInv, InTurn, AnswersMatch, others
  <2>2. CASE Disconnect
    BY <1>3, <2>2, DisconnectOwner DEF Disconnect, IInv, InTurn, AnswersMatch, others
  <2>3. ASSUME NEW r \in jobs, Build(r)
        PROVE  Owner' /\ AnswersMatch'
    <3>1. Owner'
      BY <1>3, <2>3, BuildOwner
    <3> QED BY <2>3, <3>1 DEF Build, IInv, InTurn, AnswersMatch, others
  <2>4. ASSUME NEW t \in IOThread, Handler(t)
        PROVE  (overtaken' \/ Owner') /\ AnswersMatch'
    <3>1. CASE ReadReady(t) \/ ReadFails(t)
      <4>1. Owner'
        BY <1>3, <3>1, ReadReadyOwner, ReadFailsOwner DEF Owner
      <4> QED BY <3>1, <4>1
              DEF ReadReady, ReadFails, IInv, InTurn, AnswersMatch, others
    <3>2. CASE ParseError(t) \/ Parse(t)
      <4>1. Owner'
        BY <1>3, <3>2, ParseErrorOwner, ParseOwner DEF Owner
      <4> QED BY <3>2, <4>1
              DEF ParseError, Parse, IInv, InTurn, AnswersMatch, others
    <3>3. CASE Test(t) \/ StartRead(t)
      <4>1. Owner'
        BY <1>3, <3>3, TestOwner, StartReadOwner DEF Owner
      <4> QED BY <3>3, <4>1
              DEF Test, StartRead, IInv, InTurn, AnswersMatch, others
    <3>4. ASSUME NEW a \in posted, StartWrite(t, a)
          PROVE  Owner' /\ AnswersMatch'
      <4>1. Owner'
        BY <1>3, <3>4, StartWriteOwner DEF Owner
      <4> QED BY <3>4, <4>1 DEF StartWrite, IInv, InTurn, AnswersMatch, others
    <3>5. ASSUME NEW a \in writing, WriteOk(t, a)
          PROVE  Owner' /\ AnswersMatch'
      BY <1>3, <3>5, WriteOkInTurn DEF Owner
    <3>6. ASSUME NEW a \in writing, WriteFails(t, a)
          PROVE  Owner' /\ AnswersMatch'
      <4>1. Owner'
        BY <1>3, <3>6, WriteFailsOwner DEF Owner
      <4> QED BY <3>6, <4>1 DEF WriteFails, IInv, InTurn, AnswersMatch
    <3>7. CASE ResetParser(t)
      <4>1. overtaken' \/ Owner'
        BY <1>3, <3>7, ResetOwner DEF Owner
      <4> QED BY <3>7, <4>1 DEF ResetParser, IInv, InTurn, AnswersMatch
    <3> QED BY <2>4, <3>1, <3>2, <3>3, <3>4, <3>5, <3>6, <3>7 DEF Handler
  <2>5. CASE UNCHANGED vars
    BY <1>3, <2>5
       DEF vars, Owner, Reading, Owing, Dropped, Parsing, Between, Resetting,
           Idle, Quiet, Returning, NoAnswer, InRead, InParse, Caught, Behind,
           Cause, IInv, InTurn, AnswersMatch
  <2> QED BY <2>1, <2>2, <2>3, <2>4, <2>5 DEF Next, Business
<1>4. overtaken' \/ (Owner' /\ AnswersMatch')
  BY <1>2, <1>3 DEF IInv, InTurn
<1>5. AnswersMatch'
  BY <1>4 DEF AnswersMatch
<1> QED BY <1>1, <1>4, <1>5 DEF InTurn

LEMMA Inductive == Spec => []IInv
<1>1. IInv /\ [Next]_vars => IInv'
  BY NextTypeOK, NextInTurn DEF IInv
<1> QED BY InitIInv, <1>1, PTL DEF Spec

-----------------------------------------------------------------------------
\* The state of a session and the operations on it have values of their types.
THEOREM TypeCorrect == Spec => []TypeOK
<1>1. IInv => TypeOK
  BY DEF IInv
<1> QED BY Inductive, <1>1, PTL

\* Answers come in the order of the requests, each built from the fields of
\* its own request, until a reset overtakes a handler.
THEOREM AnswersMatchCorrect == Spec => []AnswersMatch
<1>1. IInv => AnswersMatch
  BY DEF IInv, InTurn
<1> QED BY Inductive, <1>1, PTL

\* Without a strand, one read, handler, task or answer has the session,
\* beside handlers that return, until a reset overtakes a handler.
THEOREM HalfDuplexCorrect == Spec => []HalfDuplex
<1>1. ASSUME IInv PROVE HalfDuplex
  <2> DEFINE user == {t \in Busy : ~Returning(t)}
  <2>1. Cardinality({}) = 0 /\ \A a : Cardinality({a}) = 1
    BY FS_EmptySet, FS_Singleton
  <2>2. Quiet({}) => user = {}
    BY DEF Quiet, Busy
  <2>3. Idle({}) => user = {}
    BY DEF Idle, Busy
  <2>4. ASSUME NEW t \in IOThread, Idle({t}), io[t].pc # "idle", ~Returning(t)
        PROVE  user = {t}
    BY <2>4 DEF Idle, Busy
  <2>5. ASSUME NEW t \in IOThread, Quiet({t}), io[t].pc = "reset"
        PROVE  user = {t}
    BY <2>5 DEF Quiet, Busy, Returning
  <2>6. ASSUME Cardinality(jobs) + Cardinality(posted) + Cardinality(writing)
                 + Cardinality(user) + reads <= 1
        PROVE  HalfDuplex
    BY <2>6 DEF HalfDuplex
  <2> HIDE DEF user
  <2>7. CASE Reading
    <3>1. Cardinality(jobs) = 0 /\ Cardinality(posted) = 0
          /\ Cardinality(writing) = 0 /\ Cardinality(user) = 0 /\ reads = 1
      BY <2>1, <2>3, <2>7 DEF Reading, NoAnswer
    <3> QED BY <2>6, <3>1
  <2>8. CASE Owing
    <3>1. Cardinality(user) = 0 /\ reads = 0
      BY <2>1, <2>2, <2>8 DEF Owing
    <3>2. \/ Cardinality(jobs) = 1 /\ posted = {} /\ writing = {}
          \/ jobs = {} /\ Cardinality(posted) = 1 /\ writing = {}
          \/ jobs = {} /\ posted = {} /\ Cardinality(writing) = 1
      BY <2>1, <2>8 DEF Owing
    <3>3. \/ Cardinality(jobs) = 1 /\ Cardinality(posted) = 0
             /\ Cardinality(writing) = 0
          \/ Cardinality(jobs) = 0 /\ Cardinality(posted) = 1
             /\ Cardinality(writing) = 0
          \/ Cardinality(jobs) = 0 /\ Cardinality(posted) = 0
             /\ Cardinality(writing) = 1
      BY <2>1, <3>2
    <3> QED BY <2>6, <3>1, <3>3
  <2>9. ASSUME NEW t \in IOThread, Parsing(t) \/ Between(t) \/ Resetting(t)
        PROVE  HalfDuplex
    <3>1. user = {t} /\ reads = 0 /\ NoAnswer
      BY <2>4, <2>5, <2>9 DEF Parsing, Between, Resetting, Returning
    <3>2. Cardinality(jobs) = 0 /\ Cardinality(posted) = 0
          /\ Cardinality(writing) = 0 /\ Cardinality(user) = 1
      BY <2>1, <3>1 DEF NoAnswer
    <3> QED BY <2>6, <3>1, <3>2
  <2>10. CASE Dropped
    <3>1. Cardinality(jobs) = 0 /\ Cardinality(posted) = 0
          /\ Cardinality(writing) = 0 /\ Cardinality(user) = 0 /\ reads = 0
      BY <2>1, <2>2, <2>10 DEF Dropped, NoAnswer
    <3> QED BY <2>6, <3>1
  <2>11. CASE overtaken
    BY <2>11 DEF HalfDuplex
  <2> QED BY <1>1, <2>7, <2>8, <2>9, <2>10, <2>11 DEF IInv, InTurn, Owner
<1> QED BY Inductive, <1>1, PTL

\* A session ends only after the client closed it, or sent a request that is
\* malformed or has no answer, or a reset overtook a handler.
THEOREM DroppedForCauseCorrect == Spec => []DroppedForCause
<1>1. ASSUME IInv PROVE DroppedForCause
  <2> SUFFICES ASSUME Gone, ~overtaken PROVE Cause
    BY DEF DroppedForCause, Cause
  <2>1. reads = 0 /\ jobs = {} /\ posted = {} /\ writing = {}
    BY DEF Gone
  <2>2. \A t \in IOThread : io[t].pc = "idle"
    BY DEF Gone, Busy
  <2>3. Owner
    BY <1>1 DEF IInv, InTurn
  <2>4. ~Reading /\ ~Owing
    <3>1. \A a : {a} # {}
      OBVIOUS
    <3>2. ~Owing
      BY <2>1, <3>1 DEF Owing
    <3> QED BY <2>1, <3>2 DEF Reading
  <2>5. \A t \in IOThread : ~(Parsing(t) \/ Between(t) \/ Resetting(t))
    BY <2>2 DEF Parsing, Between, Resetting
  <2> QED BY <2>3, <2>4, <2>5 DEF Owner, Dropped
<1> QED BY Inductive, <1>1, PTL
=============================================================================
