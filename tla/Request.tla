------------------------------- MODULE Request -------------------------------
(***************************************************************************)
(* What one request becomes in main.cpp: the spans the parser reports are  *)
(* collected into the fields of the session, the parameters are taken from *)
(* the URL and the body, a path and a method select an operation, and its  *)
(* return code an answer.  A session serves requests one after another.    *)
(*                                                                         *)
(* Text is a sequence of pieces: a piece is a name, a separator, an escape *)
(* or an opaque part, and a read ends between two of them.  The operations *)
(* are modelled by the codes they return for what they were given; the     *)
(* other components model what they do.                                    *)
(***************************************************************************)
EXTENDS UserList, Sequences, SequencesExt

CONSTANTS
  Letters,  \* the pieces of text that separate nothing
  Scripts,  \* the sequences of requests the client may send
  User      \* ids of users, integers

VARIABLES
  script,    \* the requests the client has not sent
  req,       \* the request the client has sent
  net,       \* what of it the server has not read
  url,       \* req_url
  field,     \* tmp_header_field
  headers,   \* headers
  body,      \* req_body
  params,    \* query_params
  complete,  \* message_complete
  answer,    \* the answer to req, or NoAnswer
  table,     \* the users in the database
  cut,       \* history: the spans of req that two reads have shared
  lists      \* history: the pages of users the client was given

session == <<url, field, headers, body, params, complete>>
requestVars == <<script, req, net, url, field, headers, body, params, complete,
                 answer, table, cut, lists>>

-----------------------------------------------------------------------------
(* The client.  A pair is a name and a value, or a name alone (bare).      *)
Json == <<"application/", "json">>
Form == <<"application/", "x-www-form-urlencoded">>
Lower == <<"content", "-type">>

\* A media type may have parameters; the server looks for it in the header.
Mentions(s, t) == \E i \in 0..(Len(s) - Len(t)) : SubSeq(s, i + 1, i + Len(t)) = t

Escaped(v) == [i \in DOMAIN v |-> CASE v[i] = "&" -> "%26"
                                    [] v[i] = " " -> "+"
                                    [] OTHER -> v[i]]

PairText(p) == IF p.bare THEN <<p.name>> ELSE <<p.name, "=">> \o Escaped(p.value)

FormText(ps) ==
  FlattenSeq([i \in DOMAIN ps |-> (IF i = 1 THEN <<>> ELSE <<"&">>) \o PairText(ps[i])])

JsonText(ps) ==
  FlattenSeq([i \in DOMAIN ps |-> <<"{", ps[i].name, ":">> \o ps[i].value]) \o <<"}">>

UrlText(r) ==
  r.path \o (IF r.query = <<>> THEN <<>> ELSE <<"?">> \o FormText(r.query))

BodyText(r) ==
  CASE Mentions(r.type, Json) -> JsonText(r.post)
    [] Mentions(r.type, Form) -> FormText(r.post)
    [] OTHER -> <<>>

\* A span is its pieces and the separator after it.
Span(s, text) ==
  [i \in 1..(Len(text) + 1) |->
     [span |-> s, piece |-> IF i <= Len(text) THEN text[i] ELSE "end"]]

Stream(r) ==
  Span("url", UrlText(r))
    \o (IF r.type = <<>> THEN <<>>
        ELSE Span("field", r.header) \o Span("value", r.type))
    \o Span("body", BodyText(r))

\* What a client may send.  A piece that separates, or stands for a separator,
\* occurs where the formats have it; names are given once, and values of
\* parameters the body has are written in the format the header names.
Word  == Letters \cup {"=", "&", " "}
Piece == Word \cup {"%26", "+", "{", ":", "}"}

Pair == {p \in [name : Letters, bare : BOOLEAN, value : Seq(Word)] :
           p.bare => p.value = <<>>}

Pairs == {ps \in Seq(Pair) :
            \A i, j \in DOMAIN ps : ps[i].name = ps[j].name => i = j}

Requests ==
  {r \in [method : {"GET", "POST"}, path : Seq(Letters), query : Pairs,
          type : Seq(Letters), header : Seq(Letters), post : Pairs] :
     /\ r.path # <<>>
     /\ r.type = <<>> <=> r.header = <<>>
     /\ ~(Mentions(r.type, Json) /\ Mentions(r.type, Form))
     /\ Mentions(r.type, Json) => \A i \in DOMAIN r.post : ~r.post[i].bare
     /\ ~Mentions(r.type, Json) /\ ~Mentions(r.type, Form) => r.post = <<>>}

ASSUME RequestAssumption ==
  /\ \A c \in {"?", "end", "=", "&", "%26", "+"} : c \notin Letters
  /\ Scripts \subseteq Seq(Requests)
  /\ User \subseteq Nat

-----------------------------------------------------------------------------
(* url_decode, parse_params and parse_post_params.                         *)
Decoded(s) == [i \in DOMAIN s |-> CASE s[i] = "%26" -> "&"
                                    [] s[i] = "+" -> " "
                                    [] OTHER -> s[i]]

\* The first place of a piece at or after pos; 0 is npos.
Find(s, piece, pos) ==
  IF \E i \in pos..Len(s) : s[i] = piece
    THEN CHOOSE i \in pos..Len(s) : s[i] = piece /\ \A j \in pos..(i - 1) : s[j] # piece
    ELSE 0

NoParams == <<>>

\* The parameters of f, and those of g that f does not have.
Over(f, g) ==
  [k \in DOMAIN f \cup DOMAIN g |-> IF k \in DOMAIN f THEN f[k] ELSE g[k]]

\* A value ends at the next '&'.  When that is before the '=' (a bare name),
\* the length wraps and substr takes all that follows.
ToTheEnd(s, eq, amp) == Len(s)  \* fault: does not look for the '&'
ValueEnd(s, eq, amp) == IF amp > eq THEN amp - 1 ELSE Len(s)

\* The loop reads a pair after each '&' as long as there is a '=', and the
\* last pair of a name is the one that stays.
Split(s) ==
  LET starts == {1} \cup {i + 1 : i \in {j \in DOMAIN s : s[j] = "&"}}
      read == {pos \in starts : Find(s, "=", pos) # 0}
      Key(pos) == Decoded(SubSeq(s, pos, Find(s, "=", pos) - 1))
      Value(pos) ==
        LET eq == Find(s, "=", pos) amp == Find(s, "&", pos)
        IN Decoded(SubSeq(s, eq + 1, ValueEnd(s, eq, amp)))
  IN [k \in {Key(pos) : pos \in read} |-> Value(Max({pos \in read : Key(pos) = k}))]

QueryParams(u) ==
  LET q == Find(u, "?", 1)
  IN IF q = 0 THEN NoParams ELSE Split(SubSeq(u, q + 1, Len(u)))

\* json::parse is the inverse of what the client wrote.
Extracted == {"username", "password", "token", "device_name"}

JsonParams(b) ==
  IF b # JsonText(req.post) THEN NoParams
  ELSE LET in(n) == \E i \in DOMAIN req.post : req.post[i].name = n
           val(n) == req.post[CHOOSE i \in DOMAIN req.post : req.post[i].name = n].value
       IN [k \in {<<n>> : n \in {x \in Extracted : in(x)}} |-> val(k[1])]

\* The map is searched for the name in lower case.
PostParams(h, b) ==
  IF Lower \notin DOMAIN h THEN NoParams
  ELSE CASE Mentions(h[Lower], Form) -> Split(b)
         [] Mentions(h[Lower], Json) -> JsonParams(b)
         [] OTHER -> NoParams

Param(n) == IF <<n>> \in DOMAIN params THEN params[<<n>>] ELSE <<>>

-----------------------------------------------------------------------------
(* Routing.                                                                *)
Path(u) == LET q == Find(u, "?", 1) IN IF q = 0 THEN u ELSE SubSeq(u, 1, q - 1)

PostRoutes == <<
  <<"/admin", "/login">>, <<"/admin", "/user", "/list">>, <<"/login">>,
  <<"/register">>, <<"/get_mail">>, <<"/get_token">>, <<"/user", "/my_info">>,
  <<"/user", "/verify_token">>, <<"/web", "/vk_user">>, <<"/web", "/get_token">>,
  <<"/web", "/sever", "/list">> >>

Route(method, path) ==
  CASE path = <<"/">> /\ method = "GET" -> 12
    [] \E i \in DOMAIN PostRoutes : PostRoutes[i] = path /\ method = "POST"
         -> CHOOSE i \in DOMAIN PostRoutes : PostRoutes[i] = path
    [] path = <<"/status">> /\ method = "GET" -> 13
    [] path \in {<<"/favicon.ico">>, <<"/robots.txt">>} -> -1
    [] OTHER -> 0

\* stoi, and 1 for what it refuses.
Numbers == [n \in {"-1", "0", "1", "2", "3", "5", "9"} |->
              CASE n = "-1" -> -1 [] n = "0" -> 0 [] n = "1" -> 1 [] n = "2" -> 2
                [] n = "3" -> 3 [] n = "5" -> 5 [] n = "9" -> 9]
Page == LET v == Param("page")
        IN IF v # <<>> /\ v[1] \in DOMAIN Numbers THEN Numbers[v[1]] ELSE 1

-----------------------------------------------------------------------------
(* The operations 1 to 11 and the codes they return.                       *)
Credentials == {1, 3, 4}
TokenOps    == {2, 5, 6, 7, 8, 9, 10}

Returned == << {0, 3, 4, 5, 6, 7}, {0, 2}, {0, 3, 4, 5, 6}, {0, 1, 3, 4, 5},
               {0, 2}, {0, 2, 3, 5}, {0, 2}, {0, 3, 4}, {0, 2, 3, 4, 5},
               {0, 2, 3, 5}, {0} >>

\* The device name of a request without one is not in the white list of log.
DeviceLegal == Param("device_name") # <<>>

Codes(op) ==
  CASE op \in Credentials /\ <<>> \in {Param("username"), Param("password")} -> {2}
    [] op \in TokenOps /\ Param("token") = <<>> -> {1}
    [] op = 3 /\ ~DeviceLegal -> {3, 4}
    [] OTHER -> Returned[op]

\* The arms of the switch of each operation.
NoFive == << 1..6, {1}, 1..6, 1..5, {1, 3}, 1..4, 1..3, {1, 2}, {1, 2, 4},
              1..4, {} >>  \* fault: no arm for a user that is not found
Bad == << 1..6, {1}, 1..6, 1..5, {1, 3}, 1..4, 1..3, {1, 2}, {1, 2, 4, 5},
          1..4, {} >>
Denied == << {7}, {2}, {}, {}, {2}, {}, {}, {4}, {3}, {}, {} >>
Failed == << {}, {3}, {}, {}, {4}, {}, {}, {3}, {}, {}, {} >>

AnswerCode(op, ret) ==
  CASE op \notin 1..11 \/ ret = 0 -> 200
    [] op \in 1..11 /\ ret \in Bad[op] -> 400
    [] op \in 1..11 /\ ret \in Denied[op] -> 403
    [] OTHER -> 500

-----------------------------------------------------------------------------
NoAnswer == [op |-> 0, ret |-> 0, code |-> 0]
NoRequest == [method |-> "GET", path |-> <<>>, query |-> <<>>, type |-> <<>>,
              header |-> <<>>, post |-> <<>>]

Send ==
  /\ req = NoRequest /\ script # <<>>
  /\ req' = Head(script) /\ script' = Tail(script)
  /\ net' = Stream(req')
  /\ UNCHANGED <<session, answer, table, cut, lists>>

\* What the callbacks are given of a span: the pieces in this read, and
\* nothing when it holds only the separator.
In(s, read) == \E i \in DOMAIN read : read[i].span = s
Part(s, read) ==
  LET mine == {i \in DOMAIN read : read[i].span = s /\ read[i].piece # "end"}
      part == IF mine = {} THEN <<>> ELSE SubSeq(read, Min(mine), Max(mine))
  IN [i \in DOMAIN part |-> part[i].piece]

Assign(old, s, read) == IF In(s, read) THEN Part(s, read) ELSE old

Read ==
  \E n \in 1..Len(net) :
    LET read == SubSeq(net, 1, n)
        rest == SubSeq(net, n + 1, Len(net))
    IN /\ ~complete
       /\ net' = rest
       /\ cut' = cut \cup {s \in {"url", "field", "value"} : In(s, read) /\ In(s, rest)}
       /\ url' = Assign(url, "url", read)
       /\ field' = Assign(field, "field", read)
       /\ headers' = IF In("value", read)
                       THEN Over([f \in {field'} |-> Part("value", read)], headers)
                       ELSE headers
       /\ body' = body \o Part("body", read)
       /\ complete' = (rest = <<>>)
       /\ params' = IF complete'
                      THEN Over(PostParams(headers', body'),
                                Over(QueryParams(url'), params))
                      ELSE params
       /\ UNCHANGED <<script, req, answer, table, lists>>

\* build_response, or the 500 of an operation that throws.
Listed == [page |-> Page, rows |-> Rows(table, Page), table |-> table]

Respond ==
  LET op == Route(req.method, Path(url)) IN
  /\ complete /\ answer = NoAnswer /\ op # -1
  /\ \/ op \notin 1..11 /\ answer' = [op |-> op, ret |-> 0, code |-> 200]
        /\ UNCHANGED lists
     \/ /\ op \in 1..11
        /\ \E ret \in Codes(op) :
             /\ op = 2 /\ ret = 0 => ~Refused(Page)
             /\ answer' = [op |-> op, ret |-> ret, code |-> AnswerCode(op, ret)]
             /\ lists' = IF op = 2 /\ ret = 0 THEN Append(lists, Listed) ELSE lists
     \/ op \in 1..11 /\ answer' = [op |-> op, ret |-> -1, code |-> 500]
        /\ UNCHANGED lists
  /\ UNCHANGED <<script, req, net, session, table, cut>>

\* fault: the parameters are kept
KeepParams == params
Cleared == NoParams

\* The write is done: reset_parser.
ResetParser ==
  /\ answer # NoAnswer /\ complete
  /\ url' = <<>> /\ field' = <<>> /\ headers' = <<>> /\ body' = <<>>
  /\ params' = Cleared
  /\ complete' = FALSE
  /\ req' = NoRequest /\ answer' = NoAnswer /\ cut' = {}
  /\ UNCHANGED <<script, net, table, lists>>

\* Another session registers a user; ids are given out in order, but rows
\* may be committed out of order.
Registered ==
  /\ lists # <<>>
  /\ \E u \in User \ table : table' = table \cup {u}
  /\ UNCHANGED <<script, req, net, session, answer, cut, lists>>

RequestInit ==
  /\ script \in Scripts /\ req = NoRequest /\ net = <<>>
  /\ url = <<>> /\ field = <<>> /\ headers = <<>> /\ body = <<>>
  /\ params = NoParams /\ complete = FALSE
  /\ answer = NoAnswer
  /\ table \in SUBSET User
  /\ cut = {} /\ lists = <<>>

RequestNext == Send \/ Read \/ Respond \/ ResetParser \/ Registered

RequestSpec == RequestInit /\ [][RequestNext]_requestVars

-----------------------------------------------------------------------------
\* What the client gave for a name.
Gives(ps, n) == \E i \in DOMAIN ps : ps[i].name = n /\ ~ps[i].bare

Given(ps, n) ==
  IF Gives(ps, n)
    THEN ps[CHOOSE i \in DOMAIN ps : ps[i].name = n /\ ~ps[i].bare].value
    ELSE <<>>

\* The body counts before the URL; of JSON only four names are extracted.
Meant(n) ==
  IF Gives(req.post, n) /\ (Mentions(req.type, Form) \/ n \in Extracted)
    THEN Given(req.post, n) ELSE Given(req.query, n)

Names == Extracted \cup {"page"}

(* A request whose URL and headers were each read in one piece is executed *)
(* as the client meant it: escapes, bare names and a cut inside the body   *)
(* do no harm (main.cpp:153-207).  A URL cut anywhere, also just before    *)
(* the space that ends it, loses its beginning, and a header its name or   *)
(* value (main.cpp:109-125): then nothing is promised, not even the path.  *)
ParamsArrive ==
  complete =>
    /\ "url" \notin cut => Path(url) = req.path
    /\ cut = {} /\ req.header \in {<<>>, Lower} =>
         \A n \in Names : Param(n) = Meant(n)

(* However it was cut, a request is executed with no value but its own:    *)
(* nothing of the request before it on the connection, and never a part    *)
(* of a value (main.cpp:559-569).                                          *)
NothingInherited ==
  complete => \A n \in Names :
    Param(n) \in {<<>>, Given(req.query, n), Given(req.post, n)}

(* The codes of the operations are those build_response has an arm for,    *)
(* but for the failed UPDATE of gettoken and the removed user of           *)
(* webgettoken: 5 is reported as unexpected (main.cpp:406,496).            *)
NoUnexpectedCode ==
  answer.op \in 1..11 /\ answer.ret > 0 =>
    \/ answer.ret \in Bad[answer.op] \cup Denied[answer.op] \cup Failed[answer.op]
    \/ answer.op \in {6, 10} /\ answer.ret = 5

(* A user in the table when a page was read is on that page, before it, on *)
(* the next page or after it: reading on misses nobody, and repeats        *)
(* somebody only when a smaller id was committed in between.  It holds for *)
(* the pages whose offset fits an int (ad_userlist.cpp:19).                *)
PagesJoin ==
  \A i, j \in DOMAIN lists :
    LET a == lists[i] b == lists[j] IN
    i < j /\ a.page >= 1 /\ b.page = a.page + 1 /\ Exact(b.page) =>
      /\ a.rows \cap b.rows # {} =>
           \E u \in b.table \ a.table, v \in a.rows : u < v
      /\ \A u \in a.table :
           (\E v \in a.rows : v < u) /\ u \notin a.rows
             => u \in b.rows \/ \A v \in b.rows : v < u
=============================================================================
