------------------------------ MODULE MCRequest ------------------------------
(* Small instances of Request for TLC.                                     *)
EXTENDS Request

OtherText == STRING \ {"?", "end", "=", "&", "%26", "+"}

P(n, v) == [name |-> n, bare |-> FALSE, value |-> v]
Bare(n) == [name |-> n, bare |-> TRUE, value |-> <<>>]

Plain(method, path, query) ==
  [method |-> method, path |-> path, query |-> query,
   type |-> <<>>, header |-> <<>>, post |-> <<>>]

Posted(path, query, type, header, post) ==
  [method |-> "POST", path |-> path, query |-> query,
   type |-> type, header |-> header, post |-> post]

Account == <<P("username", <<"ann">>), P("password", <<"a", "&", "b">>)>>
Device  == <<P("device_name", <<"my", " ", "phone">>)>>
Token   == <<P("token", <<"T1">>)>>

\* The request of logintest.js:10-17.
LoginTest ==
  Posted(<<"/login">>, <<>>, Json, <<"Content", "-Type">>, Account)

\* Two pages of users: one after the other, and pages whose offset wraps.
List(n) == Plain("POST", <<"/admin", "/user", "/list">>, Token \o <<P("page", <<n>>)>>)

PagePairs ==
  { <<List(a), List(b)>> : a \in {"-1", "1", "2", "5"}, b \in {"2", "3", "9"} }

\* JSON as browsers send it, with a parameter of the media type.
Utf8 == Json \o <<"; charset=utf-8">>

Rich == { Posted(<<"/login">>, <<>>, t, Lower, Account \o Device) : t \in {Form, Utf8} }

Others ==
  { Plain("POST", PostRoutes[i], Token) : i \in 5..11 }
  \cup { Plain("GET", p, <<Bare("debug")>> \o Token)
           : p \in {<<"/">>, <<"/status">>, <<"/favicon.ico">>, <<"/nowhere">>} }
  \cup { Posted(PostRoutes[i], <<>>, Form, Lower, Account \o Device) : i \in {1, 4} }
  \cup { Posted(<<"/login">>, <<>>, Form, Lower, Account),
         Posted(<<"/get_token">>, Token, Form, Lower, <<P("token", <<"T2">>)>>),
         LoginTest }

SafetyScripts ==
  PagePairs \cup { <<a, b>> : a \in Rich, b \in Others }

TestScripts == { <<a, LoginTest>> : a \in Rich }

(* logintest.js:14-18 sends a user name and a password as JSON, under the  *)
(* header Content-Type, and expects the login to be carried out: the       *)
(* operation is given the two.                                             *)
LoginTestUnderstood ==
  complete /\ cut = {} /\ req = LoginTest =>
    /\ Param("username") = Given(req.post, "username")
    /\ Param("password") = Given(req.post, "password")
=============================================================================
