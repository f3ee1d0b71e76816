------------------------------ MODULE MCRoutes ------------------------------
(***************************************************************************)
(* Routes for TLC: the functions of one database, the sites built from      *)
(* them, and the pairs of requests sent to each.                            *)
(***************************************************************************)
EXTENDS Routes, SequencesExt

CONSTANTS r1, r2

AllRequests == {r1, r2}
AllPlaceholders == {"{p}", "{q}"}
DotNames == {".env"}
UploadDirs == <<"up">>
UploadName == Name(<<"up">>, "f", <<"txt">>)

-----------------------------------------------------------------------------
(* Functions.                                                              *)

NoDecl == [path |-> NoPath, methods |-> <<>>, template |-> "", stream |-> FALSE, middleware |-> FALSE]
Decl(path, methods) == [NoDecl EXCEPT !.path = path, !.methods = methods]
Func(key, decl, ins, outs, ret) ==
  [key |-> key, plain |-> TRUE, comment |-> [kind |-> "decl", decl |-> decl], ins |-> ins, outs |-> outs,
   odd |-> FALSE, ret |-> ret, set |-> FALSE, anon |-> FALSE]
Full(key, decl) == Func(key, decl, <<<<"jsonb", "req">>>>, <<"jsonb", "jsonb">>, "record")
Gate(key, path) == Full(key, [Decl(path, <<>>) EXCEPT !.middleware = TRUE])

Root == Gate(21, <<>>)
Inner == Gate(1, <<"app">>)
Wild == Gate(2, <<"{q}", "deep">>)
Page == [Full(3, Decl(<<"app", "page">>, <<"GET">>)) EXCEPT !.anon = TRUE]
Themed == Func(4, [Decl(<<"app", "one">>, <<>>) EXCEPT !.template = "t"], <<>>, <<>>, "text")
Upload == Full(5, [Decl(<<"app", "up">>, <<>>) EXCEPT !.stream = TRUE])
Bytes == Func(6, Decl(<<"app", "put">>, <<>>), <<<<"json", "req">>, <<"bytea", "b">>>>, <<>>, "int")
Parts == Func(7, Decl(<<"app", "parts">>, <<"POST", "PUT">>), <<<<"json", "req">>, <<"bytea[]", "b">>>>, <<>>, "bytea")
AnyPage == Func(8, Decl(<<"{p}">>, <<>>), <<<<"json", "req">>, <<"text", "{p}">>>>, <<>>, "mime/text")
Deep == Func(9, Decl(<<"app", "deep">>, <<>>), <<>>, <<>>, "json")

\* Functions that get no route: two that collide, a reserved path, and
\* shapes that are refused.
Clash == [i \in 1..2 |-> Func(9 + i, Decl(<<"app", "{p}">>, <<"GET">>), <<>>, <<>>, "text")]
Bad == <<Func(12, Decl(<<"rel", "x">>, <<>>), <<>>, <<>>, "text"),
        Func(13, [Decl(<<"app", "b">>, <<>>) EXCEPT !.template = "t"], <<>>, <<>>, "bytea"),
        Func(14, Decl(<<"app", "c">>, <<>>), <<<<"text", "{q}">>>>, <<>>, "text"),
        Func(15, [Decl(<<"app", "d">>, <<>>) EXCEPT !.middleware = TRUE], <<>>, <<>>, "jsonb"),
        Func(16, Decl(<<"app", "e">>, <<"">>), <<>>, <<>>, "void"),
        [Func(17, NoDecl, <<>>, <<>>, "text") EXCEPT !.comment = [kind |-> "invalid", decl |-> NoDecl]],
        [Func(18, Decl(<<"app", "g">>, <<>>), <<>>, <<>>, "text") EXCEPT !.plain = FALSE]>>

\* An overload without a comment, introspected later, and a config entry
\* for a function that has a comment of its own.
Overload == [Func(9, NoDecl, <<<<"int", "x">>>>, <<>>, "int") EXCEPT !.comment = [kind |-> "none", decl |-> NoDecl]]
Configured == [k \in {8} |-> Decl(<<"{p}">>, <<"GET", "HEAD">>)]

Functions == <<Page, Themed, Upload, Bytes, Parts, AnyPage, Deep, Overload>> \o Clash \o Bad

Databases == [closed |-> Functions, open |-> Functions, gated |-> <<Inner, Root>> \o Functions, wild |-> <<Wild, Root>> \o Functions]

-----------------------------------------------------------------------------
(* Files, tokens and bodies.                                               *)

SiteDirs == <<{Name(<<"docs">>, "a", <<"txt">>), Name(<<"app", "docs">>, "index", <<"html">>)},
              {Name(<<"docs">>, "index", <<"html">>), Name(<<"docs">>, "b", <<"html">>),
               Name(<<"app">>, "hello", <<"html", "jet">>)}>>

Token(iat) == {[role |-> "alice", iat |-> iat, exp |-> iat + 10, auth |-> 1, by |-> "rel"]}
Renewable == Token(2)
Young == Token(9)
Expired == Token(0)

Body(ctype, size, parts) ==
  [ctype |-> ctype, size |-> size, known |-> TRUE, parts |-> parts, broken |-> FALSE, valid |-> TRUE]
NoBody == Body("none", 0, 0)
Blob == Body("binary", 1, 0)

Ask(method, path, token, body) ==
  [method |-> method, path |-> path, token |-> token, body |-> body, badQuery |-> FALSE,
   name |-> IF path = <<>> THEN Name(<<>>, "", <<>>) ELSE Name(Front(path), Last(path), <<>>)]
Named(ask, name) == [ask EXCEPT !.name = name]

-----------------------------------------------------------------------------
(* What functions answer.                                                  *)

Nothing == Empty
Pass == [Empty EXCEPT !.jwt = "null", !.header = "pass"]
Reject == [Empty EXCEPT !.status = 401, !.header = "reject"]
Login == [Empty EXCEPT !.status = 200, !.content = TRUE, !.jwt = "role"]
Mask == [Empty EXCEPT !.static = TRUE]
Theme == [Empty EXCEPT !.template = TRUE, !.header = "theme"]
To(path, overwrite, max) == [path |-> path, overwrite |-> overwrite, max |-> max]

Server(database, dirs, allowed, responses, decisions, old, faults) ==
  [functions |-> Databases[database], config |-> Configured, anonymous |-> database # "closed", dirs |-> dirs,
   allowed |-> allowed, responses |-> responses, decisions |-> decisions, old |-> old, faults |-> faults]

Varied == {Nothing, Pass, Reject, Login, Mask, Theme}
Placings == {To("unset", "", 2), To("escape", "", 2), To("f", "allow", 0), To("f", "disallow", 2)}

AllSites ==
  [race     |-> Server("open", SiteDirs, {}, {Login}, {To("f", "allow", 2), To("f", "", 2)}, TRUE, TRUE),
   newRace  |-> Server("open", SiteDirs, {}, {Login}, {To("f", "allow", 2)}, FALSE, TRUE),
   read     |-> Server("open", SiteDirs, {}, {Login}, {To("f", "allow", 2)}, TRUE, FALSE),
   meet     |-> Server("gated", SiteDirs, {}, {Nothing, Theme}, {}, FALSE, FALSE),
   gated    |-> Server("gated", SiteDirs, {}, Varied, Placings, TRUE, FALSE),
   wild     |-> Server("wild", SiteDirs, {3}, Varied, Placings, TRUE, FALSE),
   closed   |-> Server("closed", <<>>, {}, Varied, Placings, FALSE, FALSE)]

Only(name, a) == [site |-> name, asked |-> [r \in {r1} |-> a]]
At(name, a, b) == [site |-> name, asked |-> [r \in AllRequests |-> IF r = r1 THEN a ELSE b]]

\* Two uploads race to one path, and an upload races a reader of its file.
Putting == Ask("POST", <<"app", "up">>, Young, Blob)
Getting == Named(Ask("GET", <<"up", "f.txt">>, {}, NoBody), UploadName)
Racing == {At("race", Putting, Putting), At("newRace", Putting, Putting), At("read", Putting, Getting)}

\* Requests that hold two connections meet: queries and templates behind
\* gates, templates that query.
Meeting == {At("meet", Ask("POST", <<"rel">>, Renewable, NoBody), b) :
              b \in {Ask("GET", <<"app", "one">>, Renewable, NoBody), Ask("GET", <<"app", "hello">>, Young, NoBody)}}

Bodies == {NoBody, Blob, Body("json", 1, 0), Body("multipart", 1, 1), Body("multipart", 1, 2), Body("multipart", 2, 3),
           Body("badmultipart", 1, 0), Body("binary", 3, 0), [Body("binary", 3, 0) EXCEPT !.known = FALSE],
           [Body("json", 1, 0) EXCEPT !.valid = FALSE], [Body("multipart", 1, 0) EXCEPT !.broken = TRUE],
           [Body("binary", 1, 0) EXCEPT !.broken = TRUE]}

Asks == {Ask("POST", p, Renewable, b) : p \in {<<"app", "put">>, <<"app", "parts">>, <<"app", "up">>}, b \in Bodies}
          \cup {Ask("POST", <<"rel">>, t, b) : t \in {Renewable, Expired}, b \in {NoBody, [NoBody EXCEPT !.valid = FALSE]}}
          \cup {Ask("GET", p, t, NoBody) : t \in {{}, Young, Renewable}, p \in {<<"app", "page">>, <<"app", "one">>}}
          \cup {Ask("GET", p, Young, NoBody) :
                  p \in {<<"app", "deep">>, <<"app", "zz">>, <<"word">>, <<"docs", "b">>, <<"app", "docs">>, <<>>, <<"auth", "x">>,
                         <<"app", "hello">>, <<".env">>, <<"app", "g">>}}
          \cup {Named(Ask("GET", <<"docs", "">>, {}, NoBody), Name(<<"docs">>, "", <<>>)),
                Named(Ask("GET", <<"docs", "a.txt">>, {}, NoBody), Name(<<"docs">>, "a", <<"txt">>)),
                Ask("DELETE", <<"app", "page">>, {}, NoBody),
                [Ask("GET", <<"app", "page">>, Young, NoBody) EXCEPT !.badQuery = TRUE]}

\* One request, with all it may carry and be told.
Alone == {Only("gated", a) : a \in Asks}
           \cup {Only("wild", a) : a \in {x \in Asks : x.method = "GET"}}
           \cup {Only("closed", a) : a \in {x \in Asks : x.body \in {NoBody, Blob}}}

AllScenarios == Racing \cup Meeting \cup Alone
=============================================================================
