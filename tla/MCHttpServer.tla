---------------------------- MODULE MCHttpServer ----------------------------
(* HttpServer with a few clients: the requests they send. *)
EXTENDS HttpServer

CONSTANTS c1, c2

Plain(n, v) == [name |-> n, first |-> v, folds |-> <<>>]
Length(digits) == Plain(<<"content-length">>, digits)
\* A value that goes on in the next lines, one of them empty.
Folded == [name |-> <<"host">>, first |-> <<"x">>,
           folds |-> << [blanks |-> <<"sp">>, text |-> <<>>],
                        [blanks |-> <<"sp", "tab">>, text |-> <<"y">>] >>]

Get(uri) == [method |-> <<"GET">>, destination |-> uri, headers |-> <<Folded>>, body |-> <<>>]
Post(uri, text, hs) ==
    [method |-> <<"P", "OST">>, destination |-> uri, headers |-> hs, body |-> text]

Sending == <<"/api", "/send">>
Removal == <<"/api", "/device", "/remove">>
Two == <<"[", "u1", ",", "u2", "]">>

WordsUsed == {"GET", "OST", "host", "x", "y", "content-length", "-"}
CharactersUsed ==
    NameTokens \cup Controls \cup Uuids \cup Strings
    \cup {"sp", ":", "/", ",", "[", "]", "{", "}", "number", "/api", "/other", "/device", "/register",
          "/gcm", "/remove", "/send", "/redeliver", "/list", "_apns", "/leavers", "/nowhere"}

\* Whole requests to every function, and to none; requests with a wrong or a nested entry,
\* or with something after their value; requests that declare less or more than they
\* send, nothing, or no number.
ManyRequests ==
    {Get(<<"/api", "/list">>), Get(<<"/api", "/list", "_apns">>),
     Get(<<"/api", "/leavers">>), Get(<<"/api", "/nowhere">>), Get(<<"/other">>),
     Post(<<"/api", "/device", "/register", "/gcm">>, <<"x">>, <<Length(<<"1">>)>>),
     Post(Removal, Two, <<Length(<<"5">>)>>),
     Post(Removal, Two, <<Folded, Length(<<"5">>)>>),
     Post(Removal, <<"[", "u1", ",", "number", "]">>, <<Length(<<"5">>)>>),
     Post(Removal, <<"[", "u1", ",", "[", "u2", "]", "]">>, <<Length(<<"7">>)>>),
     Post(<<"/api", "/redeliver">>, <<"[", "u2", ",", "u1", ",", "text", "]">>,
          <<Length(<<"7">>)>>),
     Post(<<"/api", "/redeliver">>, <<"[", "u2", "]", "sp", "x">>, <<Length(<<"5">>)>>),
     Post(Sending, <<"{", "uuid", ":", "u1", ",", "msg", ":", "text", "}">>,
          <<Length(<<"9">>)>>),
     Post(Sending, <<"{", "uuid", ":", "u1", ",", "uuid", ":", "u2", "}">>,
          <<Length(<<"9">>)>>),
     Post(Sending, <<"{", "uuid", ":", "u1", ",", "text", ":", "{", "uuid", ":", "u2", "}", "}">>,
          <<Length(<<"1", "3">>)>>),
     Post(Sending, <<"{", "tag", ":", "text", "}">>, <<Length(<<"5">>)>>),
     Post(Sending, <<"{", "uuid", ":", "text", "}">>, <<Length(<<"5">>)>>),
     Post(Sending, <<"[", "u1", "]">>, <<Length(<<"3">>)>>),
     Post(Removal, Two, <<Length(<<"4">>)>>),
     Post(Removal, Two \o <<"cr", "lf">>, <<Length(<<"5">>)>>),
     Post(Removal, Two, <<Length(<<"6">>)>>),
     Post(Removal, <<>>, <<Length(<<"0">>)>>),
     Post(Removal, Two, <<Plain(<<"content-length">>, <<"-", "5">>)>>),
     Post(Removal, Two, <<Plain(<<"content-length">>, <<"x">>)>>),
     Post(Removal, Two, <<Plain(<<"host">>, <<"x">>)>>)}

OneRequest == {Post(Removal, Two, <<Folded, Length(<<"5">>)>>)}

FewRequests == {Post(Sending, <<"{", "uuid", ":", "u1", "}">>, <<Length(<<"5">>)>>)}

SomeRequests == [c \in Conns |-> IF c = c1 THEN ManyRequests ELSE FewRequests]

=============================================================================
