------------------------------- MODULE MCSite -------------------------------
(***************************************************************************)
(* A small instance of Site, in three kinds of settings.  Requests of all  *)
(* kinds for the routes; users who log in, two of whom share a file and    *)
(* one of whom has too long a name; and users who register one name with   *)
(* different passwords, with a url that spoils the first parameter or with *)
(* a quote, and log in with it.                                            *)
(***************************************************************************)
EXTENDS Site

Get(url) == [method |-> "GET", url |-> url, body |-> << >>]
Post(url, body) == [method |-> "POST", url |-> url, body |-> body]
Form(user, pass) ==
  <<"user", "=">> \o user \o <<"&", "password", "=">> \o pass

(* For the routes: urls of all kinds, with and without a body.             *)
SomeUrls ==
  {Get(<<"/", "h", ".", "html">>), Get(<<"/", "href">>), Get(<<"/", "href", "/">>),
   Get(<<"login">>), Get(<<"http:", "/", "/", "host", "/", "follow", "?">>),
   Post(<<"/", "login", "?", "x">>, << >>),
   Post(<<"/", "register">>, Form(<<"cat">>, <<"p", ".">>)),
   Post(<<"/", "register", "?", "x">>, Form(<<"cat">>, <<"pw">>))}

(* For the pages: users who log in.                                        *)
Logins == {Post(<<"/", "login">>, Form(name, <<"pw">>)) :
             name \in {<<"ann">>, <<"bob">>, <<"ann", "/">>}}
SomeLogins == Logins \union {Post(<<"/", "login">>, Form(<<"long">>, <<"pw">>)),
                             Get(<<"/", "h", ".", "html">>)}

(* For the table: users who register.                                      *)
CatLogsIn == {Post(<<"/", "login">>, Form(<<"cat">>, <<"pw">>))}
CatRegisters ==
  {Post(<<"/", "register">>, Form(<<"cat">>, pass)) : pass \in {<<"pw">>, <<"key">>}}
SomeForms == CatLogsIn \union CatRegisters
               \union {Post(<<"/", "register", "?", "x">>, Form(<<"cat">>, <<"pw">>)),
                       Post(<<"/", "register">>, Form(<<"cat">>, <<"p", "'">>))}

SomeRequests == SomeUrls \union SomeLogins \union SomeForms

(* A line of a header that the pointer is in the middle of.                *)
SomeLeftovers == {<< >>, <<"q", "=", "0", ".", "9">>, <<"a", "=", "b", "&", "c">>}

SharedFile == [n \in Names |-> IF n = <<"ann", "/">> THEN <<"ann">> ELSE n]

ThreeUsers == [i \in 1..3 |-> <<(<< <<"ann">>, <<"bob">>, <<"ann", "/">> >>)[i], <<"pw">> >>]
CatsRow == {<< <<"cat">>, <<"q">> >>}

Good(asks) == [asks |-> asks, unique |-> TRUE, reliable |-> TRUE, room |-> TRUE]
SmallSettings ==
  {Good(SomeUrls), Good(SomeLogins), Good(SomeForms),
   [Good(Logins) EXCEPT !.room = FALSE],
   [Good(CatLogsIn \union CatRegisters) EXCEPT !.unique = FALSE],
   [Good(CatLogsIn \union CatRegisters) EXCEPT !.reliable = FALSE]}

Symmetry == Permutations(Workers) \union Permutations(Objects)
=============================================================================
