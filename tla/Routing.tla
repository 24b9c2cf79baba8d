------------------------------ MODULE Routing ------------------------------
(***************************************************************************)
(* How a request's url finds its view: UrlParser (urlparser.h), Router and *)
(* Blueprint (bin/netroute) and the interceptors UserMain::main registers. *)
(*                                                                         *)
(* A text is a sequence of symbols: "/", "?", ".", "&", "=" and "http:"    *)
(* where the code looks for them, and words.  Letter case, which matching  *)
(* ignores, the host and the port, which nobody asks for, are left out.    *)
(***************************************************************************)
EXTENDS Naturals, Sequences, SequencesExt

IsText(text) == text \in Seq(Range(text))
Has(text, symbol) == \E i \in DOMAIN text : text[i] = symbol

(* The text from the first, and from the last, occurrence of a symbol; all *)
(* that comes before it, and up to it.                                     *)
IndexOf(text, symbol) == CHOOSE i \in DOMAIN text :
  text[i] = symbol /\ \A j \in 1..(i - 1) : text[j] # symbol
LastIndexOf(text, symbol) == CHOOSE i \in DOMAIN text :
  text[i] = symbol /\ \A j \in (i + 1)..Len(text) : text[j] # symbol
From(text, i) == SubSeq(text, i, Len(text))

-----------------------------------------------------------------------------
(* do_request(): a form's body becomes the query of the url.               *)
Relative(url, cgi, body) ==
  IF ~cgi THEN url
  ELSE (IF Has(url, "?") THEN url ELSE url \o <<"?">>) \o body

(* UrlParser::doParse: what is behind the protocol has to start with a     *)
(* slash, or the process exits; fullpath keeps the question mark, and with *)
(* it the protocol that was skipped a moment ago.                          *)
Absolute(url) == Len(url) > 0 /\ url[1] = "http:"

Parses(url) == IF Absolute(url) THEN Has(From(url, 4), "/")
               ELSE Len(url) > 0 /\ url[1] = "/"

FullPath(url) == IF Has(url, "?") THEN SubSeq(url, 1, IndexOf(url, "?"))
                 ELSE IF Absolute(url)
                      THEN From(url, 3 + IndexOf(From(url, 4), "/"))
                      ELSE url

Path(url) == From(FullPath(url), IndexOf(FullPath(url), "/"))

(* string_util::split: getline gives no item after the last separator, and *)
(* none for an empty text.                                                 *)
Split(text, sep) ==
  LET starts == {i \in 1..Len(text) : i = 1 \/ text[i - 1] = sep}
      Item(i) == SubSeq(text, i, Min({j \in i..Len(text) : text[j] = sep}
                                       \union {Len(text) + 1}) - 1)
      first == SetToSortSeq(starts, <)
  IN [k \in DOMAIN first |-> Item(first[k])]

(* The parameters are parsed when the query has more than one.             *)
QueryOf(url) == IF Has(url, "?") THEN From(url, IndexOf(url, "?") + 1) ELSE << >>
HasParams(url) == Has(QueryOf(url), "&")

(* A line that is no key with at most one value repeats the line before,   *)
(* and of two lines with the same key the later one counts; operator[] of  *)
(* a key that is not there gives an empty value.                           *)
Param(url, key) ==
  LET lines == Split(QueryOf(url), "&")
      Told(k) == Len(Split(lines[k], "=")) \in {1, 2}
      KeyValue(k) ==
        LET told == {j \in 1..k : Told(j)}
            line == Split(lines[Max(told)], "=")
        IN IF told = {} THEN << << >>, << >> >>
           ELSE <<line[1], IF Len(line) = 2 THEN line[2] ELSE << >> >>
      found == {k \in DOMAIN lines : KeyValue(k)[1] = key}
  IN IF HasParams(url) /\ found # {} THEN KeyValue(Max(found))[2] ELSE << >>

(* ParsedUrl::isResRequest: a dot behind the last slash of the whole url,  *)
(* its query included.                                                     *)
IsResRequest(url) == Has(url, "/") /\ Has(From(url, LastIndexOf(url, "/")), ".")

-----------------------------------------------------------------------------
(* registerInterceptor(Router) makes a blueprint of the router's own name  *)
(* and takes its suffix from it.                                           *)
Router(suffix, view) == [suffix |-> suffix, view |-> view]

BlueprintOf(router) ==
  [name |-> router.suffix, routers |-> << [router EXCEPT !.suffix = << >>] >>]

Interceptors ==
  << BlueprintOf(Router(<<"/", "href">>, "href")),
     [name |-> <<"/">>,
      routers |-> << Router(<<"/", "register">>, "register"),
                     Router(<<"/", "login">>, "login"),
                     Router(<<"/", "req_picture">>, "req_picture"),
                     Router(<<"/", "req_video">>, "req_video"),
                     Router(<<"/", "follow">>, "follow") >>] >>

(* Router::getFullRoute.                                                   *)
FaultyFullRoute(prefix, suffix) == prefix \o suffix
FullRoute(prefix, suffix) ==
  IF prefix = <<"/">> THEN suffix
  ELSE IF suffix = << >> THEN prefix \o <<"/">>
  ELSE prefix \o <<".">> \o Tail(suffix)

(* Router::canDealWith and Blueprint::canDealWith: the first router of the *)
(* first blueprint whose full route the path begins with.  Before it asks  *)
(* a blueprint, every worker writes the prefixes of its routers again, the *)
(* same text over the same text (Blueprint::set_prefix, without a lock);   *)
(* that is taken to do no harm.                                            *)
CanDealWith(route, path) == IsPrefix(route, path)

Candidates(path) ==
  {x \in (DOMAIN Interceptors) \X (1..5) :
     LET blueprint == Interceptors[x[1]]
     IN /\ x[2] \in DOMAIN blueprint.routers
        /\ CanDealWith(blueprint.name, path)
        /\ CanDealWith(FullRoute(blueprint.name, blueprint.routers[x[2]].suffix), path)}

Before(x, y) == x[1] < y[1] \/ (x[1] = y[1] /\ x[2] <= y[2])

Dispatch(path) ==
  IF Candidates(path) = {} THEN "none"
  ELSE LET first == CHOOSE x \in Candidates(path) : \A y \in Candidates(path) : Before(x, y)
       IN Interceptors[first[1]].routers[first[2]].view
=============================================================================
