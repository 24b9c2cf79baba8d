----------------------------- MODULE SiteProofs -----------------------------
(***************************************************************************)
(* Proofs about Site, for every number of workers, every set of requests   *)
(* and names and every user table.                                         *)
(*                                                                         *)
(* First the routing, which has no state: the path of a url is the url up  *)
(* to its query, and at most one router fits it.  Then three invariants of *)
(* the workers, each on top of the shape of the state (ShapeInv): what was *)
(* found out about a url stays true of it (RouteInv); who is welcomed is   *)
(* in the table (WelcomeInv); and what the users map lacks is what the     *)
(* registrations under way will add (StoreInv).                            *)
(***************************************************************************)
EXTENDS Site, FiniteSetTheorems, SequenceTheorems, WellFoundedInduction, TLAPS

-----------------------------------------------------------------------------
(* The views of the second blueprint, in its order.                        *)
FormViews == <<"register", "login", "req_picture", "req_video", "follow">>

(* What registerInterceptor leaves.                                        *)
LEMMA Routes ==
  /\ DOMAIN Interceptors = 1..2
  /\ DOMAIN Interceptors[1].routers = {1}
  /\ DOMAIN Interceptors[2].routers = 1..5
  /\ Interceptors[1].name = <<"/", "href">>
  /\ Interceptors[2].name = <<"/">>
  /\ Interceptors[1].routers[1].view = "href"
  /\ Interceptors[1].routers[1].suffix = << >>
  /\ \A r \in 1..5 : /\ Interceptors[2].routers[r].view = FormViews[r]
                     /\ Interceptors[2].routers[r].suffix = <<"/", FormViews[r]>>
<1> DEFINE first == [name |-> <<"/", "href">>, routers |-> << Router(<< >>, "href") >>]
<1>1. [Router(<<"/", "href">>, "href") EXCEPT !.suffix = << >>] = Router(<< >>, "href")
  BY DEF Router
<1>2. BlueprintOf(Router(<<"/", "href">>, "href")) = first
  BY <1>1 DEF BlueprintOf, Router
<1>3. Interceptors[1] = first
  BY <1>2 DEF Interceptors
<1>4. /\ DOMAIN first.routers = {1} /\ first.name = <<"/", "href">>
      /\ first.routers[1].view = "href" /\ first.routers[1].suffix = << >>
  BY DEF Router
<1>5. DOMAIN Interceptors = 1..2
  BY DEF Interceptors
<1>6. Interceptors[2] = [name |-> <<"/">>,
      routers |-> << Router(<<"/", "register">>, "register"),
                     Router(<<"/", "login">>, "login"),
                     Router(<<"/", "req_picture">>, "req_picture"),
                     Router(<<"/", "req_video">>, "req_video"),
                     Router(<<"/", "follow">>, "follow") >>]
  BY DEF Interceptors
<1> QED
  BY <1>3, <1>4, <1>5, <1>6 DEF Router, FormViews

(* The routers that fit a path, told by its first three symbols.           *)
LEMMA CandidatesAre ==
  ASSUME NEW S, NEW path \in Seq(S), NEW x
  PROVE  x \in Candidates(path) <=>
           \/ /\ x = <<1, 1>>
              /\ Len(path) > 2 /\ path[1] = "/" /\ path[2] = "href" /\ path[3] = "/"
           \/ \E r \in 1..5 : /\ x = <<2, r>>
                              /\ Len(path) > 1 /\ path[1] = "/" /\ path[2] = FormViews[r]
<1>1. FullRoute(<<"/", "href">>, << >>) = <<"/", "href", "/">>
  <2> DEFINE long == <<"/", "href">> \o <<"/">>
  <2>1. FullRoute(<<"/", "href">>, << >>) = long
    BY DEF FullRoute
  <2>2. <<"/", "href">> \in Seq({"/", "href"}) /\ <<"/">> \in Seq({"/", "href"})
    OBVIOUS
  <2>3. /\ long \in Seq({"/", "href"}) /\ Len(long) = 3
        /\ long[1] = "/" /\ long[2] = "href" /\ long[3] = "/"
    BY <2>2, ConcatProperties
  <2> HIDE DEF long
  <2> QED
    BY <2>1, <2>3
<1>2. \A r \in 1..5 : FullRoute(<<"/">>, <<"/", FormViews[r]>>) = <<"/", FormViews[r]>>
  BY DEF FullRoute
<1>3. CanDealWith(<<"/", "href">>, path) /\ CanDealWith(<<"/", "href", "/">>, path)
        <=> Len(path) > 2 /\ path[1] = "/" /\ path[2] = "href" /\ path[3] = "/"
  BY LenProperties DEF CanDealWith, IsPrefix
<1>4. \A r \in 1..5 : CanDealWith(<<"/">>, path) /\ CanDealWith(<<"/", FormViews[r]>>, path)
        <=> Len(path) > 1 /\ path[1] = "/" /\ path[2] = FormViews[r]
  BY LenProperties DEF CanDealWith, IsPrefix
<1> DEFINE Fits(b, r) ==
      /\ r \in DOMAIN Interceptors[b].routers
      /\ CanDealWith(Interceptors[b].name, path)
      /\ CanDealWith(FullRoute(Interceptors[b].name, Interceptors[b].routers[r].suffix), path)
<1>0. x \in Candidates(path) <=> x \in (1..2) \X (1..5) /\ Fits(x[1], x[2])
  BY Routes DEF Candidates
<1>5. x = <<1, 1>> =>
        (x \in Candidates(path) <=>
         CanDealWith(<<"/", "href">>, path) /\ CanDealWith(<<"/", "href", "/">>, path))
  <2>1. Fits(1, 1) <=>
         CanDealWith(<<"/", "href">>, path) /\ CanDealWith(<<"/", "href", "/">>, path)
    BY <1>1, Routes
  <2>2. x = <<1, 1>> => x \in (1..2) \X (1..5) /\ x[1] = 1 /\ x[2] = 1
    OBVIOUS
  <2> HIDE DEF Fits
  <2> QED
    BY <1>0, <2>1, <2>2
<1>6. ASSUME NEW r \in 1..5, x = <<2, r>>
      PROVE  x \in Candidates(path) <=>
               CanDealWith(<<"/">>, path) /\ CanDealWith(<<"/", FormViews[r]>>, path)
  <2>1. Fits(2, r) <=>
         CanDealWith(<<"/">>, path) /\ CanDealWith(<<"/", FormViews[r]>>, path)
    BY <1>2, Routes
  <2>2. x \in (1..2) \X (1..5) /\ x[1] = 2 /\ x[2] = r
    BY <1>6
  <2> HIDE DEF Fits
  <2> QED
    BY <1>0, <2>1, <2>2
<1>7. x \in Candidates(path) => x = <<1, 1>> \/ \E r \in 1..5 : x = <<2, r>>
  BY Routes DEF Candidates
<1> QED
  BY <1>3, <1>4, <1>5, <1>6, <1>7

(* The first router that fits is the only one that does.                   *)
LEMMA DispatchIs ==
  ASSUME NEW S, NEW path \in Seq(S)
  PROVE  Dispatch(path) =
           IF Len(path) > 2 /\ path[1] = "/" /\ path[2] = "href" /\ path[3] = "/"
           THEN "href"
           ELSE IF /\ Len(path) > 1 /\ path[1] = "/"
                   /\ path[2] \in {"register", "login", "req_picture", "req_video", "follow"}
           THEN path[2] ELSE "none"
<1> DEFINE First(x) == x \in Candidates(path) /\ \A y \in Candidates(path) : Before(x, y)
           C == Candidates(path)
<1>1. CASE Len(path) > 2 /\ path[1] = "/" /\ path[2] = "href" /\ path[3] = "/"
  <2>1. \A x : x \in C <=> x = <<1, 1>>
    BY <1>1, CandidatesAre DEF FormViews
  <2>2. C = {<<1, 1>>}
    BY <2>1
  <2>3. Before(<<1, 1>>, <<1, 1>>)
    BY DEF Before
  <2> DEFINE first == CHOOSE x \in C : \A y \in C : Before(x, y)
  <2>4. first = <<1, 1>>
    BY <2>2, <2>3
  <2>5. Dispatch(path) = Interceptors[first[1]].routers[first[2]].view
    BY <2>2 DEF Dispatch
  <2> HIDE DEF first
  <2>6. first[1] = 1 /\ first[2] = 1
    BY <2>4
  <2> QED
    BY <1>1, <2>5, <2>6, Routes
<1>2. ASSUME NEW r \in 1..5, Len(path) > 1, path[1] = "/", path[2] = FormViews[r]
      PROVE  Dispatch(path) = FormViews[r]
  <2>1. \A x : x \in C <=> x = <<2, r>>
    BY <1>2, CandidatesAre DEF FormViews
  <2>2. C = {<<2, r>>}
    BY <2>1
  <2>3. Before(<<2, r>>, <<2, r>>)
    BY DEF Before
  <2> DEFINE first == CHOOSE x \in C : \A y \in C : Before(x, y)
  <2>4. first = <<2, r>>
    BY <2>2, <2>3
  <2>5. Dispatch(path) = Interceptors[first[1]].routers[first[2]].view
    BY <2>2 DEF Dispatch
  <2> HIDE DEF first
  <2>6. first[1] = 2 /\ first[2] = r
    BY <2>4
  <2> QED
    BY <2>5, <2>6, Routes
<1>3. ASSUME ~(Len(path) > 2 /\ path[1] = "/" /\ path[2] = "href" /\ path[3] = "/"),
             ~(\E r \in 1..5 : Len(path) > 1 /\ path[1] = "/" /\ path[2] = FormViews[r])
      PROVE  Dispatch(path) = "none"
  <2>1. Candidates(path) = {}
    BY <1>3, CandidatesAre
  <2> QED
    BY <2>1 DEF Dispatch
<1> HIDE DEF C
<1>4. {FormViews[r] : r \in 1..5} = {"register", "login", "req_picture", "req_video", "follow"}
  BY DEF FormViews
<1>5. \A r \in 1..5 : FormViews[r] # "href"
  BY DEF FormViews
<1> QED
  BY <1>1, <1>2, <1>3, <1>4, <1>5

-----------------------------------------------------------------------------
LEMMA LeastElement ==
  ASSUME NEW S \in SUBSET Nat, S # {}
  PROVE  \E m \in S : \A k \in S : m <= k
<1> DEFINE R == {p \in Nat \X Nat : p[1] < p[2]}
<1>1. IsWellFoundedOn(R, Nat)
  BY NatLessThanWellFounded DEF OpToRel
<1>2. PICK m \in S : \A k \in S : ~ (<<k, m>> \in R)
  <2> HIDE DEF R
  <2> QED
    BY <1>1, WFMin
<1>3. ASSUME NEW k \in S PROVE m <= k
  <2>1. <<k, m>> \in Nat \X Nat => ~ (k < m)
    BY <1>2
  <2> QED
    BY <2>1
<1> QED
  BY <1>3

LEMMA GreatestElement ==
  ASSUME NEW n \in Nat, NEW S \in SUBSET (1..n), S # {}
  PROVE  \E m \in S : \A k \in S : k <= m
<1> DEFINE D == {n - i : i \in S}
<1>1. D \in SUBSET Nat /\ D # {}
  <2>1. \A i \in S : n - i \in Nat
    OBVIOUS
  <2>2. PICK i \in S : TRUE
    OBVIOUS
  <2>3. n - i \in D
    BY <2>2
  <2> QED
    BY <2>1, <2>3
<1>2. PICK d \in D : \A e \in D : d <= e
  <2> HIDE DEF D
  <2> QED
    BY <1>1, LeastElement
<1>3. n - d \in S
  BY <1>1, <1>2
<1>4. ASSUME NEW k \in S PROVE k <= n - d
  <2>1. d <= n - k
    BY <1>2
  <2> QED
    BY <1>1, <2>1
<1> QED
  BY <1>3, <1>4

(* The first and the last occurrence, which CHOOSE finds.                  *)
LEMMA IndexOfFacts ==
  ASSUME NEW S, NEW text \in Seq(S), NEW symbol, Has(text, symbol)
  PROVE  /\ IndexOf(text, symbol) \in 1..Len(text)
         /\ text[IndexOf(text, symbol)] = symbol
         /\ \A j \in 1..(IndexOf(text, symbol) - 1) : text[j] # symbol
<1> DEFINE at == {i \in 1..Len(text) : text[i] = symbol}
           First(i) == text[i] = symbol /\ \A j \in 1..(i - 1) : text[j] # symbol
<1>1. DOMAIN text = 1..Len(text) /\ Len(text) \in Nat
  BY LenProperties
<1>2. at \in SUBSET Nat /\ at # {}
  BY <1>1 DEF Has
<1>3. PICK m \in at : \A k \in at : m <= k
  <2> HIDE DEF at
  <2> QED
    BY <1>2, LeastElement
<1>4. m \in DOMAIN text /\ First(m)
  BY <1>1, <1>3
<1>5. IndexOf(text, symbol) = CHOOSE i \in DOMAIN text : First(i)
  BY DEF IndexOf
<1>6. IndexOf(text, symbol) \in DOMAIN text /\ First(IndexOf(text, symbol))
  <2> HIDE DEF First
  <2> QED
    BY <1>4, <1>5
<1> QED
  BY <1>1, <1>6

LEMMA LastIndexOfFacts ==
  ASSUME NEW S, NEW text \in Seq(S), NEW symbol, Has(text, symbol)
  PROVE  LastIndexOf(text, symbol) \in 1..Len(text)
<1> DEFINE at == {i \in 1..Len(text) : text[i] = symbol}
           IsLast(i) == text[i] = symbol /\ \A j \in (i + 1)..Len(text) : text[j] # symbol
<1>1. DOMAIN text = 1..Len(text) /\ Len(text) \in Nat
  BY LenProperties
<1>2. at \in SUBSET (1..Len(text)) /\ at # {}
  BY <1>1 DEF Has
<1>3. PICK m \in at : \A k \in at : k <= m
  <2> HIDE DEF at
  <2> QED
    BY <1>1, <1>2, GreatestElement
<1>4. m \in DOMAIN text /\ IsLast(m)
  BY <1>1, <1>3
<1>5. LastIndexOf(text, symbol) = CHOOSE i \in DOMAIN text : IsLast(i)
  BY DEF LastIndexOf
<1>6. LastIndexOf(text, symbol) \in DOMAIN text
  <2> HIDE DEF IsLast
  <2> QED
    BY <1>4, <1>5
<1> QED
  BY <1>1, <1>6

(* A text without a dot does not name a file.                              *)
LEMMA NoDotNoFile ==
  ASSUME NEW S, NEW url \in Seq(S), ~Has(url, ".")
  PROVE  ~IsResRequest(url)
<1> SUFFICES ASSUME Has(url, "/") PROVE ~Has(From(url, LastIndexOf(url, "/")), ".")
  BY DEF IsResRequest
<1> DEFINE k == LastIndexOf(url, "/")
           n == Len(url)
<1>1. k \in 1..n /\ n \in Nat /\ DOMAIN url = 1..n
  BY LastIndexOfFacts, LenProperties
<1> HIDE DEF k
<1>2. \A i \in k..n : url[i] \in S
  BY <1>1, ElementOfSeq
<1>3. /\ SubSeq(url, k, n) \in Seq(S)
      /\ Len(SubSeq(url, k, n)) = n - k + 1
      /\ \A i \in 1..(n - k + 1) : SubSeq(url, k, n)[i] = url[k + i - 1]
  BY <1>1, <1>2, SubSeqProperties
<1>4. DOMAIN SubSeq(url, k, n) = 1..(n - k + 1)
  BY <1>3, LenProperties
<1>5. \A i \in 1..(n - k + 1) : k + i - 1 \in 1..n
  BY <1>1
<1>6. ~Has(SubSeq(url, k, n), ".")
  BY <1>1, <1>3, <1>4, <1>5 DEF Has
<1> QED
  BY <1>6 DEF From, k

(* The path of a url that begins with a slash: all before the first        *)
(* question mark, and a question mark if there was one.                    *)
LEMMA PathIs ==
  ASSUME NEW S, NEW url \in Seq(S), Len(url) > 0, url[1] = "/"
  PROVE  /\ ~Has(url, "?") => Path(url) = url
         /\ Has(url, "?") => Path(url) = SubSeq(url, 1, IndexOf(url, "?"))
<1> DEFINE full == FullPath(url)
<1>1. /\ ~Has(url, "?") => full = url
      /\ Has(url, "?") => full = SubSeq(url, 1, IndexOf(url, "?"))
  BY DEF FullPath, Absolute
<1>2. full \in Seq(S) /\ Len(full) > 0 /\ full[1] = "/"
  <2>1. CASE ~Has(url, "?")
    BY <1>1, <2>1
  <2>2. CASE Has(url, "?")
    <3> DEFINE k == IndexOf(url, "?")
    <3>1. k \in 1..Len(url) /\ Len(url) \in Nat
      BY <2>2, IndexOfFacts, LenProperties
    <3> HIDE DEF k
    <3>2. \A i \in 1..k : url[i] \in S
      BY <3>1, ElementOfSeq
    <3>3. /\ SubSeq(url, 1, k) \in Seq(S) /\ Len(SubSeq(url, 1, k)) = k
          /\ SubSeq(url, 1, k)[1] = url[1]
      BY <3>1, <3>2, SubSeqProperties
    <3>4. full = SubSeq(url, 1, k)
      BY <1>1, <2>2 DEF k
    <3> HIDE DEF full
    <3> QED
      BY <3>1, <3>3, <3>4
  <2> QED
    BY <2>1, <2>2
<1> HIDE DEF full
<1>3. Has(full, "/")
  BY <1>2, LenProperties DEF Has
<1>4. IndexOf(full, "/") = 1
  <2> DEFINE j == IndexOf(full, "/")
  <2>1. j \in 1..Len(full) /\ \A i \in 1..(j - 1) : full[i] # "/"
    BY <1>2, <1>3, IndexOfFacts
  <2> HIDE DEF j
  <2>2. ~(1 \in 1..(j - 1))
    BY <1>2, <2>1
  <2>3. j = 1
    BY <2>1, <2>2
  <2> QED
    BY <2>3 DEF j
<1>5. Path(url) = SubSeq(full, 1, Len(full))
  BY <1>4 DEF Path, From, full
<1>6. Path(url) = full
  BY <1>2, <1>5, SubSeqFull
<1> QED
  BY <1>1, <1>6

(* Whatever the query and the body are, the path is the url without its    *)
(* query, but for a question mark.                                         *)
LEMMA RelativePath ==
  ASSUME NEW S, "?" \in S, NEW url \in Seq(S), NEW body \in Seq(S), NEW cgi \in BOOLEAN,
         Len(url) > 0, url[1] = "/"
  PROVE  LET path == Path(Relative(url, cgi, body))
         IN  /\ Bare(url) \in Seq(S) /\ path \in Seq(S)
             /\ Len(Bare(url)) > 0 /\ Bare(url)[1] = "/"
             /\ \A i \in 1..Len(Bare(url)) : path[i] = Bare(url)[i]
             /\ \/ Len(path) = Len(Bare(url))
                \/ /\ Len(path) = Len(Bare(url)) + 1
                   /\ path[Len(path)] = "?"
<1> DEFINE n == Len(url)
           rel == Relative(url, cgi, body)
           path == Path(rel)
           k == IndexOf(url, "?")
<1>1. n \in Nat /\ DOMAIN url = 1..n /\ \A i \in 1..n : url[i] \in S
  BY LenProperties, ElementOfSeq
<1>2. CASE Has(url, "?")
  <2>1. k \in 1..n /\ url[k] = "?" /\ \A j \in 1..(k - 1) : url[j] # "?"
    BY <1>2, IndexOfFacts
  <2>2. k # 1
    BY <2>1
  <2> HIDE DEF k
  <2>3. rel \in Seq(S) /\ Len(rel) \in Nat /\ n <= Len(rel)
        /\ \A i \in 1..n : rel[i] = url[i]
    <3>1. CASE ~cgi
      BY <1>1, <3>1 DEF Relative
    <3>2. CASE cgi
      <4>1. rel = url \o body
        BY <1>2, <3>2 DEF Relative
      <4>2. Len(body) \in Nat
        BY LenProperties
      <4>3. /\ url \o body \in Seq(S) /\ Len(url \o body) = n + Len(body)
            /\ \A i \in 1..n : (url \o body)[i] = url[i]
        BY <1>1, <4>2, ConcatProperties
      <4> HIDE DEF rel
      <4> QED
        BY <1>1, <4>1, <4>2, <4>3
    <3> QED
      BY <3>1, <3>2
  <2> HIDE DEF rel
  <2>4. /\ DOMAIN rel = 1..Len(rel) /\ k \in 1..Len(rel) /\ rel[k] = "?"
        /\ \A j \in 1..(k - 1) : rel[j] # "?"
    BY <1>1, <2>1, <2>3, LenProperties
  <2>5. Has(rel, "?")
    BY <2>4 DEF Has
  <2>6. IndexOf(rel, "?") = k
    <3> DEFINE l == IndexOf(rel, "?")
    <3>1. l \in 1..Len(rel) /\ rel[l] = "?" /\ \A j \in 1..(l - 1) : rel[j] # "?"
      BY <2>3, <2>5, IndexOfFacts
    <3> HIDE DEF l
    <3>2. ~(l < k) /\ ~(k < l)
      BY <2>1, <2>3, <2>4, <3>1
    <3>3. l = k
      BY <2>1, <2>3, <3>1, <3>2
    <3> QED
      BY <3>3 DEF l
  <2>7. path = SubSeq(rel, 1, k)
    BY <1>1, <2>3, <2>5, <2>6, PathIs
  <2>8. Bare(url) = SubSeq(url, 1, k - 1)
    BY <1>2 DEF Bare, k
  <2>9. \A i \in 1..k : rel[i] \in S
    BY <1>1, <2>1, <2>3
  <2>10. /\ SubSeq(rel, 1, k) \in Seq(S) /\ Len(SubSeq(rel, 1, k)) = k
         /\ \A i \in 1..k : SubSeq(rel, 1, k)[i] = rel[i]
    BY <1>1, <2>1, <2>9, SubSeqProperties
  <2>11. /\ SubSeq(url, 1, k - 1) \in Seq(S) /\ Len(SubSeq(url, 1, k - 1)) = k - 1
         /\ \A i \in 1..(k - 1) : SubSeq(url, 1, k - 1)[i] = url[i]
    BY <1>1, <2>1, <2>2, SubSeqProperties
  <2> HIDE DEF path
  <2>12. /\ Bare(url) \in Seq(S) /\ path \in Seq(S)
         /\ Len(Bare(url)) = k - 1 /\ Len(path) = k /\ path[k] = "?"
         /\ \A i \in 1..(k - 1) : path[i] = Bare(url)[i]
         /\ Bare(url)[1] = "/"
    BY <1>1, <2>1, <2>2, <2>3, <2>4, <2>7, <2>8, <2>10, <2>11
  <2> QED
    BY <1>1, <2>1, <2>2, <2>12 DEF path, rel
<1>3. CASE ~Has(url, "?")
  <2>1. Bare(url) = url
    BY <1>3 DEF Bare
  <2>2. CASE ~cgi
    <3>1. rel = url
      BY <2>2 DEF Relative
    <3>2. path = url
      BY <1>3, <3>1, PathIs
    <3> QED
      BY <1>1, <2>1, <3>2
  <2>3. CASE cgi
    <3> DEFINE mark == <<"?">>
               head == url \o mark
    <3>1. rel = head \o body
      BY <1>3, <2>3 DEF Relative
    <3>2. mark \in Seq(S) /\ Len(mark) = 1 /\ mark[1] = "?" /\ Len(body) \in Nat
      BY LenProperties
    <3> HIDE DEF mark
    <3>3. /\ head \in Seq(S) /\ Len(head) = n + 1
          /\ \A i \in 1..n : head[i] = url[i]
          /\ head[n + 1] = "?"
      <4>1. /\ head \in Seq(S) /\ Len(head) = Len(url) + Len(mark)
            /\ \A i \in 1..Len(url) + Len(mark) :
                 head[i] = IF i <= Len(url) THEN url[i] ELSE mark[i - Len(url)]
        BY <3>2, ConcatProperties
      <4> HIDE DEF head
      <4>2. head[n + 1] = mark[n + 1 - n] /\ n + 1 - n = 1
        BY <1>1, <3>2, <4>1
      <4> QED
        BY <1>1, <3>2, <4>1, <4>2
    <3> HIDE DEF head
    <3>4. /\ head \o body \in Seq(S) /\ Len(head \o body) = n + 1 + Len(body)
          /\ \A i \in 1..(n + 1) : (head \o body)[i] = head[i]
      <4> DEFINE whole == head \o body
      <4>0. head \in Seq(S)
        BY <3>3
      <4>1. /\ whole \in Seq(S) /\ Len(whole) = Len(head) + Len(body)
            /\ \A i \in 1..Len(head) + Len(body) :
                 whole[i] = IF i <= Len(head) THEN head[i] ELSE body[i - Len(head)]
        BY <4>0, ConcatProperties
      <4> HIDE DEF whole
      <4>2. /\ Len(whole) = n + 1 + Len(body)
            /\ \A i \in 1..(n + 1) : whole[i] = head[i]
        BY <1>1, <3>2, <3>3, <4>1
      <4> QED
        BY <4>1, <4>2 DEF whole
    <3>5. /\ rel \in Seq(S) /\ Len(rel) \in Nat /\ n + 1 <= Len(rel)
          /\ \A i \in 1..n : rel[i] = url[i]
          /\ rel[n + 1] = "?"
      <4> HIDE DEF rel
      <4> QED
        BY <1>1, <3>1, <3>2, <3>3, <3>4
    <3> HIDE DEF rel
    <3>6. DOMAIN rel = 1..Len(rel) /\ \A j \in 1..n : rel[j] # "?"
      BY <1>1, <1>3, <3>5, LenProperties DEF Has
    <3>7. Has(rel, "?")
      BY <1>1, <3>5, <3>6 DEF Has
    <3>8. IndexOf(rel, "?") = n + 1
      <4> DEFINE l == IndexOf(rel, "?")
      <4>1. l \in 1..Len(rel) /\ rel[l] = "?" /\ \A j \in 1..(l - 1) : rel[j] # "?"
        BY <3>5, <3>7, IndexOfFacts
      <4> HIDE DEF l
      <4>2. ~(l <= n) /\ ~(n + 1 < l)
        BY <1>1, <3>5, <3>6, <4>1
      <4>3. l = n + 1
        BY <1>1, <3>5, <4>1, <4>2
      <4> QED
        BY <4>3 DEF l
    <3>9. path = SubSeq(rel, 1, n + 1)
      BY <1>1, <3>5, <3>7, <3>8, PathIs
    <3>10. \A i \in 1..(n + 1) : rel[i] \in S
      BY <1>1, <3>5
    <3>11. /\ SubSeq(rel, 1, n + 1) \in Seq(S) /\ Len(SubSeq(rel, 1, n + 1)) = n + 1
           /\ \A i \in 1..(n + 1) : SubSeq(rel, 1, n + 1)[i] = rel[i]
      BY <1>1, <3>10, SubSeqProperties
    <3> HIDE DEF path
    <3>12. /\ path \in Seq(S) /\ Len(path) = n + 1 /\ path[n + 1] = "?"
           /\ \A i \in 1..n : path[i] = url[i]
      BY <1>1, <3>5, <3>9, <3>11
    <3> QED
      BY <1>1, <2>1, <3>12 DEF path, rel
  <2> QED
    BY <2>2, <2>3
<1> QED
  BY <1>2, <1>3

(* So the view that is found is the view that the url names.               *)
LEMMA RouteIsName ==
  ASSUME NEW S, "?" \in S, NEW url \in Seq(S), NEW body \in Seq(S), NEW cgi \in BOOLEAN,
         Len(url) > 0, url[1] = "/"
  PROVE  Dispatch(Path(Relative(url, cgi, body))) = Named(Bare(url))
<1> DEFINE path == Path(Relative(url, cgi, body))
           bare == Bare(url)
<1>1. /\ bare \in Seq(S) /\ path \in Seq(S)
      /\ Len(bare) \in Nat /\ Len(bare) > 0 /\ bare[1] = "/"
      /\ \A i \in 1..Len(bare) : path[i] = bare[i]
      /\ \/ Len(path) = Len(bare)
         \/ Len(path) = Len(bare) + 1 /\ path[Len(path)] = "?"
  BY RelativePath, LenProperties
<1> HIDE DEF path, bare
<1>2. path[1] = "/"
  BY <1>1
<1>3. Len(path) > 2 /\ path[2] = "href" /\ path[3] = "/"
        <=> Len(bare) > 2 /\ bare[2] = "href" /\ bare[3] = "/"
  <2>1. CASE Len(bare) > 2
    <3>1. Len(path) > 2 /\ path[2] = bare[2] /\ path[3] = bare[3]
      BY <1>1, <2>1
    <3> QED
      BY <2>1, <3>1
  <2>2. CASE Len(bare) <= 2
    <3>1. CASE Len(path) = Len(bare)
      BY <1>1, <2>2, <3>1
    <3>2. CASE Len(path) = Len(bare) + 1 /\ path[Len(path)] = "?"
      <4>1. Len(path) > 2 => Len(path) = 3
        BY <1>1, <2>2, <3>2
      <4> QED
        BY <1>1, <2>2, <3>2, <4>1
    <3> QED
      BY <1>1, <3>1, <3>2
  <2> QED
    BY <1>1, <2>1, <2>2
<1>4. ASSUME NEW w, w # "?"
      PROVE  Len(path) > 1 /\ path[2] = w <=> Len(bare) > 1 /\ bare[2] = w
  <2>1. CASE Len(bare) > 1
    BY <1>1, <2>1
  <2>2. CASE Len(bare) = 1
    <3>1. Len(path) > 1 => Len(path) = 2 /\ path[Len(path)] = "?"
      BY <1>1, <2>2
    <3> QED
      BY <1>4, <2>2, <3>1
  <2>3. Len(bare) > 1 \/ Len(bare) = 1
    <3>1. Len(bare) \in Nat /\ Len(bare) > 0
      BY <1>1
    <3>2. \A m \in Nat : m > 0 => m > 1 \/ m = 1
      OBVIOUS
    <3> QED
      BY <3>1, <3>2
  <2> QED
    BY <2>1, <2>2, <2>3
<1>5. IsPrefix(<<"/", "href", "/">>, bare) <=>
        Len(bare) > 2 /\ bare[2] = "href" /\ bare[3] = "/"
  BY <1>1, LenProperties DEF IsPrefix
<1> DEFINE names == {"register", "login", "req_picture", "req_video", "follow"}
<1>6. DOMAIN Static \ {"href"} = names
  BY DEF Static
<1>7. Named(bare) =
        IF Len(bare) > 2 /\ bare[2] = "href" /\ bare[3] = "/" THEN "href"
        ELSE IF Len(bare) > 1 /\ bare[2] \in names THEN bare[2] ELSE "none"
  BY <1>1, <1>5, <1>6 DEF Named
<1>8. Dispatch(path) =
        IF Len(path) > 2 /\ path[2] = "href" /\ path[3] = "/" THEN "href"
        ELSE IF Len(path) > 1 /\ path[2] \in names THEN path[2] ELSE "none"
  BY <1>1, <1>2, DispatchIs
<1>9. (Len(path) > 1 /\ path[2] \in names) <=> (Len(bare) > 1 /\ bare[2] \in names)
  BY <1>4
<1>10. Len(path) > 1 /\ path[2] \in names => path[2] = bare[2]
  BY <1>4
<1>11. Dispatch(path) = Named(bare)
  BY <1>3, <1>7, <1>8, <1>9, <1>10
<1> QED
  BY <1>11 DEF path, bare

(* Any text at all finds one of the views, or none.                        *)
LEMMA DispatchType ==
  ASSUME NEW path
  PROVE  Dispatch(path) \in DOMAIN Static \union {"none"}
<1> DEFINE C == Candidates(path)
           Least(x) == x \in C /\ \A y \in C : Before(x, y)
           first == CHOOSE x \in C : \A y \in C : Before(x, y)
<1>1. \A x \in C : x \in (1..2) \X (1..5) /\ x[2] \in DOMAIN Interceptors[x[1]].routers
  BY Routes DEF Candidates
<1>2. \A x \in C : x = <<x[1], x[2]>> /\ (x = <<1, 1>> \/ \E r \in 1..5 : x = <<2, r>>)
  <2> SUFFICES ASSUME NEW x \in C
               PROVE  x = <<x[1], x[2]>> /\ (x = <<1, 1>> \/ \E r \in 1..5 : x = <<2, r>>)
    OBVIOUS
  <2>1. x = <<x[1], x[2]>> /\ x[1] \in {1, 2} /\ x[2] \in 1..5
    BY <1>1
  <2>2. x[1] = 1 => x[2] = 1
    BY <1>1, Routes
  <2> HIDE DEF C
  <2> QED
    BY <2>1, <2>2
<1> HIDE DEF C
<1>3. ASSUME C # {} PROVE \E x : Least(x)
  <2>1. CASE <<1, 1>> \in C
    <3>1. ASSUME NEW y \in C PROVE Before(<<1, 1>>, y)
      <4>1. CASE y = <<1, 1>>
        BY <4>1 DEF Before
      <4>2. ASSUME NEW r \in 1..5, y = <<2, r>> PROVE Before(<<1, 1>>, y)
        BY <4>2 DEF Before
      <4> QED
        BY <1>2, <4>1, <4>2
    <3> QED
      BY <2>1, <3>1
  <2>2. CASE <<1, 1>> \notin C
    <3> DEFINE D == {r \in 1..5 : <<2, r>> \in C}
    <3>1. PICK z \in C : TRUE
      BY <1>3
    <3>2. PICK r \in 1..5 : z = <<2, r>>
      BY <1>2, <2>2
    <3>3. D \in SUBSET Nat /\ D # {}
      BY <3>1, <3>2
    <3>4. PICK m \in D : \A k \in D : m <= k
      <4> HIDE DEF D
      <4> QED
        BY <3>3, LeastElement
    <3>5. ASSUME NEW y \in C PROVE Before(<<2, m>>, y)
      <4>1. PICK q \in 1..5 : y = <<2, q>>
        BY <1>2, <2>2
      <4>2. m <= q
        BY <3>4, <4>1
      <4> QED
        BY <4>1, <4>2 DEF Before
    <3>6. <<2, m>> \in C
      BY <3>4
    <3> QED
      BY <3>5, <3>6
  <2> QED
    BY <2>1, <2>2
<1>4. ASSUME C # {} PROVE first \in C
  <2>1. \E x : Least(x)
    BY <1>3, <1>4
  <2>2. Least(first)
    BY <2>1
  <2> QED
    BY <2>2
<1>5. ASSUME NEW x \in C
      PROVE  Interceptors[x[1]].routers[x[2]].view \in DOMAIN Static
  <2>1. CASE x[1] = 1 /\ x[2] = 1
    BY <2>1, Routes DEF Static
  <2>2. CASE x[1] = 2 /\ x[2] \in 1..5
    <3>1. Interceptors[x[1]].routers[x[2]].view = FormViews[x[2]]
      BY <2>2, Routes
    <3>2. \A r \in 1..5 : FormViews[r] \in DOMAIN Static
      BY DEF FormViews, Static
    <3> QED
      BY <2>2, <3>1, <3>2
  <2>3. (x[1] = 1 /\ x[2] = 1) \/ (x[1] = 2 /\ x[2] \in 1..5)
    <3>1. x = <<1, 1>> => x[1] = 1 /\ x[2] = 1
      OBVIOUS
    <3>2. \A r \in 1..5 : x = <<2, r>> => x[1] = 2 /\ x[2] = r
      OBVIOUS
    <3> QED
      BY <1>2, <3>1, <3>2
  <2> QED
    BY <2>1, <2>2, <2>3
<1>6. CASE C = {}
  BY <1>6 DEF Dispatch, C
<1>7. CASE C # {}
  <2>1. Dispatch(path) = Interceptors[first[1]].routers[first[2]].view
    BY <1>7 DEF Dispatch, C
  <2>2. first \in C
    BY <1>4, <1>7
  <2> HIDE DEF first
  <2> QED
    BY <1>5, <2>1, <2>2
<1> QED
  BY <1>6, <1>7

-----------------------------------------------------------------------------
(* What the variables hold.                                                *)
Methods == {r.method : r \in Requests} \union {"GET"}
Given == Names \union {<< >>}
Secrets == Passwords \union {<< >>}
Ats == {"idle", "request", "local", "create", "view", "render", "open", "write",
        "lock", "query", "stored", "refused", "insert", "inserted", "redirect",
        "send", "sent"}
Views == DOMAIN Static \union {"none"}
PageNames == {"none", "file", "folder", "welcome", "template", "logError", "registerError"}
               \union {Static[v] : v \in DOMAIN Static}
Contents == [there : BOOLEAN, of : SUBSET Names, whole : BOOLEAN]
Jobs == [at : Ats, object : Objects \union {None}, method : Methods, url : Urls,
         body : Bodies, text : Bodies, view : Views, name : Given, pass : Secrets,
         page : PageNames, shown : Contents]
Stored == {<<r[1], r[2]>> : r \in Range(FirstRows)}
            \union {<<n, p>> : n \in Given, p \in Secrets} \union OtherRows

TypeInv == /\ setting \in Settings
           /\ rows \in Seq(Stored) /\ misread \in BOOLEAN
           /\ users = [n \in DOMAIN users |-> users[n]]
           /\ current \in [Workers -> Given]
           /\ files \in [Names -> Contents]
           /\ worker \in [Workers -> Jobs]
           /\ status \in {"up", "down", "corrupt"}

(* A view is found before it is run, and a login has a name, which the     *)
(* thread's local map keeps until its page is sent.                        *)
Resolved(k) == k.at \in {"local", "create", "view"} => k.view \in DOMAIN Static

Welcomed(k) == k.at = "send" /\ k.page = "welcome"
LoggedIn(k, user) ==
  /\ k.at \in {"render", "open", "write", "sent"} \/ Welcomed(k) => k.name # << >>
  /\ k.at \in {"open", "write", "sent"} \/ Welcomed(k) => user = k.name

ShapeInv == /\ TypeInv
            /\ \A w \in Workers : Resolved(worker[w]) /\ LoggedIn(worker[w], current[w])

(* What a step leaves of a worker's request.                               *)
Same(l, k) == /\ l.method = k.method /\ l.url = k.url /\ l.text = k.text
              /\ l.view = k.view /\ l.shown = k.shown
Others(w) == \A v \in Workers : v # w => worker'[v] = worker[v]

LEMMA TextsGiven == << >> \in Bodies /\ << >> \in Urls /\ <<"/", "login">> \in Urls
BY DEF Bodies, Urls

LEMMA ContentFacts ==
  ASSUME NEW there \in BOOLEAN, NEW of \in SUBSET Names, NEW whole \in BOOLEAN
  PROVE  [there |-> there, of |-> of, whole |-> whole] \in Contents
BY DEF Contents

LEMMA NoFileFacts == NoFile \in Contents /\ NoFile.of = {}
BY DEF NoFile, Contents

LEMMA IdleFacts == Idle \in Jobs /\ Idle.at = "idle" /\ Idle.page = "none"
                   /\ Idle.view = "none" /\ Idle.shown = NoFile
BY TextsGiven, NoFileFacts DEF Idle, Jobs, Ats, Methods, Views, PageNames, Given, Secrets

LEMMA GotoFacts ==
  ASSUME TypeInv, NEW w \in Workers, NEW l \in Ats, Goto(w, l)
  PROVE  /\ worker' \in [Workers -> Jobs] /\ Others(w)
         /\ worker'[w].at = l
         /\ Same(worker'[w], worker[w]) /\ worker'[w].page = worker[w].page
         /\ worker'[w].name = worker[w].name /\ worker'[w].pass = worker[w].pass
BY DEF Goto, TypeInv, Jobs, Same, Others

LEMMA AnswerFacts ==
  ASSUME TypeInv, NEW w \in Workers, NEW p \in PageNames, Answer(w, p)
  PROVE  /\ worker' \in [Workers -> Jobs] /\ Others(w)
         /\ worker'[w].at = "send"
         /\ Same(worker'[w], worker[w]) /\ worker'[w].page = p
         /\ worker'[w].name = worker[w].name /\ worker'[w].pass = worker[w].pass
<1>1. "send" \in Ats
  BY DEF Ats
<1> QED
  BY <1>1 DEF Answer, TypeInv, Jobs, Same, Others

(* Who posted a form has a name and a password, which may be empty.        *)
LEMMA QueriesGiveNames ==
  ASSUME NEW given \in Urls, NEW body \in Bodies, NEW url, url = Appended(given, body)
  PROVE  Param(url, User) \in Names /\ Param(url, Password) \in Passwords
<1>1. url \in Queries
  BY DEF Queries
<1> QED
  BY <1>1, Zenon DEF Names, Passwords

LEMMA ParamFacts ==
  ASSUME TypeInv, NEW w \in Workers, worker[w].method = "POST"
  PROVE  UserOf(w) \in Names /\ PasswordOf(w) \in Passwords
<1>1. worker[w].url \in Urls /\ worker[w].text \in Bodies
  BY DEF TypeInv, Jobs
<1>2. RequestUrl(w) = Appended(worker[w].url, worker[w].text)
  <2>1. (worker[w].method = "POST") = TRUE
    OBVIOUS
  <2> QED
    BY <2>1, Zenon DEF RequestUrl, Appended
<1>3. Param(RequestUrl(w), User) \in Names /\ Param(RequestUrl(w), Password) \in Passwords
  BY <1>1, <1>2, QueriesGiveNames, Zenon
<1> QED
  BY <1>3 DEF UserOf, PasswordOf

LEMMA WithFacts ==
  ASSUME TypeInv, NEW w \in Workers, NEW l \in Ats, worker[w].method = "POST", With(w, l)
  PROVE  /\ worker' \in [Workers -> Jobs] /\ Others(w)
         /\ worker'[w].at = l
         /\ Same(worker'[w], worker[w]) /\ worker'[w].page = worker[w].page
         /\ worker'[w].name = UserOf(w) /\ worker'[w].pass = PasswordOf(w)
<1> DEFINE name == UserOf(w)
           pass == PasswordOf(w)
<1>1. name \in Given /\ pass \in Secrets
  BY ParamFacts DEF Given, Secrets
<1>2. worker' = [worker EXCEPT ![w].at = l, ![w].name = name, ![w].pass = pass]
  BY DEF With
<1> HIDE DEF name, pass
<1> DEFINE k == worker[w]
           new == [k EXCEPT !.at = l, !.name = name, !.pass = pass]
<1>3. k \in Jobs /\ worker \in [Workers -> Jobs]
  BY DEF TypeInv
<1>4. /\ new \in Jobs /\ new.at = l /\ new.name = name /\ new.pass = pass
      /\ Same(new, k) /\ new.page = k.page
  <2> HIDE DEF k
  <2> QED
    BY <1>1, <1>3 DEF Jobs, Same
<1>5. worker' = [worker EXCEPT ![w] = new]
  BY <1>2, <1>3
<1> HIDE DEF new
<1>6. worker'[w] = new /\ worker' \in [Workers -> Jobs] /\ Others(w)
  BY <1>3, <1>4, <1>5 DEF Others
<1> QED
  BY <1>4, <1>6 DEF name, pass

LEMMA TakeFacts ==
  ASSUME TypeInv, NEW w \in Workers, Take(w)
  PROVE  /\ worker' \in [Workers -> Jobs] /\ Others(w)
         /\ worker'[w].at = "request" /\ worker'[w].page = "none"
<1> DEFINE Asked(r, o, text) ==
             [Idle EXCEPT !.at = "request", !.object = o, !.method = r.method,
                          !.url = r.url, !.body = r.body, !.text = text]
           Texts(r, o) == IF r.body # << >> THEN {r.body}
                          ELSE IF m_string[o] THEN Leftovers ELSE {<< >>}
<1>0. setting.asks \subseteq Requests
  BY SiteAssumption DEF TypeInv
<1>1. \E r \in setting.asks, o \in Objects \ {worker[v].object : v \in Workers} :
        \E text \in Texts(r, o) : worker' = [worker EXCEPT ![w] = Asked(r, o, text)]
  BY Zenon DEF Take
<1>2. \A r \in Requests, o \in Objects : Texts(r, o) \subseteq Bodies
  BY DEF Bodies
<1>3. ASSUME NEW r \in Requests, NEW o \in Objects, NEW text \in Bodies
      PROVE  /\ Asked(r, o, text) \in Jobs
             /\ Asked(r, o, text).at = "request" /\ Asked(r, o, text).page = "none"
  <2>1. /\ "request" \in Ats /\ r.method \in Methods /\ r.url \in Urls /\ r.body \in Bodies
    BY DEF Ats, Methods, Urls, Bodies
  <2> QED
    BY <2>1, IdleFacts DEF Jobs
<1> HIDE DEF Asked, Texts
<1>4. PICK r \in Requests, o \in Objects, text \in Bodies :
        worker' = [worker EXCEPT ![w] = Asked(r, o, text)]
  BY <1>0, <1>1, <1>2
<1> QED
  BY <1>3, <1>4 DEF TypeInv, Others

LEMMA RowFacts ==
  ASSUME NEW S, NEW q \in Seq(S), NEW x \in S
  PROVE  /\ Append(q, x) \in Seq(S)
         /\ Len(q) \in Nat /\ DOMAIN q = 1..Len(q)
         /\ DOMAIN Append(q, x) = 1..(Len(q) + 1)
         /\ Append(q, x)[Len(q) + 1] = x
         /\ \A i \in 1..Len(q) : Append(q, x)[i] = q[i]
  OBVIOUS

(* An insertion stores a row, or none.                                     *)
LEMMA QueryFacts ==
  ASSUME TypeInv, NEW w \in Workers, Query(w)
  PROVE  /\ \/ rows' = rows /\ Goto(w, "refused")
            \/ /\ \E row \in Read(w) :
                    /\ rows' = Append(rows, row)
                    /\ setting.unique => ~(\E i \in DOMAIN rows : rows[i][1] = row[1])
               /\ Goto(w, "stored") \/ (~setting.reliable /\ Goto(w, "refused"))
         /\ \E l \in {"stored", "refused"} : Goto(w, l)
         /\ Read(w) \subseteq Stored /\ rows' \in Seq(Stored)
         /\ misread' \in BOOLEAN /\ (misread => misread')
         /\ ~misread' => Read(w) = {<<worker[w].name, worker[w].pass>>}
<1>1. worker[w].name \in Given /\ worker[w].pass \in Secrets
  BY DEF TypeInv, Jobs
<1>2. Read(w) \subseteq Stored
  BY <1>1 DEF Read, Stored
<1>3. \/ rows' = rows /\ Goto(w, "refused")
      \/ /\ \E row \in Read(w) :
              /\ rows' = Append(rows, row)
              /\ setting.unique => ~(\E i \in DOMAIN rows : rows[i][1] = row[1])
         /\ Goto(w, "stored") \/ (~setting.reliable /\ Goto(w, "refused"))
  BY DEF Query
<1>4. rows' \in Seq(Stored)
  <2>1. rows \in Seq(Stored)
    BY DEF TypeInv
  <2>2. ASSUME NEW row \in Read(w) PROVE Append(rows, row) \in Seq(Stored)
    <3>1. row \in Stored
      BY <1>2
    <3> QED
      BY <2>1, <3>1, RowFacts
  <2> QED
    BY <1>3, <2>1, <2>2
<1>5. misread' = (misread \/ ~Plain(worker[w].name) \/ ~Plain(worker[w].pass))
  BY DEF Query
<1>6. misread \in BOOLEAN
  BY DEF TypeInv
<1> QED
  BY <1>2, <1>3, <1>4, <1>5, <1>6 DEF Read

LEMMA LoadIsFunction ==
  ASSUME NEW stored
  PROVE  /\ Load(stored) = [n \in DOMAIN Load(stored) |-> Load(stored)[n]]
         /\ DOMAIN Load(stored) = {stored[i][1] : i \in DOMAIN stored}
BY DEF Load

LEMMA TypeInit == Init => TypeInv
<1> SUFFICES ASSUME Init PROVE TypeInv
  OBVIOUS
<1> USE DEF Init
<1>1. FirstRows \in Seq(Stored)
  <2>1. {<<r[1], r[2]>> : r \in Range(FirstRows)} \subseteq Stored
    BY DEF Stored
  <2>2. FirstRows \in Seq({<<r[1], r[2]>> : r \in Range(FirstRows)})
    BY SiteAssumption
  <2> HIDE DEF Init
  <2> QED
    BY <2>1, <2>2, SeqMonotonic
<1>2. users = [n \in DOMAIN users |-> users[n]]
  BY LoadIsFunction
<1> QED
  BY <1>1, <1>2, IdleFacts, NoFileFacts DEF TypeInv, Given

(* The end of the process.                                                 *)
Ends(w) == BadRequest(w) \/ NoParams(w) \/ BadRedirect(w) \/ Corrupt(w)

LEMMA GoneFacts ==
  ASSUME TypeInv, NEW w \in Workers, Ends(w)
  PROVE  /\ UNCHANGED <<rows, misread, files>> /\ DOMAIN users' = {}
         /\ status' \in {"down", "corrupt"}
         /\ \A v \in Workers : worker'[v] = Idle
         /\ users' = [n \in DOMAIN users' |-> users'[n]]
         /\ current' \in [Workers -> Given] /\ worker' \in [Workers -> Jobs]
<1>0. Gone /\ status' \in {"down", "corrupt"}
  BY DEF Ends, BadRequest, NoParams, BadRedirect, Corrupt, Exit
<1>1. users' = Load(<< >>) /\ DOMAIN << >> = {}
  BY <1>0 DEF Gone
<1>2. DOMAIN Load(<< >>) = {} /\ users' = [n \in DOMAIN users' |-> users'[n]]
  BY <1>1, LoadIsFunction
<1> QED
  BY <1>0, <1>1, <1>2, IdleFacts DEF Gone, Given

(* The pages an answer names.                                              *)
LEMMA StaticFacts ==
  ASSUME ShapeInv, NEW w \in Workers, Show(w)
  PROVE  /\ Static[worker[w].view] \in PageNames
         /\ Static[worker[w].view] \notin {"welcome", "folder", "file"}
         /\ worker[w].at = "view"
<1>1. worker[w].at = "view" /\ worker[w].view \in DOMAIN Static
  BY DEF Show, Step, ShapeInv, Resolved
<1> QED
  BY <1>1 DEF PageNames, Static

LEMMA ShapeInit == Init => ShapeInv
<1> SUFFICES ASSUME Init PROVE ShapeInv
  OBVIOUS
<1>1. TypeInv
  BY TypeInit
<1>2. \A w \in Workers : worker[w] = Idle
  BY DEF Init
<1> QED
  BY <1>1, <1>2, IdleFacts DEF ShapeInv, Resolved, LoggedIn, Welcomed

LEMMA ShapeStep ==
  ASSUME ShapeInv, Next
  PROVE  ShapeInv'
<1> USE DEF storeVars, localVars, objectVars
<1>1. CASE Restart
  <2>1. TypeInv'
    BY <1>1, LoadIsFunction DEF Restart, TypeInv, ShapeInv, Next
  <2> QED
    BY <1>1, <2>1 DEF Restart, ShapeInv
<1>2. ASSUME NEW w \in Workers, status = "up", WorkerStep(w), setting' = setting
      PROVE  ShapeInv'
  <2> DEFINE k == worker[w]
             l == worker'[w]
  <2>0. /\ rows \in Seq(Stored) /\ users = [n \in DOMAIN users |-> users[n]]
        /\ current \in [Workers -> Given] /\ setting' \in Settings /\ misread \in BOOLEAN
        /\ files \in [Names -> Contents]
        /\ worker \in [Workers -> Jobs] /\ status \in {"up", "down", "corrupt"}
        /\ k \in Jobs /\ k.name \in Given /\ k.url \in Urls /\ TypeInv
    BY <1>2 DEF TypeInv, Jobs, ShapeInv
  <2>A. \A v \in Workers : Resolved(worker[v]) /\ LoggedIn(worker[v], current[v])
    BY DEF ShapeInv
  (* Only the worker's own job and local map change.                       *)
  <2>B. ASSUME TypeInv', Others(w),
               \A v \in Workers : v # w => current'[v] = current[v],
               Resolved(l), LoggedIn(l, current'[w])
        PROVE  ShapeInv'
    BY <2>A, <2>B DEF ShapeInv, Others
  (* Steps that store nothing and leave the users.                         *)
  <2>C. ASSUME UNCHANGED <<rows, misread, users, status, current, files>>,
               worker' \in [Workers -> Jobs], Others(w), Resolved(l), LoggedIn(l, current[w])
        PROVE  ShapeInv'
    <3>1. TypeInv'
      BY <2>0, <2>C DEF TypeInv
    <3> QED
      BY <2>B, <2>C, <3>1
  <2>D. ASSUME UNCHANGED <<rows, misread, users, status, current, files>>,
               NEW p \in PageNames, Answer(w, p),
               p = "welcome" => k.name # << >> /\ current[w] = k.name
        PROVE  ShapeInv'
    <3>1. /\ worker' \in [Workers -> Jobs] /\ Others(w) /\ l.at = "send" /\ l.page = p
          /\ l.name = k.name
      BY <2>0, <2>D, AnswerFacts
    <3> QED
      BY <2>C, <2>D, <3>1 DEF Resolved, LoggedIn, Welcomed
  <2>E. ASSUME UNCHANGED <<rows, misread, users, status, current, files>>,
               worker' = [worker EXCEPT ![w] = Idle]
        PROVE  ShapeInv'
    <3>1. worker' \in [Workers -> Jobs] /\ Others(w) /\ l = Idle
      BY <2>0, <2>E, IdleFacts DEF Others
    <3> QED
      BY <2>C, <2>E, <3>1, IdleFacts DEF Resolved, LoggedIn, Welcomed
  <2>1. CASE Ends(w)
    <3>1. TypeInv'
      BY <2>0, <2>1, GoneFacts DEF TypeInv
    <3>2. \A v \in Workers : worker'[v] = Idle
      BY <2>0, <2>1, GoneFacts
    <3> QED
      BY <3>1, <3>2, IdleFacts DEF ShapeInv, Resolved, LoggedIn, Welcomed
  <2>2. CASE Take(w)
    <3>1. /\ worker' \in [Workers -> Jobs] /\ Others(w) /\ l.at = "request"
      BY <2>0, <2>2, TakeFacts
    <3>2. UNCHANGED <<rows, misread, users, status, current, files>>
      BY <2>2 DEF Take
    <3> QED
      BY <2>C, <3>1, <3>2 DEF Resolved, LoggedIn, Welcomed
  <2>3. CASE DoRequest(w)
    <3> DEFINE view == Dispatch(Path(RequestUrl(w)))
    <3>1. UNCHANGED <<rows, misread, users, status, current, files>>
      BY <2>3 DEF DoRequest
    <3>2. CASE \E p \in {"file", "folder"} : Answer(w, p)
      <4>1. {"file", "folder"} \subseteq PageNames
        BY DEF PageNames
      <4> QED
        BY <2>D, <3>1, <3>2, <4>1
    <3>3. CASE view # "none" /\ worker' = [worker EXCEPT ![w].at = "local", ![w].view = view]
      <4>1. view \in DOMAIN Static /\ view \in Views /\ "local" \in Ats
        BY <3>3, DispatchType DEF Views, Ats
      <4> HIDE DEF view
      <4>2. /\ worker' \in [Workers -> Jobs] /\ Others(w)
            /\ l.at = "local" /\ l.view \in DOMAIN Static
        BY <2>0, <3>3, <4>1 DEF Jobs, Others
      <4> QED
        BY <2>C, <3>1, <4>2 DEF Resolved, LoggedIn, Welcomed
    <3> QED
      BY <2>3, <3>2, <3>3 DEF DoRequest
  <2>4. CASE Show(w)
    <3>1. UNCHANGED <<rows, misread, users, status, current, files>>
      BY <2>4 DEF Show
    <3>2. Answer(w, Static[k.view])
      BY <2>4 DEF Show
    <3> QED
      BY <2>4, <2>D, <3>1, <3>2, StaticFacts
  <2>5. CASE GetLocalMap(w) \/ InitLocalMap(w) \/ Lock(w) \/ Insert(w) \/ Inserted(w)
    <3> USE DEF GetLocalMap, InitLocalMap, Lock, Insert, Inserted
    <3>1. PICK to \in {"create", "view", "query", "inserted", "redirect"} :
            Goto(w, to) /\ (to \in {"create", "view"} => k.at \in {"local", "create"})
      BY <2>5 DEF Step
    <3>2. to \in Ats
      BY DEF Ats
    <3>3. UNCHANGED <<rows, misread, status, current, files>>
      BY <2>5
    <3>4. users' = [n \in DOMAIN users' |-> users'[n]]
      BY <2>0, <2>5
    <3>5. TypeInv'
      BY <2>0, <3>1, <3>2, <3>3, <3>4, GotoFacts DEF TypeInv
    <3>6. /\ l.at = to /\ Others(w) /\ l.view = k.view
      BY <2>0, <3>1, <3>2, GotoFacts DEF Same
    <3>7. Resolved(l) /\ LoggedIn(l, current'[w])
      BY <2>A, <3>1, <3>6 DEF Resolved, LoggedIn, Welcomed
    <3> QED
      BY <2>B, <3>3, <3>5, <3>6, <3>7
  <2>6. CASE PutUser(w)
    <3>1. CASE current' = [current EXCEPT ![w] = k.name] /\ Goto(w, "open")
      <4>1. "open" \in Ats
        BY DEF Ats
      <4>2. /\ worker' \in [Workers -> Jobs] /\ Others(w) /\ l.at = "open" /\ l.name = k.name
        BY <2>0, <3>1, <4>1, GotoFacts
      <4>3. k.name # << >> /\ current'[w] = k.name
            /\ \A v \in Workers : v # w => current'[v] = current[v]
        BY <2>0, <2>6, <2>A, <3>1 DEF PutUser, Step, LoggedIn
      <4>4. TypeInv'
        BY <2>0, <2>6, <3>1, <4>2 DEF PutUser, TypeInv
      <4> QED
        BY <2>B, <4>2, <4>3, <4>4 DEF Resolved, LoggedIn, Welcomed
    <3>2. CASE Answer(w, "template") /\ UNCHANGED current
      <4>1. "template" \in PageNames
        BY DEF PageNames
      <4> QED
        BY <2>6, <2>D, <3>2, <4>1 DEF PutUser
    <3> QED
      BY <2>6, <3>1, <3>2 DEF PutUser
  <2>7. CASE Login(w) \/ Register(w) \/ Unlock(w)
    <3> USE DEF Login, Register, Unlock
    <3>1. UNCHANGED <<current, rows, misread, users, files, status>>
      BY <2>7
    <3>2. ASSUME NEW to \in {"render", "lock"}, With(w, to), k.method = "POST",
                 to = "render" => UserOf(w) # << >>
          PROVE  ShapeInv'
      <4>1. to \in Ats
        BY DEF Ats
      <4>2. /\ worker' \in [Workers -> Jobs] /\ Others(w) /\ l.at = to /\ l.name = UserOf(w)
        BY <2>0, <3>2, <4>1, WithFacts
      <4> QED
        BY <2>C, <3>1, <3>2, <4>2 DEF Resolved, LoggedIn, Welcomed
    <3>3. CASE Goto(w, "insert")
      <4>1. "insert" \in Ats
        BY DEF Ats
      <4>2. worker' \in [Workers -> Jobs] /\ Others(w) /\ l.at = "insert"
        BY <2>0, <3>3, <4>1, GotoFacts
      <4> QED
        BY <2>C, <3>1, <4>2 DEF Resolved, LoggedIn, Welcomed
    <3>4. CASE \E p \in {"logError", "registerError"} : Answer(w, p)
      <4>1. {"logError", "registerError"} \subseteq PageNames
        BY DEF PageNames
      <4> QED
        BY <2>D, <3>1, <3>4, <4>1
    <3> QED
      BY <2>7, <3>2, <3>3, <3>4 DEF Posted, Matches
  <2>8. CASE Open(w) \/ WritePage(w)
    <3>1. k.at \in {"open", "write"}
      BY <2>8 DEF Open, WritePage, Step
    <3>2. k.name # << >> /\ current[w] = k.name /\ k.name \in Names
      BY <2>0, <2>A, <3>1 DEF LoggedIn, Given
    <3>3. FileOf[current[w]] \in Names
      BY <3>2, SiteAssumption
    <3>4. files' \in [Names -> Contents]
      <4> DEFINE file == FileOf[current[w]]
      <4>1. file \in Names /\ files[file] \in Contents
        BY <2>0, <3>3
      <4> HIDE DEF file
      <4>2. ASSUME NEW page \in Contents, files' = [files EXCEPT ![file] = page]
            PROVE  files' \in [Names -> Contents]
        BY <2>0, <4>2
      <4>3. CASE files' = [files EXCEPT ![file].there = TRUE]
        BY <2>0, <4>1, <4>3 DEF Contents
      <4>4. CASE UNCHANGED files
        BY <2>0, <4>4
      <4>5. /\ files[file].of \in SUBSET Names /\ files[file].whole \in BOOLEAN
        BY <4>1 DEF Contents
      <4>6. \A of \in {{k.name}, files[file].of \union {k.name}} :
              [there |-> TRUE, of |-> of, whole |-> TRUE] \in Contents
        BY <3>2, <4>5, ContentFacts
      <4>7. [there |-> TRUE, of |-> files[file].of \union {k.name},
             whole |-> files[file].whole /\ k.name \in files[file].of] \in Contents
        BY <3>2, <4>5, ContentFacts
      <4> QED
        BY <2>8, <4>2, <4>3, <4>4, <4>6, <4>7 DEF Open, WritePage, RenderedFile, file
    <3>5. UNCHANGED <<rows, misread, users, status, current>>
      BY <2>8 DEF Open, WritePage
    <3>6. "welcome" \in PageNames /\ "write" \in Ats
      BY DEF PageNames, Ats
    <3>7. CASE Answer(w, "welcome")
      <4>1. /\ worker' \in [Workers -> Jobs] /\ Others(w) /\ l.at = "send" /\ l.name = k.name
        BY <2>0, <3>6, <3>7, AnswerFacts
      <4>2. TypeInv'
        BY <2>0, <3>4, <3>5, <4>1 DEF TypeInv
      <4> QED
        BY <2>B, <3>2, <3>5, <4>1, <4>2 DEF Resolved, LoggedIn, Welcomed
    <3>8. CASE Goto(w, "write")
      <4>1. /\ worker' \in [Workers -> Jobs] /\ Others(w) /\ l.at = "write" /\ l.name = k.name
        BY <2>0, <3>6, <3>8, GotoFacts
      <4>2. TypeInv'
        BY <2>0, <3>4, <3>5, <4>1 DEF TypeInv
      <4> QED
        BY <2>B, <3>2, <3>5, <4>1, <4>2 DEF Resolved, LoggedIn, Welcomed
    <3> QED
      BY <2>8, <3>7, <3>8 DEF Open, WritePage
  <2>9. CASE Query(w)
    <3>1. PICK to \in {"stored", "refused"} : Goto(w, to)
      BY <2>0, <2>9, QueryFacts
    <3>2. to \in Ats
      BY DEF Ats
    <3>3. UNCHANGED <<users, status, current, files>>
      BY <2>9 DEF Query
    <3>4. rows' \in Seq(Stored) /\ misread' \in BOOLEAN
      BY <2>0, <2>9, QueryFacts
    <3>5. worker' \in [Workers -> Jobs] /\ Others(w) /\ l.at = to
      BY <2>0, <3>1, <3>2, GotoFacts
    <3>6. TypeInv'
      BY <2>0, <3>3, <3>4, <3>5 DEF TypeInv
    <3> QED
      BY <2>B, <3>3, <3>5, <3>6 DEF Resolved, LoggedIn, Welcomed
  <2>10. CASE Redirect(w)
    <3>1. UNCHANGED <<rows, misread, users, current, files, status>>
      BY <2>10 DEF Redirect
    <3>2. "request" \in Ats /\ "GET" \in Methods /\ <<"/", "login">> \in Urls /\ << >> \in Bodies
      BY TextsGiven DEF Ats, Methods
    <3>3. worker' \in [Workers -> Jobs] /\ Others(w) /\ l.at = "request"
      BY <2>0, <2>10, <3>2 DEF Redirect, Jobs, Others
    <3> QED
      BY <2>C, <3>1, <3>3 DEF Resolved, LoggedIn, Welcomed
  <2>11. CASE Send(w)
    <3>1. UNCHANGED <<rows, misread, users, current, files, status>>
      BY <2>11 DEF Send
    <3>2. CASE /\ k.page = "welcome"
               /\ worker' = [worker EXCEPT ![w].at = "sent", ![w].shown = files[RenderedFile(w)]]
      <4>1. k.name # << >> /\ current[w] = k.name /\ k.name \in Names
        BY <2>0, <2>11, <2>A, <3>2 DEF Send, Step, LoggedIn, Welcomed, Given
      <4>2. files[RenderedFile(w)] \in Contents
        BY <2>0, <4>1, SiteAssumption DEF RenderedFile
      <4>3. "sent" \in Ats
        BY DEF Ats
      <4>4. /\ worker' \in [Workers -> Jobs] /\ Others(w) /\ l.at = "sent" /\ l.name = k.name
        BY <2>0, <3>2, <4>2, <4>3 DEF Jobs, Others
      <4> QED
        BY <2>C, <3>1, <4>1, <4>4 DEF Resolved, LoggedIn, Welcomed
    <3>3. CASE worker' = [worker EXCEPT ![w] = Idle]
      BY <2>E, <3>1, <3>3
    <3> QED
      BY <2>11, <3>2, <3>3 DEF Send
  <2>12. CASE CloseConn(w)
    BY <2>12, <2>E DEF CloseConn
  <2>13. CASE Finish(w)
    <3>1. worker' \in [Workers -> Jobs] /\ Others(w) /\ l = Idle
      BY <2>0, <2>13, IdleFacts DEF Finish, Others
    <3>2. \A v \in Workers : v # w => current'[v] = current[v]
      BY <2>0, <2>13 DEF Finish
    <3>3. TypeInv'
      BY <2>0, <2>13, <3>1 DEF Finish, TypeInv, Given
    <3> QED
      BY <2>B, <3>1, <3>2, <3>3, IdleFacts DEF Resolved, LoggedIn, Welcomed
  <2> QED
    BY <1>2, <2>1, <2>2, <2>3, <2>4, <2>5, <2>6, <2>7, <2>8, <2>9, <2>10, <2>11, <2>12, <2>13
       DEF WorkerStep, Ends
<1> QED
  BY <1>1, <1>2 DEF Next

LEMMA ShapeAlways == Spec => []ShapeInv
<1>1. ShapeInv /\ [Next]_vars => ShapeInv'
  <2>1. ASSUME ShapeInv, UNCHANGED vars PROVE ShapeInv'
    BY <2>1 DEF vars, storeVars, localVars, ShapeInv, TypeInv
  <2> QED
    BY <2>1, ShapeStep
<1> QED
  BY <1>1, ShapeInit, PTL DEF Spec

-----------------------------------------------------------------------------
(* Routing: the url of a request does not change until the request is      *)
(* redirected, so what was found out about it stays true.                  *)
UrlOf(k) == Relative(k.url, k.method = "POST", k.text)

Routed(k) ==
  /\ k.at \notin {"idle", "request"} => Parses(UrlOf(k))
  /\ k.at \notin {"send", "sent"} => k.page = "none"
  /\ k.at = "local" => k.view = Dispatch(Path(UrlOf(k)))
  /\ k.at = "send" /\ k.page = "folder" => Dispatch(Path(UrlOf(k))) = "none"
  /\ k.at = "send" /\ k.page = "file" => IsResRequest(UrlOf(k))

RouteInv == \A w \in Workers : Routed(worker[w])

LEMMA SameUrl ==
  ASSUME NEW k, NEW l, Same(l, k)
  PROVE  UrlOf(l) = UrlOf(k)
BY DEF UrlOf, Same

LEMMA RouteInit == Init => RouteInv
BY IdleFacts DEF Init, RouteInv, Routed

LEMMA RouteStep ==
  ASSUME ShapeInv, RouteInv, Next
  PROVE  RouteInv'
<1>1. CASE Restart
  BY <1>1 DEF Restart, RouteInv
<1>2. ASSUME NEW w \in Workers, WorkerStep(w)
      PROVE  RouteInv'
  <2> DEFINE k == worker[w]
             l == worker'[w]
  <2>0. /\ worker \in [Workers -> Jobs] /\ k.url \in Urls
        /\ TypeInv /\ RequestUrl(w) = UrlOf(k)
    BY DEF ShapeInv, TypeInv, Jobs, RequestUrl, UrlOf
  <2>A. Routed(k)
    BY DEF RouteInv
  <2>B. ASSUME Others(w), Routed(l)
        PROVE  RouteInv'
    BY <2>B DEF RouteInv, Others
  (* Steps behind the routing.                                             *)
  <2>C. ASSUME NEW to \in Ats \ {"local", "send", "sent"}, Goto(w, to) \/ With(w, to),
               With(w, to) => k.method = "POST",
               k.at \notin {"idle", "request", "send", "sent"}
        PROVE  RouteInv'
    <3>1. Others(w) /\ l.at = to /\ l.page = k.page /\ Same(l, k)
      BY <2>0, <2>C, GotoFacts, WithFacts
    <3>2. UrlOf(l) = UrlOf(k)
      BY <3>1, SameUrl
    <3> QED
      BY <2>A, <2>B, <2>C, <3>1, <3>2 DEF Routed
  <2>D. ASSUME NEW page \in PageNames \ {"file", "folder"}, Answer(w, page),
               k.at \notin {"idle", "request"}
        PROVE  RouteInv'
    <3>1. Others(w) /\ l.at = "send" /\ l.page = page /\ Same(l, k)
      BY <2>0, <2>D, AnswerFacts
    <3>2. UrlOf(l) = UrlOf(k)
      BY <3>1, SameUrl
    <3> QED
      BY <2>A, <2>B, <2>D, <3>1, <3>2 DEF Routed
  <2>E. ASSUME worker' = [worker EXCEPT ![w] = Idle]
        PROVE  RouteInv'
    <3>1. Others(w) /\ l = Idle
      BY <2>0, <2>E DEF Others
    <3> QED
      BY <2>B, <3>1, IdleFacts DEF Routed
  <2>1. CASE Ends(w)
    <3>1. \A v \in Workers : worker'[v] = Idle
      BY <2>0, <2>1, GoneFacts
    <3> QED
      BY <3>1, IdleFacts DEF RouteInv, Routed
  <2>2. CASE Take(w)
    BY <2>0, <2>2, <2>B, TakeFacts DEF Routed
  <2>3. CASE DoRequest(w)
    <3>1. k.at = "request" /\ Parses(UrlOf(k)) /\ k.page = "none"
      BY <2>0, <2>3, <2>A DEF DoRequest, Step, Routed
    <3>2. CASE IsResRequest(UrlOf(k)) /\ Answer(w, "file")
      <4>1. "file" \in PageNames
        BY DEF PageNames
      <4>2. Others(w) /\ l.at = "send" /\ l.page = "file" /\ Same(l, k)
        BY <2>0, <3>2, <4>1, AnswerFacts
      <4>3. UrlOf(l) = UrlOf(k)
        BY <4>2, SameUrl
      <4> QED
        BY <2>B, <3>1, <3>2, <4>2, <4>3 DEF Routed
    <3>3. CASE Dispatch(Path(UrlOf(k))) = "none" /\ Answer(w, "folder")
      <4>1. "folder" \in PageNames
        BY DEF PageNames
      <4>2. Others(w) /\ l.at = "send" /\ l.page = "folder" /\ Same(l, k)
        BY <2>0, <3>3, <4>1, AnswerFacts
      <4>3. UrlOf(l) = UrlOf(k)
        BY <4>2, SameUrl
      <4> QED
        BY <2>B, <3>1, <3>3, <4>2, <4>3 DEF Routed
    <3>4. CASE worker' = [worker EXCEPT ![w].at = "local",
                                        ![w].view = Dispatch(Path(UrlOf(k)))]
      <4> DEFINE view == Dispatch(Path(UrlOf(k)))
      <4>1. worker' = [worker EXCEPT ![w].at = "local", ![w].view = view]
        BY <3>4
      <4> HIDE DEF view
      <4>2. /\ l.at = "local" /\ l.view = view /\ l.page = k.page
            /\ l.method = k.method /\ l.url = k.url /\ l.text = k.text /\ Others(w)
        BY <2>0, <4>1 DEF Jobs, Others
      <4>3. UrlOf(l) = UrlOf(k)
        BY <4>2 DEF UrlOf
      <4> QED
        BY <2>B, <3>1, <4>2, <4>3 DEF Routed, view
    <3> QED
      BY <2>0, <2>3, <3>2, <3>3, <3>4 DEF DoRequest
  <2>4. CASE GetLocalMap(w) \/ InitLocalMap(w) \/ Lock(w) \/ Insert(w) \/ Inserted(w)
               \/ Query(w)
    <3>1. PICK to \in {"create", "view", "query", "inserted", "redirect",
                       "stored", "refused"} : Goto(w, to)
      <4>1. CASE Query(w)
        BY <2>0, <4>1, QueryFacts
      <4> QED
        BY <2>4, <4>1 DEF GetLocalMap, InitLocalMap, Lock, Insert, Inserted
    <3>2. k.at \in {"local", "create", "lock", "insert", "inserted", "query"}
      BY <2>4 DEF GetLocalMap, InitLocalMap, Lock, Insert, Inserted, Query, Step
    <3>4. to \in Ats \ {"local", "send", "sent"}
      BY DEF Ats
    <3>5. Others(w) /\ l.at = to /\ l.page = k.page /\ Same(l, k)
      BY <2>0, <3>1, <3>4, GotoFacts
    <3>6. UrlOf(l) = UrlOf(k)
      BY <3>5, SameUrl
    <3> QED
      BY <2>A, <2>B, <3>2, <3>4, <3>5, <3>6 DEF Routed
  <2>5. CASE Show(w)
    BY <2>5, <2>D, StaticFacts DEF Show
  <2>6. CASE Login(w) \/ Register(w)
    <3> USE DEF Login, Register
    <3>1. k.at = "view" /\ k.method = "POST"
      BY <2>6 DEF Posted, Step
    <3>2. CASE \E to \in {"render", "lock"} : With(w, to)
      <4>1. {"render", "lock"} \subseteq Ats \ {"local", "send", "sent"}
        BY DEF Ats
      <4> QED
        BY <2>C, <3>1, <3>2, <4>1
    <3>3. CASE \E page \in {"logError", "registerError"} : Answer(w, page)
      <4>1. {"logError", "registerError"} \subseteq PageNames \ {"file", "folder"}
        BY DEF PageNames
      <4> QED
        BY <2>D, <3>1, <3>3, <4>1
    <3> QED
      BY <2>6, <3>2, <3>3
  <2>7. CASE PutUser(w) \/ Open(w) \/ WritePage(w) \/ Unlock(w)
    <3> USE DEF PutUser, Open, WritePage, Unlock
    <3>1. k.at \in {"render", "open", "write", "stored", "refused"}
      BY <2>7 DEF Step
    <3>2. CASE \E to \in {"open", "write", "insert"} : Goto(w, to)
      <4>1. PICK to \in {"open", "write", "insert"} : Goto(w, to)
        BY <3>2
      <4>2. to \in Ats
        BY DEF Ats
      <4>3. Others(w) /\ l.at = to /\ l.page = k.page /\ Same(l, k)
        BY <2>0, <4>1, <4>2, GotoFacts
      <4>4. UrlOf(l) = UrlOf(k)
        BY <4>3, SameUrl
      <4> QED
        BY <2>A, <2>B, <3>1, <4>3, <4>4 DEF Routed
    <3>3. CASE \E page \in {"welcome", "template", "registerError"} : Answer(w, page)
      <4>1. {"welcome", "template", "registerError"} \subseteq PageNames \ {"file", "folder"}
        BY DEF PageNames
      <4> QED
        BY <2>D, <3>1, <3>3, <4>1
    <3> QED
      BY <2>7, <3>2, <3>3
  <2>8. CASE Redirect(w)
    <3>1. k.at = "redirect" /\ k.page = "none"
      BY <2>8, <2>A DEF Redirect, Step, Routed
    <3>2. /\ l.at = "request" /\ l.page = k.page /\ Others(w)
      BY <2>0, <2>8 DEF Redirect, Jobs, Others
    <3> QED
      BY <2>B, <3>1, <3>2 DEF Routed
  <2>9. CASE Send(w)
    <3>1. CASE worker' = [worker EXCEPT ![w].at = "sent",
                                        ![w].shown = files[RenderedFile(w)]]
      <4>1. /\ l.at = "sent" /\ Others(w)
            /\ l.method = k.method /\ l.url = k.url /\ l.text = k.text
        BY <2>0, <3>1 DEF Jobs, Others
      <4>2. UrlOf(l) = UrlOf(k) /\ k.at = "send"
        BY <2>9, <4>1 DEF Send, Step, UrlOf
      <4> QED
        BY <2>A, <2>B, <4>1, <4>2 DEF Routed
    <3> QED
      BY <2>9, <2>E, <3>1 DEF Send
  <2>10. CASE CloseConn(w) \/ Finish(w)
    BY <2>10, <2>E DEF CloseConn, Finish
  <2> QED
    BY <1>2, <2>1, <2>2, <2>3, <2>4, <2>5, <2>6, <2>7, <2>8, <2>9, <2>10
       DEF WorkerStep, Ends
<1> QED
  BY <1>1, <1>2 DEF Next

LEMMA RouteAlways == Spec => []RouteInv
<1>1. RouteInv /\ UNCHANGED vars => RouteInv'
  BY DEF vars, RouteInv
<1>2. ShapeInv /\ RouteInv /\ [Next]_vars => RouteInv'
  BY <1>1, RouteStep
<1> QED
  BY <1>2, RouteInit, ShapeAlways, PTL DEF Spec

(* The texts of a request are sequences over one set of symbols.           *)
LEMMA TextFacts ==
  ASSUME NEW k \in Jobs
  PROVE  \E S : "?" \in S /\ k.url \in Seq(S) /\ k.text \in Seq(S)
<1> DEFINE S == {"?"} \union Range(k.url) \union Range(k.text)
<1>1. k.url \in Urls /\ k.text \in Bodies
  BY DEF Jobs
<1>2. << >> \in Seq(Range(<< >>)) /\ <<"/", "login">> \in Seq(Range(<<"/", "login">>))
  BY DEF Range
<1>3. k.url \in Seq(Range(k.url)) /\ k.text \in Seq(Range(k.text))
  <2>1. \A url \in Urls : url \in Seq(Range(url))
    BY <1>2, SiteAssumption DEF Urls, IsText
  <2>2. \A body \in Bodies : body \in Seq(Range(body))
    BY <1>2, SiteAssumption DEF Bodies, IsText
  <2> QED
    BY <1>1, <2>1, <2>2
<1>4. Range(k.url) \subseteq S /\ Range(k.text) \subseteq S /\ "?" \in S
  OBVIOUS
<1> HIDE DEF S
<1>5. k.url \in Seq(S) /\ k.text \in Seq(S)
  BY <1>3, <1>4, SeqMonotonic
<1> QED
  BY <1>4, <1>5

(* What parses is not empty.                                               *)
LEMMA NotEmpty ==
  ASSUME NEW S, "?" \in S, NEW url \in Seq(S), NEW body \in Seq(S), NEW cgi \in BOOLEAN,
         Parses(Relative(url, cgi, body))
  PROVE  Len(url) > 0
<1> SUFFICES ASSUME url = << >> PROVE FALSE
  BY LenProperties, EmptySeq
<1>1. CASE ~cgi
  BY <1>1, EmptySeq DEF Relative, Parses, Absolute
<1>2. CASE cgi
  <2> DEFINE mark == <<"?">>
             head == url \o mark
             rel == head \o body
  <2>1. ~Has(url, "?")
    BY DEF Has
  <2>2. Relative(url, cgi, body) = rel
    BY <1>2, <2>1 DEF Relative
  <2>3. mark \in Seq(S) /\ Len(mark) = 1 /\ mark[1] = "?" /\ head = mark
    BY ConcatEmptySeq
  <2>4. Len(rel) > 0 /\ rel[1] = "?"
    <3> HIDE DEF mark, head
    <3>1. mark \in Seq(S) /\ rel = mark \o body /\ Len(body) \in Nat
      BY <2>3, LenProperties
    <3>2. /\ Len(mark \o body) = Len(mark) + Len(body)
          /\ \A i \in 1 .. Len(mark) + Len(body) :
               (mark \o body)[i] = IF i <= Len(mark) THEN mark[i] ELSE body[i - Len(mark)]
      BY <3>1, ConcatProperties
    <3> HIDE DEF rel
    <3> QED
      BY <2>3, <3>1, <3>2
  <2> HIDE DEF rel
  <2> QED
    BY <2>2, <2>4 DEF Parses, Absolute
<1> QED
  BY <1>1, <1>2

(* Without a dot in the url or the body there is none in the two together. *)
LEMMA NoDotTogether ==
  ASSUME NEW S, "?" \in S, NEW url \in Seq(S), NEW body \in Seq(S), NEW cgi \in BOOLEAN,
         ~Has(url, "."), ~Has(body, ".")
  PROVE  /\ ~Has(Relative(url, cgi, body), ".")
         /\ Relative(url, cgi, body) \in Seq(S)
<1>0. ASSUME NEW p \in Seq(S), NEW q \in Seq(S), ~Has(p, "."), ~Has(q, ".")
      PROVE  ~Has(p \o q, ".") /\ p \o q \in Seq(S)
  <2> DEFINE r == p \o q
  <2>1. /\ DOMAIN p = 1..Len(p) /\ DOMAIN q = 1..Len(q)
        /\ Len(p) \in Nat /\ Len(q) \in Nat
    BY LenProperties
  <2>2. /\ r \in Seq(S) /\ Len(r) = Len(p) + Len(q)
        /\ \A i \in 1..Len(p) + Len(q) :
             r[i] = IF i <= Len(p) THEN p[i] ELSE q[i - Len(p)]
    BY ConcatProperties
  <2> HIDE DEF r
  <2>3. DOMAIN r = 1..Len(p) + Len(q)
    BY <2>2, LenProperties
  <2>4. ASSUME NEW i \in 1..Len(p) + Len(q) PROVE r[i] # "."
    <3>1. CASE i <= Len(p)
      <4>1. i \in 1..Len(p)
        BY <2>1, <3>1
      <4> QED
        BY <1>0, <2>1, <2>2, <3>1, <4>1 DEF Has
    <3>2. CASE ~(i <= Len(p))
      <4>1. i - Len(p) \in 1..Len(q)
        BY <2>1, <3>2
      <4> QED
        BY <1>0, <2>1, <2>2, <3>2, <4>1 DEF Has
    <3> QED
      BY <3>1, <3>2
  <2>5. ~Has(r, ".")
    BY <2>3, <2>4 DEF Has
  <2> QED
    BY <2>2, <2>5 DEF r
<1>1. <<"?">> \in Seq(S) /\ ~Has(<<"?">>, ".")
  BY DEF Has
<1>2. ~Has(url \o <<"?">>, ".") /\ url \o <<"?">> \in Seq(S)
  BY <1>0, <1>1
<1>3. ~Has((url \o <<"?">>) \o body, ".") /\ (url \o <<"?">>) \o body \in Seq(S)
  BY <1>0, <1>2
<1>4. ~Has(url \o body, ".") /\ url \o body \in Seq(S)
  BY <1>0
<1> QED
  BY <1>3, <1>4 DEF Relative

(* For every url, every body and all that is left of earlier ones: a       *)
(* request, sent or redirected, gets the view its route names, whatever    *)
(* its query is and whatever is appended to it.                            *)
THEOREM RoutesGetTheirView == Spec => []RightView
<1>1. ShapeInv /\ RouteInv => RightView
  <2> SUFFICES ASSUME ShapeInv, RouteInv, NEW w \in Workers,
                      worker[w].at \in {"local", "send"}, worker[w].url[1] = "/",
                      ~Has(worker[w].url, "."), ~Has(worker[w].text, ".")
               PROVE  /\ worker[w].at = "local" => worker[w].view = Named(Bare(worker[w].url))
                      /\ worker[w].page = "folder" => Named(Bare(worker[w].url)) = "none"
                      /\ worker[w].page # "file"
    BY DEF RightView
  <2> DEFINE k == worker[w]
             cgi == k.method = "POST"
             body == k.text
  <2>1. k \in Jobs
    BY DEF ShapeInv, TypeInv
  <2>2. PICK S : "?" \in S /\ k.url \in Seq(S) /\ body \in Seq(S)
    BY <2>1, TextFacts
  <2>3. cgi \in BOOLEAN /\ UrlOf(k) = Relative(k.url, cgi, body)
    BY DEF UrlOf
  <2>4. Routed(k)
    BY DEF RouteInv
  <2>5. Parses(UrlOf(k))
    BY <2>4 DEF Routed
  <2> HIDE DEF cgi, body
  <2>6. Len(k.url) > 0
    BY <2>2, <2>3, <2>5, NotEmpty
  <2>7. Dispatch(Path(UrlOf(k))) = Named(Bare(k.url))
    BY <2>2, <2>3, <2>6, RouteIsName
  <2>8. ~IsResRequest(UrlOf(k))
    <3>1. ~Has(body, ".")
      BY DEF body
    <3> QED
      BY <2>2, <2>3, <3>1, NoDotTogether, NoDotNoFile
  <2>9. k.at = "local" => k.page = "none"
    BY <2>4 DEF Routed
  <2> QED
    BY <2>4, <2>7, <2>8, <2>9 DEF Routed
<1> QED
  BY <1>1, ShapeAlways, RouteAlways, PTL

-----------------------------------------------------------------------------
(* Logging in: what is looked up in the users map is in the table, where   *)
(* nothing is ever taken out, and a file that only one name has holds no   *)
(* page of another, whoever wrote it last.                                 *)
InTable(stored, name, pass) == \E i \in DOMAIN stored : stored[i] = <<name, pass>>

Known(k) == k.at \in {"render", "open", "write", "stored", "insert", "inserted", "sent"}
            \/ Welcomed(k)

Own(page, n) == /\ page.of \subseteq {n}
                /\ setting.room /\ page.of # {} => page.whole

Entitled(k) == /\ Known(k) => misread \/ InTable(rows, k.name, k.pass)
               /\ k.at = "sent" /\ Alone(k.name) =>
                    Own(k.shown, k.name) /\ k.shown.of # {}

Loaded == \A n \in DOMAIN users : misread \/ InTable(rows, n, users[n])

WelcomeInv == /\ \A w \in Workers : Entitled(worker[w])
              /\ \A n \in Names : Alone(n) => Own(files[FileOf[n]], n)
              /\ Loaded

(* The latest row of a name decides.                                       *)
LEMMA LatestExists ==
  ASSUME NEW S, NEW stored \in Seq(S), NEW n \in {stored[i][1] : i \in DOMAIN stored}
  PROVE  \E i \in DOMAIN stored : /\ stored[i][1] = n
                                  /\ \A j \in DOMAIN stored : stored[j][1] = n => j <= i
                                  /\ Load(stored)[n] = stored[i][2]
<1> DEFINE at == {i \in 1..Len(stored) : stored[i][1] = n}
           Latest(i) == stored[i][1] = n /\ \A j \in DOMAIN stored : stored[j][1] = n => j <= i
           last == CHOOSE i \in DOMAIN stored : Latest(i)
<1>1. DOMAIN stored = 1..Len(stored) /\ Len(stored) \in Nat
  BY LenProperties
<1>2. at \in SUBSET (1..Len(stored)) /\ at # {}
  BY <1>1
<1>3. PICK m \in at : \A i \in at : i <= m
  <2> HIDE DEF at
  <2> QED
    BY <1>1, <1>2, GreatestElement
<1>4. m \in DOMAIN stored /\ Latest(m)
  BY <1>1, <1>3
<1>5. Load(stored)[n] = stored[last][2]
  BY DEF Load
<1>6. last \in DOMAIN stored /\ Latest(last)
  <2> HIDE DEF Latest
  <2> QED
    BY <1>4
<1> HIDE DEF last
<1> QED
  BY <1>5, <1>6

LEMMA StoredArePairs == \A r \in Stored : r = <<r[1], r[2]>>
<1>1. ASSUME NEW a, NEW b PROVE <<a, b>> = <<<<a, b>>[1], <<a, b>>[2]>>
  OBVIOUS
<1>2. \A r \in OtherRows : r = <<r[1], r[2]>>
  BY SiteAssumption
<1> QED
  BY <1>1, <1>2 DEF Stored

(* What is loaded is in the table.                                         *)
LEMMA LoadedIsStored ==
  ASSUME NEW stored \in Seq(Stored), NEW n \in DOMAIN Load(stored)
  PROVE  InTable(stored, n, Load(stored)[n])
<1>1. n \in {stored[i][1] : i \in DOMAIN stored}
  BY LoadIsFunction
<1>2. PICK i \in DOMAIN stored : stored[i][1] = n /\ Load(stored)[n] = stored[i][2]
  BY <1>1, LatestExists
<1>3. stored[i] \in Stored
  BY LenProperties, ElementOfSeq
<1>4. stored[i] = <<n, Load(stored)[n]>>
  BY <1>2, <1>3, StoredArePairs
<1> QED
  BY <1>4 DEF InTable

(* A row that was stored stays.                                            *)
LEMMA RowsStay ==
  ASSUME NEW S, NEW q \in Seq(S), NEW x \in S, NEW name, NEW pass
  PROVE  /\ InTable(q, name, pass) => InTable(Append(q, x), name, pass)
         /\ x = <<name, pass>> => InTable(Append(q, x), name, pass)
<1> DEFINE r == Append(q, x)
<1>1. /\ Len(q) \in Nat /\ DOMAIN q = 1..Len(q) /\ DOMAIN r = 1..(Len(q) + 1)
      /\ r[Len(q) + 1] = x /\ \A i \in 1..Len(q) : r[i] = q[i]
  BY RowFacts
<1> HIDE DEF r
<1>2. InTable(q, name, pass) => InTable(r, name, pass)
  BY <1>1 DEF InTable
<1>3. x = <<name, pass>> => InTable(r, name, pass)
  <2>1. Len(q) + 1 \in DOMAIN r
    BY <1>1
  <2> QED
    BY <1>1, <2>1 DEF InTable
<1> QED
  BY <1>2, <1>3 DEF r

LEMMA WelcomeInit == Init => WelcomeInv
<1> SUFFICES ASSUME Init PROVE WelcomeInv
  OBVIOUS
<1>1. rows \in Seq(Stored) /\ users = Load(rows)
  BY TypeInit DEF TypeInv, Init
<1>2. Loaded
  BY <1>1, LoadedIsStored DEF Loaded
<1>3. \A w \in Workers : worker[w] = Idle
  BY DEF Init
<1>4. \A n \in Names : FileOf[n] \in Names /\ files[FileOf[n]] = NoFile
  BY SiteAssumption DEF Init
<1> QED
  BY <1>2, <1>3, <1>4, IdleFacts, NoFileFacts
     DEF WelcomeInv, Entitled, Known, Welcomed, Own

LEMMA WelcomeStep ==
  ASSUME ShapeInv, WelcomeInv, Next
  PROVE  WelcomeInv'
<1> USE DEF storeVars, localVars, objectVars
<1>0. /\ TypeInv /\ rows \in Seq(Stored) /\ worker \in [Workers -> Jobs]
      /\ files \in [Names -> Contents] /\ setting' = setting /\ misread \in BOOLEAN
  BY DEF ShapeInv, TypeInv, Next
<1>A. /\ \A w \in Workers : Entitled(worker[w])
      /\ \A n \in Names : Alone(n) => Own(files[FileOf[n]], n)
      /\ \A n \in DOMAIN users : misread \/ InTable(rows, n, users[n])
  BY DEF WelcomeInv, Loaded
<1>1. CASE Restart
  <2>1. users' = Load(rows) /\ UNCHANGED <<rows, misread, files, worker, setting>>
    BY <1>0, <1>1 DEF Restart
  <2>2. \A n \in DOMAIN users' : InTable(rows, n, users'[n])
    BY <1>0, <2>1, LoadedIsStored
  <2> QED
    BY <1>A, <2>1, <2>2 DEF WelcomeInv, Entitled, Loaded, Own
<1>2. ASSUME NEW w \in Workers, WorkerStep(w)
      PROVE  WelcomeInv'
  <2> DEFINE k == worker[w]
             l == worker'[w]
  <2>0. k \in Jobs /\ k.name \in Given
    BY <1>0 DEF Jobs
  <2>A. Entitled(k) /\ LoggedIn(k, current[w])
    BY <1>A DEF ShapeInv
  (* Steps that store nothing, render nothing and add no user.             *)
  <2>B. ASSUME UNCHANGED <<rows, misread, files, users>>, Entitled(worker[w])', Others(w)
        PROVE  WelcomeInv'
    <3>1. ASSUME NEW v \in Workers PROVE Entitled(worker[v])'
      <4>1. CASE v = w
        BY <2>B, <4>1
      <4>2. CASE v # w
        BY <1>0, <1>A, <2>B, <4>2 DEF Others, Entitled, Own
      <4> QED
        BY <4>1, <4>2
    <3>2. Loaded'
      BY <1>A, <2>B DEF Loaded
    <3>3. (\A n \in Names : Alone(n) => Own(files[FileOf[n]], n))'
      BY <1>0, <1>A, <2>B DEF Own
    <3> QED
      BY <3>1, <3>2, <3>3 DEF WelcomeInv
  <2>C. ASSUME UNCHANGED <<rows, misread, files, users>>, NEW to \in Ats \ {"send", "sent"},
               Goto(w, to),
               to \in {"render", "open", "write", "stored", "insert", "inserted"}
                 => misread \/ InTable(rows, k.name, k.pass)
        PROVE  WelcomeInv'
    <3>1. l.at = to /\ l.name = k.name /\ l.pass = k.pass /\ Others(w)
      BY <1>0, <2>C, GotoFacts
    <3>2. Entitled(worker[w])'
      BY <2>C, <3>1 DEF Entitled, Known, Welcomed
    <3> QED
      BY <2>B, <2>C, <3>1, <3>2
  <2>D. ASSUME UNCHANGED <<rows, misread, files, users>>, NEW p \in PageNames, Answer(w, p),
               p # "welcome"
        PROVE  WelcomeInv'
    <3>1. l.at = "send" /\ l.page = p /\ Others(w)
      BY <1>0, <2>D, AnswerFacts
    <3>2. Entitled(worker[w])'
      BY <2>D, <3>1 DEF Entitled, Known, Welcomed
    <3> QED
      BY <2>B, <2>D, <3>1, <3>2
  <2>E. ASSUME UNCHANGED <<rows, misread, files, users>>,
               l.at \in {"idle", "request", "local", "lock"}, Others(w)
        PROVE  WelcomeInv'
    <3>1. Entitled(worker[w])'
      BY <2>E DEF Entitled, Known, Welcomed
    <3> QED
      BY <2>B, <2>E, <3>1
  <2>F. ASSUME UNCHANGED <<rows, misread, files, users>>, worker' = [worker EXCEPT ![w] = Idle]
        PROVE  WelcomeInv'
    <3>1. l = Idle /\ Others(w)
      BY <1>0, <2>F DEF Others
    <3> QED
      BY <2>E, <2>F, <3>1, IdleFacts
  <2>1. CASE Ends(w)
    <3>1. /\ \A v \in Workers : worker'[v] = Idle
          /\ rows' = rows /\ misread' = misread /\ files' = files /\ DOMAIN users' = {}
      BY <1>0, <2>1, GoneFacts
    <3>2. \A v \in Workers : Entitled(worker[v])'
      BY <3>1, IdleFacts DEF Entitled, Known, Welcomed
    <3>3. (\A n \in Names : Alone(n) => Own(files[FileOf[n]], n))'
      BY <1>0, <1>A, <3>1 DEF Own
    <3> QED
      BY <3>1, <3>2, <3>3 DEF WelcomeInv, Loaded
  <2>2. CASE Take(w)
    <3>1. UNCHANGED <<rows, misread, files, users>>
      BY <2>2 DEF Take
    <3>2. l.at = "request" /\ Others(w)
      BY <1>0, <2>2, TakeFacts
    <3> QED
      BY <2>E, <3>1, <3>2
  <2>3. CASE DoRequest(w)
    <3>1. UNCHANGED <<rows, misread, files, users>>
      BY <2>3 DEF DoRequest
    <3>2. CASE \E p \in {"file", "folder"} : Answer(w, p)
      <4>1. {"file", "folder"} \subseteq PageNames
        BY DEF PageNames
      <4> QED
        BY <2>D, <3>1, <3>2, <4>1
    <3>3. CASE worker' = [worker EXCEPT ![w].at = "local",
                                        ![w].view = Dispatch(Path(RequestUrl(w)))]
      <4>1. l.at = "local" /\ Others(w)
        BY <1>0, <3>3 DEF Jobs, Others
      <4> QED
        BY <2>E, <3>1, <4>1
    <3> QED
      BY <2>3, <3>2, <3>3 DEF DoRequest
  <2>4. CASE GetLocalMap(w) \/ InitLocalMap(w) \/ Lock(w) \/ Insert(w)
    <3> USE DEF GetLocalMap, InitLocalMap, Lock, Insert
    <3>1. PICK to \in {"create", "view", "query", "inserted"} :
            Goto(w, to) /\ (to = "inserted" => k.at = "insert")
      BY <2>4 DEF Step
    <3>2. to \in Ats \ {"send", "sent"}
      BY DEF Ats
    <3>3. UNCHANGED <<rows, misread, files, users>>
      BY <2>4
    <3>4. to = "inserted" => misread \/ InTable(rows, k.name, k.pass)
      BY <2>A, <3>1 DEF Entitled, Known
    <3> QED
      BY <2>C, <3>1, <3>2, <3>3, <3>4
  <2>5. CASE Login(w)
    <3>1. UNCHANGED <<rows, misread, files, users>> /\ k.method = "POST"
      BY <2>5 DEF Login, Posted
    <3>2. CASE Matches(UserOf(w), PasswordOf(w)) /\ With(w, "render")
      <4> DEFINE name == UserOf(w)
                 pass == PasswordOf(w)
      <4>1. "render" \in Ats
        BY DEF Ats
      <4>2. l.at = "render" /\ l.name = name /\ l.pass = pass /\ Others(w)
        BY <1>0, <3>1, <3>2, <4>1, WithFacts
      <4> HIDE DEF name, pass
      <4>3. misread \/ InTable(rows, name, pass)
        BY <1>A, <3>2 DEF Matches, Registered, name, pass
      <4>4. Entitled(worker[w])'
        BY <3>1, <4>2, <4>3 DEF Entitled, Known, Welcomed
      <4> QED
        BY <2>B, <3>1, <4>2, <4>4
    <3>3. CASE Answer(w, "logError")
      <4>1. "logError" \in PageNames
        BY DEF PageNames
      <4> QED
        BY <2>D, <3>1, <3>3, <4>1
    <3> QED
      BY <2>5, <3>2, <3>3 DEF Login
  <2>6. CASE Register(w)
    <3>1. UNCHANGED <<rows, misread, files, users>> /\ k.method = "POST"
      BY <2>6 DEF Register, Posted
    <3>2. CASE With(w, "lock")
      <4>1. "lock" \in Ats
        BY DEF Ats
      <4>2. l.at = "lock" /\ Others(w)
        BY <1>0, <3>1, <3>2, <4>1, WithFacts
      <4> QED
        BY <2>E, <3>1, <4>2
    <3>3. CASE Answer(w, "registerError")
      <4>1. "registerError" \in PageNames
        BY DEF PageNames
      <4> QED
        BY <2>D, <3>1, <3>3, <4>1
    <3> QED
      BY <2>6, <3>2, <3>3 DEF Register
  <2>7. CASE Unlock(w)
    <3>1. UNCHANGED <<rows, misread, files, users>>
      BY <2>7 DEF Unlock
    <3>2. CASE k.at = "stored" /\ Goto(w, "insert")
      <4>1. "insert" \in Ats \ {"send", "sent"}
        BY DEF Ats
      <4>2. misread \/ InTable(rows, k.name, k.pass)
        BY <2>A, <3>2 DEF Entitled, Known
      <4> QED
        BY <2>C, <3>1, <3>2, <4>1, <4>2
    <3>3. CASE Answer(w, "registerError")
      <4>1. "registerError" \in PageNames
        BY DEF PageNames
      <4> QED
        BY <2>D, <3>1, <3>3, <4>1
    <3> QED
      BY <2>7, <3>2, <3>3 DEF Unlock, Step
  <2>8. CASE Show(w)
    BY <2>8, <2>D, StaticFacts DEF Show
  <2>9. CASE PutUser(w)
    <3>1. UNCHANGED <<rows, misread, files, users>> /\ k.at = "render"
      BY <2>9 DEF PutUser, Step
    <3>2. misread \/ InTable(rows, k.name, k.pass)
      BY <2>A, <3>1 DEF Entitled, Known
    <3>3. "open" \in Ats \ {"send", "sent"} /\ "template" \in PageNames
      BY DEF Ats, PageNames
    <3>4. CASE Goto(w, "open")
      BY <2>C, <3>1, <3>2, <3>3, <3>4
    <3>5. CASE Answer(w, "template")
      BY <2>D, <3>1, <3>3, <3>5
    <3> QED
      BY <2>9, <3>4, <3>5 DEF PutUser
  <2>10. CASE Redirect(w)
    <3>1. l.at = "request" /\ Others(w)
      BY <1>0, <2>10 DEF Redirect, Jobs, Others
    <3> QED
      BY <2>10, <2>E, <3>1 DEF Redirect
  <2>11. CASE CloseConn(w) \/ Finish(w)
    BY <2>11, <2>F DEF CloseConn, Finish
  <2>12. CASE Send(w)
    <3>1. UNCHANGED <<rows, misread, files, users>> /\ k.at = "send"
      BY <2>12 DEF Send, Step
    <3> DEFINE file == files[RenderedFile(w)]
    <3>2. CASE /\ k.page = "welcome" /\ file.of # {}
               /\ worker' = [worker EXCEPT ![w].at = "sent", ![w].shown = file]
      <4>1. Welcomed(k) /\ k.name # << >> /\ current[w] = k.name /\ k.name \in Names
        BY <2>0, <2>A, <3>1, <3>2 DEF LoggedIn, Welcomed, Given
      <4>2. file = files[FileOf[k.name]]
        BY <4>1 DEF RenderedFile
      <4> HIDE DEF file
      <4>3. Alone(k.name) => Own(file, k.name)
        BY <1>A, <4>1, <4>2
      <4>4. /\ l.at = "sent" /\ l.shown = file /\ l.name = k.name /\ l.pass = k.pass
            /\ Others(w)
        BY <1>0, <3>2 DEF Jobs, Others
      <4>5. misread \/ InTable(rows, k.name, k.pass)
        BY <2>A, <4>1 DEF Entitled, Known
      <4>6. Entitled(worker[w])'
        BY <1>0, <3>1, <3>2, <4>3, <4>4, <4>5 DEF Entitled, Known, Welcomed, Own
      <4> QED
        BY <2>B, <3>1, <4>4, <4>6
    <3>3. CASE worker' = [worker EXCEPT ![w] = Idle]
      BY <2>F, <3>1, <3>3
    <3> QED
      BY <2>12, <3>2, <3>3 DEF Send
  <2>13. CASE Open(w) \/ WritePage(w)
    <3>1. k.at \in {"open", "write"} /\ UNCHANGED <<rows, misread, users>>
      BY <2>13 DEF Open, WritePage, Step
    <3>2. k.name # << >> /\ current[w] = k.name /\ k.name \in Names
      BY <2>0, <2>A, <3>1 DEF LoggedIn, Given
    <3>3. (\E to \in {"write"} : Goto(w, to)) \/ Answer(w, "welcome")
      BY <2>13 DEF Open, WritePage
    <3>4. "write" \in Ats /\ "welcome" \in PageNames
      BY DEF Ats, PageNames
    <3>5. /\ l.at \in {"write", "send"} /\ l.name = k.name /\ l.pass = k.pass /\ Others(w)
      BY <1>0, <3>3, <3>4, GotoFacts, AnswerFacts
    <3>6. misread \/ InTable(rows, k.name, k.pass)
      BY <2>A, <3>1 DEF Entitled, Known
    <3>7. \A v \in Workers : Entitled(worker[v])'
      <4>1. Entitled(worker[w])'
        BY <3>1, <3>5, <3>6 DEF Entitled
      <4> QED
        BY <1>0, <1>A, <3>1, <3>5, <4>1 DEF Others, Entitled, Own
    <3>8. ASSUME NEW n \in Names, Alone(n)
          PROVE  Own(files[FileOf[n]], n)'
      <4> DEFINE mine == FileOf[k.name]
                 that == FileOf[n]
                 old == files[mine]
      <4>1. mine \in Names /\ that \in Names
        BY <3>2, SiteAssumption
      <4>2. that = mine => n = k.name
        BY <3>2, <3>8 DEF Alone
      <4>3. Own(files[that], n)
        BY <1>A, <3>8
      <4>4. RenderedFile(w) = mine
        BY <3>2 DEF RenderedFile
      <4>5. \/ files' = files
            \/ files' = [files EXCEPT ![mine].there = TRUE]
            \/ \E of \in {{k.name}, old.of \union {k.name}} :
                 files' = [files EXCEPT ![mine] = [there |-> TRUE, of |-> of, whole |-> TRUE]]
            \/ /\ ~setting.room
               /\ files' = [files EXCEPT ![mine] =
                              [there |-> TRUE, of |-> old.of \union {k.name},
                               whole |-> old.whole /\ k.name \in old.of]]
        <5>1. CASE Open(w)
          BY <4>4, <5>1 DEF Open
        <5>2. CASE WritePage(w)
          BY <4>4, <5>2 DEF WritePage
        <5> QED
          BY <2>13, <5>1, <5>2
      <4> HIDE DEF mine, that
      <4>6. CASE that # mine
        <5>1. files'[that] = files[that]
          BY <1>0, <4>1, <4>5, <4>6
        <5> QED
          BY <1>0, <4>3, <5>1 DEF Own, that
      <4>7. CASE that = mine
        <5>1. n = k.name /\ Own(old, n) /\ old \in Contents
          BY <1>0, <4>1, <4>2, <4>3, <4>7
        <5>2. /\ files'[mine].of \subseteq {n}
              /\ setting.room /\ files'[mine].of # {} => files'[mine].whole
          <6>1. CASE files' = files
            BY <5>1, <6>1 DEF Own
          <6>2. CASE files' = [files EXCEPT ![mine].there = TRUE]
            <7>1. files'[mine].of = old.of /\ files'[mine].whole = old.whole
              BY <1>0, <4>1, <5>1, <6>2 DEF Contents
            <7> QED
              BY <5>1, <7>1 DEF Own
          <6>3. ASSUME NEW of \in {{k.name}, old.of \union {k.name}},
                       files' = [files EXCEPT ![mine] =
                                   [there |-> TRUE, of |-> of, whole |-> TRUE]]
                PROVE  files'[mine].of \subseteq {n} /\ files'[mine].whole
            <7>1. files'[mine].of = of /\ files'[mine].whole = TRUE
              BY <1>0, <4>1, <6>3
            <7>2. of \subseteq {n}
              BY <5>1 DEF Own
            <7> QED
              BY <7>1, <7>2
          <6>4. CASE /\ ~setting.room
                     /\ files' = [files EXCEPT ![mine] =
                                    [there |-> TRUE, of |-> old.of \union {k.name},
                                     whole |-> old.whole /\ k.name \in old.of]]
            <7>1. files'[mine].of = old.of \union {k.name}
              BY <1>0, <4>1, <6>4
            <7> QED
              BY <5>1, <6>4, <7>1 DEF Own
          <6> QED
            BY <4>5, <6>1, <6>2, <6>3, <6>4
        <5> QED
          BY <1>0, <4>7, <5>2 DEF Own, that
      <4> QED
        BY <4>6, <4>7
    <3>9. Loaded'
      BY <1>A, <3>1 DEF Loaded
    <3> QED
      BY <3>7, <3>8, <3>9 DEF WelcomeInv
  <2>14. CASE Query(w)
    <3>1. UNCHANGED <<files, users>>
      BY <2>14 DEF Query
    <3>2. /\ \/ rows' = rows /\ Goto(w, "refused")
             \/ /\ \E row \in Read(w) : rows' = Append(rows, row)
                /\ \E l2 \in {"stored", "refused"} : Goto(w, l2)
          /\ Read(w) \subseteq Stored /\ (misread => misread')
          /\ ~misread' => Read(w) = {<<k.name, k.pass>>}
      BY <1>0, <2>14, QueryFacts
    <3>3. {"stored", "refused"} \subseteq Ats
      BY DEF Ats
    <3>4. /\ l.at \in {"stored", "refused"} /\ l.name = k.name /\ l.pass = k.pass /\ Others(w)
          /\ l.at = "stored" => \E row \in Read(w) : rows' = Append(rows, row)
      BY <1>0, <3>2, <3>3, GotoFacts
    <3>5. ASSUME NEW n, NEW p, InTable(rows, n, p) PROVE InTable(rows', n, p)
      <4>1. ASSUME NEW row \in Read(w) PROVE InTable(Append(rows, row), n, p)
        BY <1>0, <3>2, <3>5, RowsStay
      <4> QED
        BY <3>2, <3>5, <4>1
    <3>6. l.at = "stored" => misread' \/ InTable(rows', k.name, k.pass)
      <4>1. ASSUME l.at = "stored", ~misread' PROVE InTable(rows', k.name, k.pass)
        <5> DEFINE row == <<k.name, k.pass>>
        <5>1. row \in Stored /\ rows' = Append(rows, row)
          BY <3>2, <3>4, <4>1
        <5>2. InTable(Append(rows, row), k.name, k.pass)
          <6>1. row = <<k.name, k.pass>>
            OBVIOUS
          <6> HIDE DEF row
          <6> QED
            BY <1>0, <5>1, <6>1, RowsStay
        <5> QED
          BY <5>1, <5>2
      <4> QED
        BY <4>1
    <3>7. ASSUME NEW v \in Workers PROVE Entitled(worker[v])'
      <4>1. CASE v = w
        BY <3>4, <3>6, <4>1 DEF Entitled, Known, Welcomed
      <4>2. CASE v # w
        <5>1. worker'[v] = worker[v] /\ Entitled(worker[v])
          BY <1>A, <3>4, <4>2 DEF Others
        <5> QED
          BY <1>0, <3>2, <3>5, <5>1 DEF Entitled, Own
      <4> QED
        BY <4>1, <4>2
    <3>8. Loaded'
      BY <1>A, <3>1, <3>2, <3>5 DEF Loaded
    <3>9. (\A n \in Names : Alone(n) => Own(files[FileOf[n]], n))'
      BY <1>0, <1>A, <3>1 DEF Own
    <3> QED
      BY <3>7, <3>8, <3>9 DEF WelcomeInv
  <2>15. CASE Inserted(w)
    <3>1. /\ k.at = "inserted" /\ Goto(w, "redirect") /\ UNCHANGED <<rows, misread, files>>
          /\ users' = [n \in DOMAIN users \union {k.name} |->
                         IF Registered(n) THEN users[n] ELSE k.pass]
      BY <2>15 DEF Inserted, Step
    <3>2. misread \/ InTable(rows, k.name, k.pass)
      BY <2>A, <3>1 DEF Entitled, Known
    <3>3. "redirect" \in Ats
      BY DEF Ats
    <3>4. l.at = "redirect" /\ Others(w)
      BY <1>0, <3>1, <3>3, GotoFacts
    <3>5. Loaded'
      BY <1>A, <3>1, <3>2 DEF Registered, Loaded
    <3>6. Entitled(worker[w])'
      BY <3>4 DEF Entitled, Known, Welcomed
    <3>7. \A v \in Workers : Entitled(worker[v])'
      BY <1>0, <1>A, <3>1, <3>4, <3>6 DEF Others, Entitled, Own
    <3>8. (\A n \in Names : Alone(n) => Own(files[FileOf[n]], n))'
      BY <1>0, <1>A, <3>1 DEF Own
    <3> QED
      BY <3>5, <3>7, <3>8 DEF WelcomeInv
  <2> QED
    BY <1>2, <2>1, <2>2, <2>3, <2>4, <2>5, <2>6, <2>7, <2>8, <2>9, <2>10, <2>11, <2>12,
       <2>13, <2>14, <2>15 DEF WorkerStep, Ends
<1> QED
  BY <1>1, <1>2 DEF Next

(* For any number of workers, any requests and any way names share files:  *)
(* a welcome page is sent only to who gave a name and a password of the    *)
(* user table, as long as no insertion was misread, and unless its file is *)
(* shared it shows that name alone, and whole if the disk has room.        *)
THEOREM WelcomePagesAreOwn == Spec => []OwnPage
<1>1. WelcomeInv => OwnPage
  <2> SUFFICES ASSUME WelcomeInv, NEW w \in Workers, worker[w].at = "sent"
               PROVE  /\ \/ misread
                         \/ \E i \in DOMAIN rows : rows[i] = <<worker[w].name, worker[w].pass>>
                      /\ Alone(worker[w].name) =>
                           /\ worker[w].shown.of = {worker[w].name}
                           /\ setting.room => worker[w].shown.whole
    BY DEF OwnPage, Step
  <2> QED
    BY DEF WelcomeInv, Entitled, Known, InTable, Own
<1>2. WelcomeInv /\ UNCHANGED vars => WelcomeInv'
  BY DEF vars, storeVars, localVars, WelcomeInv, Entitled, Own, Loaded
<1>3. ShapeInv /\ WelcomeInv /\ [Next]_vars => WelcomeInv'
  BY <1>2, WelcomeStep
<1> QED
  BY <1>1, <1>3, WelcomeInit, ShapeAlways, PTL DEF Spec

-----------------------------------------------------------------------------
(* The users map and the table.  A name that is in the table and not yet   *)
(* in the map is the name of one registration under way.                   *)
Pending(k) == k.at \in {"stored", "insert", "inserted"}

Mirrors(cache, loaded) ==
  \A n \in DOMAIN cache : n \in DOMAIN loaded /\ cache[n] = loaded[n]
Comes(cache, loaded) ==
  \A n \in DOMAIN loaded \ DOMAIN cache :
    \E w \in Workers : Pending(worker[w]) /\ worker[w].name = n
Missing(k, cache, loaded) ==
  /\ k.name \in DOMAIN loaded \ DOMAIN cache
  /\ loaded[k.name] = k.pass
Single == \A v, w \in Workers :
  Pending(worker[v]) /\ Pending(worker[w]) /\ worker[v].name = worker[w].name => v = w

Stable == setting.unique /\ setting.reliable /\ ~misread

StoreInv == Stable =>
  /\ status # "up" => \A w \in Workers : worker[w].at = "idle"
  /\ Mirrors(users, Load(rows))
  /\ status = "up" => Comes(users, Load(rows))
  /\ \A w \in Workers : Pending(worker[w]) => Missing(worker[w], users, Load(rows))
  /\ Single

TakenNames(stored) == {stored[i][1] : i \in DOMAIN stored}

AddsRow(stored, row) ==
  /\ DOMAIN Load(Append(stored, row)) = DOMAIN Load(stored) \union {row[1]}
  /\ Load(Append(stored, row))[row[1]] = row[2]
  /\ \A n \in DOMAIN Load(stored) :
       n # row[1] /\ Load(Append(stored, row))[n] = Load(stored)[n]

(* A row of a new name adds that name to what is loaded, and nothing else. *)
LEMMA LoadAppend ==
  ASSUME NEW S, NEW q \in Seq(S), NEW row \in S, row[1] \notin TakenNames(q)
  PROVE  AddsRow(q, row)
<1> DEFINE r == Append(q, row)
           m == Len(q)
           name == row[1]
           pass == row[2]
<1>1. row \in S /\ row[1] = name /\ row[2] = pass /\ name \notin {q[i][1] : i \in DOMAIN q}
  BY DEF TakenNames
<1>2. /\ r \in Seq(S) /\ m \in Nat /\ DOMAIN q = 1..m /\ DOMAIN r = 1..(m + 1)
      /\ r[m + 1] = row /\ \A i \in 1..m : r[i] = q[i]
  BY <1>1, RowFacts
<1> HIDE DEF r, m, name, pass
<1>3. {r[i][1] : i \in DOMAIN r} = {q[i][1] : i \in DOMAIN q} \union {name}
  <2>1. \A i \in DOMAIN r : r[i][1] \in {q[j][1] : j \in DOMAIN q} \union {name}
    <3> SUFFICES ASSUME NEW i \in DOMAIN r
                 PROVE  r[i][1] \in {q[j][1] : j \in DOMAIN q} \union {name}
      OBVIOUS
    <3>1. i = m + 1 \/ i \in 1..m
      BY <1>2
    <3> QED
      BY <1>1, <1>2, <3>1
  <2>2. \A j \in DOMAIN q : j \in DOMAIN r /\ q[j][1] = r[j][1]
    BY <1>2
  <2>3. m + 1 \in DOMAIN r /\ r[m + 1][1] = name
    BY <1>1, <1>2
  <2> QED
    BY <2>1, <2>2, <2>3
<1>4. DOMAIN Load(r) = DOMAIN Load(q) \union {name}
  BY <1>3, LoadIsFunction
<1>5. Load(r)[name] = pass
  <2>1. name \in {r[i][1] : i \in DOMAIN r}
    BY <1>3
  <2>2. PICK i \in DOMAIN r : r[i][1] = name /\ Load(r)[name] = r[i][2]
    BY <1>2, <2>1, LatestExists
  <2>3. i = m + 1
    BY <1>1, <1>2, <2>2
  <2> QED
    BY <1>1, <1>2, <2>2, <2>3
<1>6. ASSUME NEW n \in DOMAIN Load(q) PROVE n # name /\ Load(r)[n] = Load(q)[n]
  <2>1. n \in {q[i][1] : i \in DOMAIN q}
    BY <1>6, LoadIsFunction
  <2>2. n # name /\ n \in {r[i][1] : i \in DOMAIN r}
    BY <1>1, <1>3, <2>1
  <2>3. PICK i \in DOMAIN q : /\ q[i][1] = n /\ Load(q)[n] = q[i][2]
                              /\ \A j \in DOMAIN q : q[j][1] = n => j <= i
    BY <2>1, LatestExists
  <2>4. PICK k \in DOMAIN r : /\ r[k][1] = n /\ Load(r)[n] = r[k][2]
                              /\ \A j \in DOMAIN r : r[j][1] = n => j <= k
    BY <1>2, <2>2, LatestExists
  <2>5. k # m + 1
    BY <1>1, <1>2, <2>2, <2>4
  <2>6. k \in 1..m /\ q[k][1] = n
    BY <1>2, <2>4, <2>5
  <2>7. k <= i
    BY <1>2, <2>3, <2>6
  <2>8. i \in DOMAIN r /\ r[i][1] = n
    BY <1>2, <2>3
  <2>9. i <= k
    BY <2>4, <2>8
  <2>10. i = k
    BY <1>2, <2>3, <2>6, <2>7, <2>9
  <2> QED
    BY <1>2, <2>2, <2>3, <2>4, <2>6, <2>10
<1> QED
  BY <1>4, <1>5, <1>6 DEF AddsRow, r, name, pass

LEMMA StoreInit == Init => StoreInv
BY IdleFacts DEF Init, StoreInv, Mirrors, Comes, Single, Pending

LEMMA StoreStep ==
  ASSUME ShapeInv, StoreInv, Next
  PROVE  StoreInv'
<1> USE DEF storeVars, localVars, objectVars
<1> DEFINE Good == /\ status # "up" => \A w \in Workers : worker[w].at = "idle"
                   /\ Mirrors(users, Load(rows))
                   /\ status = "up" => Comes(users, Load(rows))
                   /\ \A w \in Workers : Pending(worker[w])
                        => Missing(worker[w], users, Load(rows))
                   /\ Single
<1>S. SUFFICES ASSUME setting.unique, setting.reliable, setting' = setting, ~misread'
               PROVE  Good'
  BY DEF StoreInv, Stable, Next
<1>0. /\ TypeInv /\ rows \in Seq(Stored) /\ worker \in [Workers -> Jobs]
      /\ setting.unique /\ setting.reliable /\ setting' = setting
  BY <1>S DEF ShapeInv, TypeInv
<1>M. ~misread
  <2>1. CASE Restart
    BY <1>S, <2>1 DEF Restart
  <2>2. ASSUME NEW w \in Workers, WorkerStep(w) PROVE misread => misread'
    <3>1. CASE Ends(w)
      BY <1>0, <3>1, GoneFacts
    <3>2. CASE Query(w)
      BY <1>0, <3>2, QueryFacts
    <3>3. CASE Take(w) \/ DoRequest(w) \/ GetLocalMap(w) \/ InitLocalMap(w) \/ Show(w)
               \/ Login(w) \/ PutUser(w) \/ Open(w) \/ WritePage(w) \/ Register(w)
               \/ Lock(w) \/ Unlock(w) \/ Insert(w) \/ Inserted(w) \/ Redirect(w)
               \/ Send(w) \/ CloseConn(w) \/ Finish(w)
      <4>1. UNCHANGED misread
        BY <3>3, Zenon
           DEF Take, DoRequest, GetLocalMap, InitLocalMap, Show, Login, PutUser, Open,
               WritePage, Register, Lock, Unlock, Insert, Inserted, Redirect, Send,
               CloseConn, Finish
      <4> QED
        BY <4>1
    <3> QED
      BY <2>2, <3>1, <3>2, <3>3 DEF WorkerStep, Ends
  <2> QED
    BY <1>S, <2>1, <2>2 DEF Next
<1>A. Good
  BY <1>0, <1>M DEF StoreInv, Stable
<1>1. CASE Restart
  <2>1. /\ users' = Load(rows) /\ rows' = rows /\ worker' = worker /\ status' = "up"
        /\ \A w \in Workers : worker[w].at = "idle"
    BY <1>1, <1>A DEF Restart
  <2> QED
    BY <2>1 DEF Mirrors, Comes, Missing, Single, Pending
<1>2. ASSUME NEW w \in Workers, status = "up", WorkerStep(w)
      PROVE  Good'
  <2> DEFINE k == worker[w]
             l == worker'[w]
  <2>0. k \in Jobs
    BY <1>0
  (* Steps that are not part of a registration.                            *)
  <2>B. ASSUME UNCHANGED <<rows, users, status>>, Others(w),
               Pending(l) <=> Pending(k), Pending(k) => l.name = k.name /\ l.pass = k.pass
        PROVE  Good'
    <3>1. \A v \in Workers : /\ Pending(worker'[v]) <=> Pending(worker[v])
                             /\ Pending(worker[v]) => /\ worker'[v].name = worker[v].name
                                                      /\ worker'[v].pass = worker[v].pass
      BY <2>B DEF Others
    <3>2. Comes(users, Load(rows))' /\ Single'
      BY <1>A, <1>2, <2>B, <3>1 DEF Comes, Single
    <3>3. (\A v \in Workers : Pending(worker[v]) => Missing(worker[v], users, Load(rows)))'
      BY <1>A, <2>B, <3>1 DEF Missing
    <3>4. status' = "up" /\ Mirrors(users, Load(rows))'
      BY <1>A, <1>2, <2>B
    <3> QED
      BY <3>2, <3>3, <3>4
  <2>C. ASSUME UNCHANGED <<rows, users, status>>, NEW to \in Ats, Goto(w, to),
               to \in {"stored", "insert", "inserted"}
                 <=> k.at \in {"stored", "insert", "inserted"}
        PROVE  Good'
    BY <1>0, <2>B, <2>C, GotoFacts DEF Pending
  <2>D. ASSUME UNCHANGED <<rows, users, status>>, NEW p \in PageNames, Answer(w, p), ~Pending(k)
        PROVE  Good'
    BY <1>0, <2>B, <2>D, AnswerFacts DEF Pending
  <2>E. ASSUME UNCHANGED <<rows, users, status>>, Others(w), ~Pending(k), ~Pending(l)
        PROVE  Good'
    BY <2>B, <2>E
  <2>F. ASSUME UNCHANGED <<rows, users, status>>, worker' = [worker EXCEPT ![w] = Idle],
               ~Pending(k)
        PROVE  Good'
    <3>1. l = Idle /\ Others(w)
      BY <1>0, <2>F DEF Others
    <3> QED
      BY <2>E, <2>F, <3>1, IdleFacts DEF Pending
  <2>1. CASE Ends(w)
    <3>1. /\ \A v \in Workers : worker'[v] = Idle
          /\ rows' = rows /\ DOMAIN users' = {} /\ status' # "up"
      BY <1>0, <2>1, GoneFacts
    <3>2. \A v \in Workers : worker'[v].at = "idle" /\ ~Pending(worker'[v])
      BY <3>1, IdleFacts DEF Pending
    <3> QED
      BY <3>1, <3>2 DEF Mirrors, Single
  <2>2. CASE Take(w)
    <3>1. l.at = "request" /\ Others(w)
      BY <1>0, <2>2, TakeFacts
    <3> QED
      BY <2>2, <2>E, <3>1 DEF Take, Pending, Step
  <2>3. CASE DoRequest(w)
    <3>1. UNCHANGED <<rows, users, status>> /\ ~Pending(k)
      BY <2>3 DEF DoRequest, Step, Pending
    <3>2. CASE \E p \in {"file", "folder"} : Answer(w, p)
      <4>1. {"file", "folder"} \subseteq PageNames
        BY DEF PageNames
      <4> QED
        BY <2>D, <3>1, <3>2, <4>1
    <3>3. CASE worker' = [worker EXCEPT ![w].at = "local",
                                        ![w].view = Dispatch(Path(RequestUrl(w)))]
      <4>1. l.at = "local" /\ Others(w)
        BY <1>0, <3>3 DEF Jobs, Others
      <4> QED
        BY <2>E, <3>1, <4>1 DEF Pending
    <3> QED
      BY <2>3, <3>2, <3>3 DEF DoRequest
  <2>4. CASE GetLocalMap(w) \/ InitLocalMap(w) \/ Lock(w) \/ Insert(w)
    <3> USE DEF GetLocalMap, InitLocalMap, Lock, Insert
    <3>1. PICK to \in {"create", "view", "query", "inserted"} :
            /\ Goto(w, to)
            /\ to = "inserted" <=> k.at \in {"stored", "insert", "inserted"}
      BY <2>4 DEF Step
    <3>2. to \in Ats
      BY DEF Ats
    <3>3. UNCHANGED <<rows, users, status>>
      BY <2>4
    <3> QED
      BY <2>C, <3>1, <3>2, <3>3
  <2>5. CASE Login(w) \/ Register(w)
    <3> USE DEF Login, Register
    <3>1. UNCHANGED <<rows, users, status>> /\ k.method = "POST" /\ ~Pending(k)
      BY <2>5 DEF Posted, Step, Pending
    <3>2. CASE \E to \in {"render", "lock"} : With(w, to)
      <4>1. PICK to \in {"render", "lock"} : With(w, to)
        BY <3>2
      <4>2. to \in Ats
        BY DEF Ats
      <4>3. l.at = to /\ Others(w)
        BY <1>0, <3>1, <4>1, <4>2, WithFacts
      <4> QED
        BY <2>E, <3>1, <4>3 DEF Pending
    <3>3. CASE \E p \in {"logError", "registerError"} : Answer(w, p)
      <4>1. {"logError", "registerError"} \subseteq PageNames
        BY DEF PageNames
      <4> QED
        BY <2>D, <3>1, <3>3, <4>1
    <3> QED
      BY <2>5, <3>2, <3>3
  <2>6. CASE Unlock(w)
    <3>1. UNCHANGED <<rows, users, status>>
      BY <2>6 DEF Unlock
    <3>2. CASE k.at = "stored" /\ Goto(w, "insert")
      <4>1. "insert" \in Ats
        BY DEF Ats
      <4> QED
        BY <2>C, <3>1, <3>2, <4>1
    <3>3. CASE k.at = "refused" /\ Answer(w, "registerError")
      <4>1. "registerError" \in PageNames
        BY DEF PageNames
      <4> QED
        BY <2>D, <3>1, <3>3, <4>1 DEF Pending
    <3> QED
      BY <2>6, <3>2, <3>3 DEF Unlock, Step
  <2>7. CASE Show(w)
    BY <2>7, <2>D, StaticFacts DEF Show, Pending
  <2>8. CASE PutUser(w) \/ Open(w) \/ WritePage(w)
    <3> USE DEF PutUser, Open, WritePage
    <3>1. UNCHANGED <<rows, users, status>> /\ k.at \in {"render", "open", "write"}
      BY <2>8 DEF Step
    <3>2. CASE \E to \in {"open", "write"} : Goto(w, to)
      <4>1. {"open", "write"} \subseteq Ats
        BY DEF Ats
      <4> QED
        BY <2>C, <3>1, <3>2, <4>1
    <3>3. CASE \E p \in {"welcome", "template"} : Answer(w, p)
      <4>1. {"welcome", "template"} \subseteq PageNames
        BY DEF PageNames
      <4> QED
        BY <2>D, <3>1, <3>3, <4>1 DEF Pending
    <3> QED
      BY <2>8, <3>2, <3>3
  <2>9. CASE Redirect(w)
    <3>1. /\ l.at = "request" /\ k.at = "redirect" /\ Others(w)
      BY <1>0, <2>9 DEF Redirect, Jobs, Others, Step
    <3> QED
      BY <2>9, <2>E, <3>1 DEF Redirect, Pending
  <2>10. CASE Send(w)
    <3>1. k.at = "send" /\ UNCHANGED <<rows, users, status>>
      BY <2>10 DEF Send, Step
    <3>2. CASE worker' = [worker EXCEPT ![w].at = "sent", ![w].shown = files[RenderedFile(w)]]
      <4>1. l.at = "sent" /\ Others(w)
        BY <1>0, <3>2 DEF Jobs, Others
      <4> QED
        BY <2>E, <3>1, <4>1 DEF Pending
    <3>3. CASE worker' = [worker EXCEPT ![w] = Idle]
      BY <2>F, <3>1, <3>3 DEF Pending
    <3> QED
      BY <2>10, <3>2, <3>3 DEF Send
  <2>11. CASE CloseConn(w) \/ Finish(w)
    BY <2>11, <2>F DEF CloseConn, Finish, Pending, Step
  <2>12. CASE Query(w)
    <3> DEFINE row == <<k.name, k.pass>>
    <3>1. /\ UNCHANGED <<users, status>> /\ k.at = "query"
          /\ Read(w) = {row} /\ Read(w) \subseteq Stored
          /\ \/ /\ ~(\E i \in DOMAIN rows : rows[i][1] = row[1])
                /\ rows' = Append(rows, row) /\ Goto(w, "stored")
             \/ rows' = rows /\ Goto(w, "refused")
      <4>1. UNCHANGED <<users, status>> /\ k.at = "query"
        BY <2>12 DEF Query, Step
      <4>2. Read(w) = {row} /\ Read(w) \subseteq Stored
        BY <1>0, <1>S, <2>12, QueryFacts
      <4>3. \/ rows' = rows /\ Goto(w, "refused")
            \/ /\ \E x \in Read(w) :
                    rows' = Append(rows, x) /\ ~(\E i \in DOMAIN rows : rows[i][1] = x[1])
               /\ Goto(w, "stored")
        BY <1>0, <2>12, QueryFacts
      <4> HIDE DEF row
      <4> QED
        BY <4>1, <4>2, <4>3
    <3>2. "stored" \in Ats /\ "refused" \in Ats
      BY DEF Ats
    <3>3. CASE rows' = rows /\ Goto(w, "refused")
      BY <2>C, <3>1, <3>2, <3>3
    <3>4. CASE /\ ~(\E i \in DOMAIN rows : rows[i][1] = k.name)
               /\ rows' = Append(rows, row) /\ Goto(w, "stored")
      <4> DEFINE old == Load(rows)
                 new == Load(rows')
      <4>1. row \in Stored
        BY <3>1
      <4>2. k.name \notin TakenNames(rows)
        BY <3>4 DEF TakenNames
      <4>3. /\ DOMAIN new = DOMAIN old \union {k.name}
            /\ new[k.name] = k.pass
            /\ \A n \in DOMAIN old : n # k.name /\ new[n] = old[n]
        <5>1. /\ DOMAIN Load(Append(rows, row)) = DOMAIN Load(rows) \union {k.name}
              /\ Load(Append(rows, row))[k.name] = k.pass
              /\ \A n \in DOMAIN Load(rows) :
                   n # k.name /\ Load(Append(rows, row))[n] = Load(rows)[n]
          <6>1. rows \in Seq(Stored)
            BY <1>0
          <6>2. row[1] = k.name /\ row[2] = k.pass
            OBVIOUS
          <6> HIDE DEF row
          <6>3. AddsRow(rows, row)
            <7>1. row[1] \notin TakenNames(rows)
              BY <4>2, <6>2
            <7> QED
              BY <4>1, <6>1, <7>1, LoadAppend
          <6> QED
            BY <6>2, <6>3 DEF AddsRow
        <5> QED
          BY <3>4, <5>1
      <4>4. k.name \notin DOMAIN old
        BY <4>3
      <4> HIDE DEF old, new
      <4>5. /\ l.at = "stored" /\ l.name = k.name /\ l.pass = k.pass
            /\ \A v \in Workers : v # w => worker'[v] = worker[v]
        BY <1>0, <3>2, <3>4, GotoFacts DEF Others
      <4>6. /\ Mirrors(users, old) /\ Comes(users, old)
            /\ \A v \in Workers : Pending(worker[v]) => Missing(worker[v], users, old)
        BY <1>A, <1>2 DEF old
      <4>7. users' = users /\ k.name \notin DOMAIN users
        BY <3>1, <4>4, <4>6 DEF Mirrors
      <4>8. Mirrors(users, new)
        BY <4>3, <4>6 DEF Mirrors
      <4>9. ASSUME NEW n \in DOMAIN new \ DOMAIN users
            PROVE  \E v \in Workers : Pending(worker'[v]) /\ worker'[v].name = n
        <5>1. CASE n = k.name
          BY <4>5, <5>1 DEF Pending
        <5>2. CASE n # k.name
          <6>1. n \in DOMAIN old \ DOMAIN users
            BY <4>3, <4>9, <5>2
          <6>2. PICK v \in Workers : Pending(worker[v]) /\ worker[v].name = n
            BY <4>6, <6>1 DEF Comes
          <6>3. v # w
            BY <3>1, <6>2 DEF Pending
          <6> QED
            BY <4>5, <6>2, <6>3
        <5> QED
          BY <5>1, <5>2
      <4>10. ASSUME NEW v \in Workers, Pending(worker'[v])
             PROVE  Missing(worker'[v], users, new)
        <5>1. CASE v = w
          BY <4>3, <4>5, <4>7, <5>1 DEF Missing
        <5>2. CASE v # w
          BY <4>3, <4>5, <4>6, <4>10, <5>2 DEF Missing
        <5> QED
          BY <5>1, <5>2
      <4>11. ASSUME NEW v \in Workers, v # w, Pending(worker'[v])
             PROVE  worker'[v].name # k.name
        BY <4>4, <4>5, <4>6, <4>11 DEF Missing
      <4>12. Single'
        BY <1>A, <4>5, <4>11 DEF Single
      <4>13. Comes(users, Load(rows))'
        BY <4>7, <4>9 DEF Comes, new
      <4>14. Mirrors(users, Load(rows))'
        BY <4>7, <4>8 DEF new
      <4>15. (\A v \in Workers : Pending(worker[v]) => Missing(worker[v], users, Load(rows)))'
        BY <4>7, <4>10 DEF new
      <4> QED
        BY <1>2, <3>1, <4>12, <4>13, <4>14, <4>15
    <3> QED
      BY <3>1, <3>3, <3>4
  <2>13. CASE Inserted(w)
    <3>1. /\ k.at = "inserted" /\ Goto(w, "redirect") /\ UNCHANGED <<rows, status>>
          /\ users' = [n \in DOMAIN users \union {k.name} |->
                         IF Registered(n) THEN users[n] ELSE k.pass]
      BY <2>13 DEF Inserted, Step
    <3> DEFINE old == Load(rows)
    <3>2. /\ Mirrors(users, old) /\ Comes(users, old) /\ Single
          /\ \A v \in Workers : Pending(worker[v]) => Missing(worker[v], users, old)
          /\ Load(rows') = old
      BY <1>A, <1>2, <3>1
    <3> HIDE DEF old
    <3>3. "redirect" \in Ats
      BY DEF Ats
    <3>4. l.at = "redirect" /\ \A v \in Workers : v # w => worker'[v] = worker[v]
      BY <1>0, <3>1, <3>3, GotoFacts DEF Others
    <3>5. /\ k.name \in DOMAIN old /\ k.name \notin DOMAIN users
          /\ old[k.name] = k.pass
      BY <3>1, <3>2 DEF Missing, Pending
    <3>6. /\ DOMAIN users' = DOMAIN users \union {k.name}
          /\ users'[k.name] = k.pass
          /\ \A n \in DOMAIN users : users'[n] = users[n]
      BY <3>1, <3>5 DEF Registered
    <3>7. Mirrors(users', old)
      BY <3>2, <3>5, <3>6 DEF Mirrors
    <3>8. ASSUME NEW n \in DOMAIN old \ DOMAIN users'
          PROVE  \E v \in Workers : Pending(worker'[v]) /\ worker'[v].name = n
      <4>1. PICK v \in Workers : Pending(worker[v]) /\ worker[v].name = n
        BY <3>2, <3>6, <3>8 DEF Comes
      <4>2. v # w
        BY <3>6, <3>8, <4>1
      <4> QED
        BY <3>4, <4>1, <4>2
    <3>9. ~Pending(l)
      BY <3>4 DEF Pending
    <3>10. ASSUME NEW v \in Workers, Pending(worker'[v])
           PROVE  Missing(worker'[v], users', old)
      <4>1. v # w /\ worker'[v] = worker[v]
        BY <3>4, <3>9, <3>10
      <4>2. worker[v].name # k.name
        BY <3>1, <3>2, <3>10, <4>1 DEF Single, Pending
      <4> QED
        BY <3>2, <3>6, <3>10, <4>1, <4>2 DEF Missing
    <3>11. Single'
      BY <3>2, <3>4, <3>9 DEF Single
    <3>12. Comes(users, Load(rows))' /\ Mirrors(users, Load(rows))'
      BY <3>2, <3>7, <3>8 DEF Comes
    <3>13. (\A v \in Workers : Pending(worker[v]) => Missing(worker[v], users, Load(rows)))'
      BY <3>2, <3>10
    <3> QED
      BY <1>2, <3>1, <3>11, <3>12, <3>13
  <2> QED
    BY <1>2, <2>1, <2>2, <2>3, <2>4, <2>5, <2>6, <2>7, <2>8, <2>9, <2>10, <2>11, <2>12, <2>13
       DEF WorkerStep, Ends
<1> QED
  BY <1>1, <1>2 DEF Next

(* Unless a registration is under way, the users map is what it would be   *)
(* after a restart, for any number of workers, rows, names and passwords,  *)
(* if the table's names are a key, no answer of the database is lost and   *)
(* no insertion was misread.                                               *)
THEOREM MapIsTable == Spec => []RestartChangesNothing
<1>1. ShapeInv /\ StoreInv => RestartChangesNothing
  <2> SUFFICES ASSUME ShapeInv, StoreInv, status = "up", Stable,
                      \A w \in Workers : worker[w].at \notin {"stored", "insert", "inserted"}
               PROVE  users = Load(rows)
    BY DEF RestartChangesNothing, Stable
  <2>1. Mirrors(users, Load(rows)) /\ Comes(users, Load(rows))
    BY DEF StoreInv
  <2>2. DOMAIN users = DOMAIN Load(rows)
    BY <2>1 DEF Mirrors, Comes, Pending
  <2>3. users = [n \in DOMAIN users |-> users[n]]
    BY DEF ShapeInv, TypeInv
  <2>4. Load(rows) = [n \in DOMAIN Load(rows) |-> Load(rows)[n]]
    BY LoadIsFunction
  <2> DEFINE old == Load(rows)
  <2> HIDE DEF old
  <2>5. \A n \in DOMAIN users : users[n] = old[n]
    BY <2>1 DEF Mirrors, old
  <2>6. old = [n \in DOMAIN old |-> old[n]] /\ DOMAIN users = DOMAIN old
    BY <2>2, <2>4 DEF old
  <2>7. [n \in DOMAIN users |-> users[n]] = [n \in DOMAIN old |-> old[n]]
    BY <2>5, <2>6
  <2>8. users = old
    BY <2>3, <2>6, <2>7
  <2> QED
    BY <2>8 DEF old
<1>2. StoreInv /\ UNCHANGED vars => StoreInv'
  BY DEF vars, storeVars, localVars, StoreInv, Stable, Mirrors, Comes, Single
<1>3. ShapeInv /\ StoreInv /\ [Next]_vars => StoreInv'
  BY <1>2, StoreStep
<1> QED
  BY <1>1, <1>3, StoreInit, ShapeAlways, PTL DEF Spec
=============================================================================
