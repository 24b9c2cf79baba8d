-------------------------- MODULE MCHttpConnection --------------------------
(***************************************************************************)
(* Small instances of HttpConnection: request lines that parse or not, up  *)
(* to two headers in any order, one of which may be a line without its CR  *)
(* or its LF, and a body that is whole, short or holds a line end; a       *)
(* buffer that the longest of them fill or do not fit in; and a site with  *)
(* a file, an empty one, one that may not be read, a folder, and a name    *)
(* that is not there.                                                      *)
(***************************************************************************)
EXTENDS HttpConnection, FiniteSets

HeaderLists == UNION {[1..n -> {"len", "keep", "CR", "LF"}] : n \in 0..2}
                 \union {<<"len", "keep", "host">>}
Bodies == {<< >>, <<"b">>, <<"b", "b">>, <<"CR", "LF">>}

SmallMessages ==
  {m \in [first : {"get", "post", "junk"}, headers : HeaderLists, body : Bodies] :
     /\ "len" \notin Range(m.headers) => m.body = << >>
     /\ m.first = "junk" => m.headers = << >>
     /\ m.first = "get" => Len(m.headers) <= 1 /\ "len" \notin Range(m.headers)}

SmallSite == {[kind |-> "file", size |-> 2], [kind |-> "file", size |-> 0],
              [kind |-> "denied", size |-> 1], [kind |-> "folder", size |-> 3],
              [kind |-> "none", size |-> 0]}
=============================================================================
