---------------------------- MODULE HttpRequest ----------------------------
(***************************************************************************)
(* Reading one request after another into an http_conn object, bin/http/   *)
(* http_conn.cpp: read_once fills the read buffer with what has arrived,   *)
(* process_read resumes its two state machines over it (parse_line cuts    *)
(* the lines, the check state says what a line is), and init() clears the  *)
(* object for the next request.  HttpConnection adds the answers.          *)
(*                                                                         *)
(* A byte is CR, LF, NUL, or stands for the text of a line: a request line *)
(* that parses ("get", "post") or not ("junk"), the headers Content-Length *)
(* ("len"), Connection: keep-alive ("keep") and Host ("host"), and "b" in  *)
(* a body.  A cut inside such a text leaves parse_line where a cut before  *)
(* or behind it does.                                                      *)
(***************************************************************************)
EXTENDS Integers, Sequences, SequencesExt

CONSTANTS Messages,       \* what a client may send: [first, headers, body]
          BodyLength,     \* the value of each Content-Length header
          BufferSize,     \* READ_BUFFER_SIZE
          TrigModes,      \* m_TRIGMode: 0 level-triggered, 1 edge-triggered
          MaxServed       \* bound: requests read by the object

(* What is sent as a body is text: it holds no NUL.                        *)
ASSUME HttpAssumption ==
         /\ Messages \subseteq [first : {"get", "post", "junk"},
                               headers : Seq({"len", "keep", "host", "CR", "LF"}),
                               body : Seq({"b", "CR", "LF"})]
         /\ BodyLength \in Nat \ {0}
         /\ BufferSize \in Nat \ {0}
         /\ TrigModes \subseteq {0, 1}
         /\ MaxServed \in Nat \ {0}

VARIABLES trigMode,
          msg, left,      \* the message being sent, the bytes still to arrive
          buf,            \* m_read_buf up to m_read_idx
          startLine, checked,            \* m_start_line, m_checked_idx
          checkState, contentLength, linger,
          query,          \* m_string: an index of m_read_buf, or -1 (nullptr)
          pc, lineStatus, \* where process() is, line_status
          ret,            \* what process_read returned last
          bodyCut,        \* has a read ended inside a body?
          served          \* requests done with so far

parserVars == <<startLine, checked, checkState, contentLength, linger, query>>
clientVars == <<trigMode, msg, left>>
reqVars == <<clientVars, buf, parserVars, pc, lineStatus, ret, bodyCut, served>>

-----------------------------------------------------------------------------
Line(text) == (IF text = "" THEN << >> ELSE <<text>>) \o <<"CR", "LF">>

HeadOf(m) == Line(m.first) \o FlattenSeq([i \in 1..Len(m.headers) |->
                                           Line(m.headers[i])]) \o Line("")
Bytes(m) == HeadOf(m) \o m.body

(* init(), which leaves m_string as it is.                                 *)
FaultyFreshParser == /\ startLine' = 0 /\ checked' = 0   \* length kept
                     /\ checkState' = "requestline"
                     /\ linger' = FALSE
                     /\ UNCHANGED <<contentLength, query>>
FreshParser == /\ startLine' = 0 /\ checked' = 0
               /\ checkState' = "requestline"
               /\ contentLength' = 0
               /\ linger' = FALSE
               /\ UNCHANGED query

Init == /\ trigMode \in TrigModes
        /\ msg \in Messages /\ left = Bytes(msg)
        /\ buf = << >>
        /\ startLine = 0 /\ checked = 0
        /\ checkState = "requestline"
        /\ contentLength = 0
        /\ linger = FALSE
        /\ query = -1
        /\ pc = "read" /\ lineStatus = "ok"
        /\ ret = "none"
        /\ bodyCut = FALSE
        /\ served = 0

-----------------------------------------------------------------------------
(* read_once: n bytes have arrived.  The level-triggered read stops when   *)
(* the buffer is full; the edge-triggered one reads on into no room at     *)
(* all, takes the 0 it gets for the end of the connection, and fails.      *)
Room == BufferSize - Len(buf)

InsideBody(n) == LET got == Len(Bytes(msg)) - Len(left) + n
                 IN  got > Len(HeadOf(msg)) /\ got < Len(HeadOf(msg)) + BodyLength

ReadOnce(n) ==
  /\ pc = "read" /\ n \in 1..Len(left) /\ n <= Room
  /\ trigMode = 1 => n < Room
  /\ buf' = buf \o SubSeq(left, 1, n)
  /\ left' = SubSeq(left, n + 1, Len(left))
  /\ bodyCut' = (bodyCut \/ InsideBody(n))
  /\ pc' = "parse" /\ lineStatus' = "ok"
  /\ UNCHANGED <<trigMode, msg, parserVars, ret, served>>

(* The connection is closed by its timer_flag.                             *)
ReadFails ==
  /\ pc = "read" /\ left # << >>
  /\ \/ Room = 0
     \/ trigMode = 1 /\ Len(left) >= Room
  /\ pc' = "closed"
  /\ UNCHANGED <<clientVars, buf, parserVars, lineStatus, ret, bodyCut, served>>

-----------------------------------------------------------------------------
(* parse_line.  Indices count from 0 in the code: byte i is buf[i + 1].    *)
At(i) == buf[i + 1]
Stops == {i \in checked..(Len(buf) - 1) : At(i) \in {"CR", "LF"}}
Stop == CHOOSE i \in Stops : \A k \in Stops : i <= k

Ends(i, j) ==                \* the line ends with bytes i and j = i + 1
  /\ buf' = [buf EXCEPT ![i + 1] = "NUL", ![j + 1] = "NUL"]
  /\ checked' = j + 1
  /\ lineStatus' = "ok"

ParseLine ==
  \/ /\ Stops = {}
     /\ checked' = IF checked < Len(buf) THEN Len(buf) ELSE checked
     /\ lineStatus' = "open"
     /\ UNCHANGED buf
  \/ /\ Stops # {} /\ At(Stop) = "CR" /\ Stop + 1 = Len(buf)
     /\ checked' = Stop
     /\ lineStatus' = "open"
     /\ UNCHANGED buf
  \/ /\ Stops # {} /\ At(Stop) = "CR" /\ Stop + 1 < Len(buf)
     /\ At(Stop + 1) = "LF"
     /\ Ends(Stop, Stop + 1)
  \/ /\ Stops # {} /\ At(Stop) = "LF" /\ Stop > 1 /\ At(Stop - 1) = "CR"
     /\ Ends(Stop - 1, Stop)
  \/ /\ Stops # {}
     /\ \/ At(Stop) = "CR" /\ Stop + 1 < Len(buf) /\ At(Stop + 1) # "LF"
        \/ At(Stop) = "LF" /\ ~(Stop > 1 /\ At(Stop - 1) = "CR")
     /\ checked' = Stop
     /\ lineStatus' = "bad"
     /\ UNCHANGED buf

(* The loop of process_read: a body is looked at as it is, the first time. *)
FetchLine ==
  /\ pc = "parse" /\ ~(checkState = "content" /\ lineStatus = "ok")
  /\ ParseLine
  /\ \/ lineStatus' = "ok" /\ pc' = "text" /\ UNCHANGED ret
     \/ lineStatus' # "ok" /\ pc' = "read" /\ ret' = "NO_REQUEST"
  /\ UNCHANGED <<clientVars, startLine, checkState, contentLength, linger, query,
                 bodyCut, served>>

FetchBody ==
  /\ pc = "parse" /\ checkState = "content" /\ lineStatus = "ok"
  /\ pc' = "text"
  /\ UNCHANGED <<clientVars, buf, parserVars, lineStatus, ret, bodyCut, served>>

(* get_line(), and m_start_line is moved on.                               *)
Text == At(startLine)
Taken == pc = "text" /\ startLine' = checked
Return(code) == pc' = "answer" /\ ret' = code

ParseRequestLine ==
  /\ Taken /\ checkState = "requestline"
  /\ \/ /\ Text \in {"get", "post"}
        /\ checkState' = "header" /\ pc' = "parse" /\ UNCHANGED ret
     \/ /\ Text \notin {"get", "post"}
        /\ Return("BAD_REQUEST") /\ UNCHANGED checkState
  /\ UNCHANGED <<clientVars, buf, checked, contentLength, linger, query, lineStatus,
                 bodyCut, served>>

FaultyLength == contentLength + BodyLength         \* two headers add up

(* atol() of the header's text: here the right length, never a negative    *)
(* or a wrong one.                                                         *)
Length == BodyLength

ParseHeaders ==
  /\ Taken /\ checkState = "header"
  /\ \/ /\ Text = "NUL" /\ contentLength # 0
        /\ checkState' = "content" /\ pc' = "parse"
        /\ UNCHANGED <<contentLength, linger, ret>>
     \/ /\ Text = "NUL" /\ contentLength = 0
        /\ Return("GET_REQUEST")
        /\ UNCHANGED <<checkState, contentLength, linger>>
     \/ /\ Text # "NUL"
        /\ linger' = (linger \/ Text = "keep")
        /\ contentLength' = IF Text = "len" THEN Length ELSE contentLength
        /\ pc' = "parse"
        /\ UNCHANGED <<checkState, ret>>
  /\ UNCHANGED <<clientVars, buf, checked, query, lineStatus, bodyCut, served>>

FaultyHasBody == Len(buf) > checked                \* something is there
HasBody == Len(buf) >= contentLength + checked

(* The body ends with a NUL written behind it.  If it fills the buffer the *)
(* NUL falls on m_read_idx behind m_read_buf, on its low byte, which is 0  *)
(* already (READ_BUFFER_SIZE is 0x800): there the write changes nothing.   *)
ParseContent ==
  /\ Taken /\ checkState = "content"
  /\ \/ /\ HasBody /\ Return("GET_REQUEST")
        /\ query' = startLine
        /\ buf' = [i \in DOMAIN buf |-> IF i = startLine + contentLength + 1
                                         THEN "NUL" ELSE buf[i]]
        /\ UNCHANGED lineStatus
     \/ /\ ~HasBody /\ lineStatus' = "open" /\ pc' = "parse"
        /\ UNCHANGED <<ret, query, buf>>
  /\ UNCHANGED <<clientVars, checked, checkState, contentLength, linger, bodyCut,
                 served>>

(* The object is cleared for another request, of this client or the next.  *)
NextRequest ==
  /\ served' = served + 1
  /\ IF served' < MaxServed
       THEN /\ FreshParser
            /\ buf' = << >>
            /\ msg' \in Messages /\ left' = Bytes(msg')
            /\ pc' = "read" /\ ret' = "none"
            /\ bodyCut' = FALSE
       ELSE pc' = "done" /\ UNCHANGED <<msg, left, buf, parserVars, ret, bodyCut>>
  /\ UNCHANGED <<trigMode, lineStatus>>

ProcessRead == \/ \E n \in 1..BufferSize : ReadOnce(n)
               \/ ReadFails
               \/ FetchLine
               \/ FetchBody
               \/ ParseRequestLine
               \/ ParseHeaders
               \/ ParseContent

-----------------------------------------------------------------------------
Symbols == {"CR", "LF", "NUL", "get", "post", "junk", "len", "keep", "host", "b"}

(* The values the variables take; the three indices keep their order,      *)
(* inside the buffer.                                                      *)
RequestOK == /\ trigMode \in {0, 1}
             /\ msg \in Messages
             /\ left \in Seq(Symbols) /\ buf \in Seq(Symbols)
             /\ startLine \in 0..checked /\ checked \in 0..Len(buf)
             /\ Len(buf) <= BufferSize
             /\ checkState \in {"requestline", "header", "content"}
             /\ contentLength \in {0, BodyLength}
             /\ linger \in BOOLEAN
             /\ query \in -1..BufferSize
             /\ pc \in {"read", "parse", "text", "answer", "reply", "closed", "done"}
             /\ lineStatus \in {"ok", "open", "bad"}
             /\ ret \in {"none", "NO_REQUEST", "BAD_REQUEST", "GET_REQUEST"}
             /\ bodyCut \in BOOLEAN
             /\ served \in 0..MaxServed

(* What a message means, whichever way it was cut into reads.              *)
Declared(m) == IF "len" \in Range(m.headers) THEN BodyLength ELSE 0
WellFormed(m) == Range(m.headers) \intersect {"CR", "LF"} = {}
Meaning(m) == IF m.first = "junk" THEN "BAD_REQUEST"
              ELSE IF WellFormed(m) /\ Len(m.body) >= Declared(m) THEN "GET_REQUEST"
              ELSE "NO_REQUEST"

(* What do_request reads at m_string, up to the first NUL, when cgi is set.*)
QueryText == LET ends == {i \in (query + 1)..Len(buf) : buf[i] = "NUL"}
             IN  SubSeq(buf, query + 1,
                        IF ends = {} THEN Len(buf)
                        ELSE (CHOOSE i \in ends : \A k \in ends : i <= k) - 1)

(* However a message is cut into reads - between CR and LF, between two    *)
(* lines, behind the head - and whatever the object served before,         *)
(* process_read finds what the message says when all of it has come: the   *)
(* state kept between two reads is enough.  A cut inside a body is not     *)
(* covered (see BodyMayBeCut), nor is m_string for a POST without a body,  *)
(* which is left as the last body set it.                                  *)
CutsDoNotMatter ==
  (pc \in {"read", "answer"} /\ left = << >> /\ ~bodyCut) =>
     /\ ret = Meaning(msg)
     /\ pc = "answer" /\ ret = "GET_REQUEST" =>
          /\ linger <=> "keep" \in Range(msg.headers)
          /\ Declared(msg) > 0 => QueryText = SubSeq(msg.body, 1, BodyLength)

(* A request is not taken for whole before its last byte has come.         *)
NeverEarly == ret = "GET_REQUEST" => Len(left) + Declared(msg) <= Len(msg.body)

(* A body that comes in two reads is as good as one that comes in one.     *)
BodyMayBeCut ==
  (pc \in {"read", "answer"} /\ left = << >>) => ret = Meaning(msg)
=============================================================================
