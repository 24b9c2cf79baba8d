--------------------------- MODULE HttpConnection ---------------------------
(***************************************************************************)
(* One http_conn object over its requests and connections: what            *)
(* HttpRequest reads, HttpResponse answers, process() in between, and the  *)
(* object is cleared for the next request of a kept connection, or for the *)
(* next connection that is given the descriptor.                           *)
(***************************************************************************)
EXTENDS HttpRequest

CONSTANTS HeadSize, Files

(* The head is never empty; a file has a kind and a length.                *)
ASSUME ConnectionAssumption ==
         /\ HeadSize \in Nat \ {0}
         /\ Files \subseteq [kind : {"file", "none", "denied", "folder"}, size : Nat]

VARIABLES wpc, code, fileSize, addr, maps, iv, ivCount, toSend, haveSent, wire,
          headCuts, answers, abandoned

Resp == INSTANCE HttpResponse

respVars == <<wpc, code, fileSize, addr, maps, iv, ivCount, toSend, haveSent, wire,
              headCuts, answers, abandoned>>
vars == <<reqVars, respVars>>

ConnectionInit == Init /\ Resp!Init

(* process(): process_read, and do_request when a request is complete.     *)
Read == wpc = "rest" /\ ProcessRead /\ UNCHANGED respVars

Process == /\ pc = "answer" /\ pc' = "reply"
           /\ \/ ret = "GET_REQUEST" /\ \E f \in Files : Resp!DoRequest(f)
              \/ ret = "BAD_REQUEST" /\ Resp!BadRequest
           /\ UNCHANGED <<clientVars, buf, parserVars, lineStatus, ret, bodyCut, served>>

Reply == /\ \/ Resp!ProcessWrite
            \/ Resp!ProcessWriteRefuses
            \/ Resp!WriteCalled
         /\ UNCHANGED reqVars

Write == /\ Resp!WriteStep(linger)
         /\ IF wpc' = "rest" THEN NextRequest ELSE UNCHANGED reqVars

(* Between two calls the timer or the client may end the connection; it    *)
(* ends for certain when a read or a write has failed.                     *)
Reopen == /\ pc \in {"read", "closed", "reply"}
          /\ Resp!Reopened
          /\ NextRequest

Next == Read \/ Process \/ Reply \/ Write \/ Reopen

(* A worker that is in write() goes on.                                    *)
Spec == ConnectionInit /\ [][Next]_vars /\ WF_vars(Write)

-----------------------------------------------------------------------------
SentInOrder == Resp!SentInOrder
MappedWhileSent == Resp!MappedWhileSent
WriteReturns == Resp!WriteReturns

(* The reading and the writing half take turns: no byte of a request is    *)
(* read into the object while its answer, or another's, is under way.      *)
TypeOK == /\ RequestOK
          /\ wpc # "rest" => pc = "reply"
          /\ answers <= MaxServed
=============================================================================
