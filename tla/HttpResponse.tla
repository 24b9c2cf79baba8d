---------------------------- MODULE HttpResponse ----------------------------
(***************************************************************************)
(* Answering one request after another on an http_conn object, bin/http/   *)
(* http_conn.cpp: do_request finds a file and maps it into memory,         *)
(* process_write lays out head and file in two iovecs, and write(), called *)
(* each time the socket has room, hands them to writev and moves them on   *)
(* by what was taken.  A byte is <<"head", o>>, the one at offset o of     *)
(* m_write_buf, or <<"file", o>>, at offset o of the mapping; a mapping is *)
(* the number of the answer it was made for, 0 is nullptr, and -1          *)
(* MAP_FAILED.                                                             *)
(***************************************************************************)
EXTENDS Integers, Sequences, SequencesExt

CONSTANTS HeadSize,       \* bytes process_write puts in m_write_buf
          Files           \* the site: records [kind, size]; kind is "file",
                          \* "none" (stat fails), "denied" or "folder"

VARIABLES wpc,            \* where the answer is: rest, code, ready, writev,
                          \* refused (write or process_write returned false)
          code,           \* what process_write is called with
          fileSize,       \* m_file_stat.st_size
          addr,           \* m_file_address
          maps,           \* mapping -> its length, those that are mapped
          iv, ivCount,    \* m_iv (base and length of each), m_iv_count
          toSend, haveSent,
          wire,           \* what writev took of this answer
          headCuts,       \* how often writev stopped inside the head
          answers,        \* answers begun
          abandoned       \* has a connection ended with a file still mapped?

fileVars == <<fileSize, addr, maps>>
ivVars == <<iv, ivCount, toSend, haveSent>>
ghosts == <<wire, headCuts, answers, abandoned>>
respVars == <<wpc, code, fileVars, ivVars, ghosts>>

Iov(base, len) == [base |-> base, len |-> len]

Init == /\ wpc = "rest" /\ code = "NO_REQUEST"
        /\ fileSize = 0 /\ addr = 0 /\ maps = << >>
        /\ iv = [i \in 0..1 |-> Iov(0, 0)] /\ ivCount = 0
        /\ toSend = 0 /\ haveSent = 0
        /\ wire = << >> /\ headCuts = 0 /\ answers = 0 /\ abandoned = FALSE

-----------------------------------------------------------------------------
(* What do_request does once the url is a path: stat, the three tests, and *)
(* mmap, which fails for an empty file.                                    *)
Begin == /\ wpc = "rest" /\ wpc' = "code"
         /\ wire' = << >> /\ answers' = answers + 1

FoundFile(f) ==
  /\ f.kind = "file" /\ code' = "FILE_REQUEST"
  /\ fileSize' = f.size
  /\ IF f.size > 0
       THEN addr' = answers' /\ maps' = [a \in DOMAIN maps \union {answers'} |->
                                           IF a = answers' THEN f.size ELSE maps[a]]
       ELSE addr' = -1 /\ UNCHANGED maps

Unusable(f) ==
  /\ f.kind # "file"
  /\ code' = CASE f.kind = "none" -> "NO_RESOURCE"
               [] f.kind = "denied" -> "FORBIDDEN_REQUEST"
               [] f.kind = "folder" -> "BAD_REQUEST"
  /\ fileSize' = IF f.kind = "none" THEN fileSize ELSE f.size
  /\ UNCHANGED <<addr, maps>>

DoRequest(f) == /\ Begin
                /\ FoundFile(f) \/ Unusable(f)
                /\ UNCHANGED <<ivVars, headCuts, abandoned>>

(* A request that does not parse is answered without a file.               *)
BadRequest == /\ Begin /\ code' = "BAD_REQUEST"
              /\ UNCHANGED <<fileVars, ivVars, headCuts, abandoned>>

-----------------------------------------------------------------------------
(* process_write has no case for NO_RESOURCE, and an empty file falls      *)
(* through to the default: both are refused without a byte.                *)
Refused == \/ code = "NO_RESOURCE"
           \/ code = "FILE_REQUEST" /\ fileSize = 0
HasFile == code = "FILE_REQUEST"

FaultyToSend == HeadSize + fileSize                \* of a file not sent
ToSend == HeadSize + (IF HasFile THEN fileSize ELSE 0)

ProcessWrite ==
  /\ wpc = "code" /\ ~Refused
  /\ iv' = [i \in 0..1 |-> IF i = 0 THEN Iov(0, HeadSize)
                           ELSE IF HasFile THEN Iov(0, fileSize) ELSE iv[1]]
  /\ ivCount' = IF HasFile THEN 2 ELSE 1
  /\ toSend' = ToSend
  /\ headCuts' = 0
  /\ wpc' = "ready"
  /\ UNCHANGED <<code, fileVars, haveSent, wire, answers, abandoned>>

ProcessWriteRefuses ==
  /\ wpc = "code" /\ Refused
  /\ wpc' = "refused"
  /\ UNCHANGED <<code, fileVars, ivVars, ghosts>>

-----------------------------------------------------------------------------
(* write(), when the socket has room.  Its test for bytes_to_send == 0     *)
(* never holds here: see SentInOrder.                                      *)
WriteCalled == /\ wpc = "ready" /\ toSend # 0
               /\ wpc' = "writev"
               /\ UNCHANGED <<code, fileVars, ivVars, ghosts>>

Bytes(where, v) == [k \in 1..v.len |-> <<where, v.base + k - 1>>]
Offered == Bytes("head", iv[0]) \o (IF ivCount = 2 THEN Bytes("file", iv[1]) ELSE << >>)

FaultyMovedOn(sent) ==                             \* forgets what was sent
  IF sent >= iv[0].len
    THEN [iv EXCEPT ![0].len = 0, ![1] = Iov(0, toSend')]
    ELSE [iv EXCEPT ![0] = Iov(sent, iv[0].len - sent)]

(* The iovecs after writev: sent is bytes_have_send, not what this call    *)
(* took, so a head that is cut twice is moved on too far.                  *)
MovedOn(sent) ==
  IF sent >= iv[0].len
    THEN [iv EXCEPT ![0].len = 0, ![1] = Iov(sent - HeadSize, toSend')]
    ELSE [iv EXCEPT ![0] = Iov(sent, iv[0].len - sent)]

FaultyUnmap == UNCHANGED <<addr, maps>>                    \* never unmapped
(* munmap of an address with the length of the file looked at last; the    *)
(* length of another file leaves or takes pages it should not.             *)
Unmap == /\ addr' = 0
         /\ maps' = IF addr \in DOMAIN maps /\ maps[addr] = fileSize
                      THEN [a \in DOMAIN maps \ {addr} |-> maps[a]] ELSE maps

Take(n) == /\ wpc = "writev" /\ n \in 1..Len(Offered)
           /\ haveSent' = haveSent + n
           /\ toSend' = toSend - n
           /\ iv' = MovedOn(haveSent')
           /\ wire' = wire \o SubSeq(Offered, 1, n)
           /\ headCuts' = IF haveSent' < HeadSize THEN headCuts + 1 ELSE headCuts
           /\ UNCHANGED <<code, fileSize, ivCount, answers, abandoned>>

WritePart(n) == Take(n) /\ toSend' > 0 /\ UNCHANGED <<wpc, addr, maps>>

(* All is sent: keep is m_linger.  init() clears the counters of a kept    *)
(* connection; what follows a closed one is Reopened.                      *)
WriteLast(n, keep) ==
  /\ wpc = "writev" /\ n \in 1..Len(Offered) /\ toSend - n <= 0
  /\ Unmap
  /\ wire' = wire \o SubSeq(Offered, 1, n)
  /\ IF keep THEN wpc' = "rest" /\ toSend' = 0 /\ haveSent' = 0
             ELSE wpc' = "refused" /\ toSend' = toSend - n /\ haveSent' = haveSent + n
  /\ UNCHANGED <<code, fileSize, iv, ivCount, headCuts, answers, abandoned>>

WriteAgain == /\ wpc = "writev" /\ Offered # << >>       \* EAGAIN
              /\ wpc' = "ready"
              /\ UNCHANGED <<code, fileVars, ivVars, ghosts>>

WriteFails == /\ wpc = "writev" /\ Offered # << >>
              /\ wpc' = "refused"
              /\ Unmap
              /\ UNCHANGED <<code, fileSize, ivVars, ghosts>>

(* The connection ends, by its timer, the client or a write that returned  *)
(* false, and the object serves the next one: init() leaves m_file_address *)
(* and m_file_stat as they are.                                            *)
Reopened == /\ wpc \in {"rest", "ready", "refused"}
            /\ wpc' = "rest"
            /\ toSend' = 0 /\ haveSent' = 0
            /\ wire' = << >>
            /\ abandoned' = (abandoned \/ DOMAIN maps # {})
            /\ UNCHANGED <<code, fileVars, iv, ivCount, headCuts, answers>>

WriteStep(keep) == \/ \E n \in 1..Len(Offered) : WritePart(n) \/ WriteLast(n, keep)
                   \/ WriteAgain
                   \/ WriteFails

-----------------------------------------------------------------------------
Whole == Bytes("head", Iov(0, HeadSize)) \o
           (IF ivCount = 2 THEN Bytes("file", Iov(0, fileSize)) ELSE << >>)

(* However often the socket takes a part only, the client gets the head    *)
(* and then the file, each byte once and in order, as long as the head is  *)
(* not cut twice; a kept connection has got all of it, and a call of       *)
(* write() always has something to send.                                   *)
SentInOrder ==
  /\ headCuts <= 1 /\ wpc \in {"ready", "writev"} => IsPrefix(wire, Whole)
  /\ headCuts <= 1 /\ wpc = "rest" => wire \in {<< >>, Whole}
  /\ wpc = "ready" => toSend > 0

(* While an answer is sent its file, and no other, is mapped; at rest      *)
(* nothing is, unless a connection was once ended in between.              *)
MappedWhileSent ==
  ~abandoned =>
     DOMAIN maps = IF wpc \in {"code", "ready", "writev"} /\ HasFile /\ fileSize > 0
                     THEN {answers} ELSE {}

(* write() returns: its loop does not turn on a writev that has nothing    *)
(* left to take.                                                           *)
WriteReturns == []((wpc = "writev" /\ headCuts <= 1) => <>(wpc # "writev" \/ headCuts > 1))
=============================================================================
