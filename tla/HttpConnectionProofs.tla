------------------------ MODULE HttpConnectionProofs ------------------------
(***************************************************************************)
(* Proofs about HttpConnection, for every set of messages and files, every *)
(* size of the buffers and of the head and every number of requests: which *)
(* file is mapped when, what the client is sent, and what process_read     *)
(* finds in a message that may come in any number of pieces.               *)
(***************************************************************************)
EXTENDS HttpConnection, SequenceTheorems, WellFoundedInduction, TLAPS

(* MapInv: while an answer with a file is under way, the address, the      *)
(* length and the mapping belong together.                                 *)
Sending == wpc \in {"code", "ready", "writev"} /\ Resp!HasFile /\ fileSize > 0

MapInv == /\ answers \in Nat /\ fileSize \in Nat
          /\ ~abandoned => IF Sending
                             THEN /\ DOMAIN maps = {answers}
                                  /\ addr = answers /\ maps[answers] = fileSize
                             ELSE DOMAIN maps = {}

LEMMA FilesTyped == \A f \in Files : f.size \in Nat /\ f.kind \in {"file", "none", "denied", "folder"}
BY ConnectionAssumption

LEMMA MapInit == ConnectionInit => MapInv
BY DEF ConnectionInit, Resp!Init, MapInv, Sending, Resp!HasFile

LEMMA MapStep == MapInv /\ [Next]_vars => MapInv'
<1> SUFFICES ASSUME MapInv, [Next]_vars PROVE MapInv'
  OBVIOUS
<1> USE DEF MapInv, Sending, Resp!HasFile
<1>1. CASE UNCHANGED respVars
  BY <1>1 DEF respVars
<1>2. ASSUME NEW f \in Files, Resp!DoRequest(f) PROVE MapInv'
  <2>1. f.size \in Nat /\ (DOMAIN maps = {} \/ abandoned)
    BY <1>2, FilesTyped DEF Resp!DoRequest, Resp!Begin
  <2>4. answers' = answers + 1 /\ abandoned' = abandoned /\ wpc' = "code"
    BY <1>2 DEF Resp!DoRequest, Resp!Begin
  <2>2. CASE Resp!FoundFile(f)
    <3>1. CASE f.size > 0
      <4>1. /\ code' = "FILE_REQUEST" /\ fileSize' = f.size /\ addr' = answers'
            /\ maps' = [a \in DOMAIN maps \union {answers'} |->
                          IF a = answers' THEN f.size ELSE maps[a]]
        BY <2>2, <3>1 DEF Resp!FoundFile
      <4>2. DOMAIN maps' = DOMAIN maps \union {answers'} /\ maps'[answers'] = f.size
        BY <4>1
      <4>3. answers' \in Nat /\ fileSize' \in Nat /\ fileSize' > 0
        BY <2>1, <2>4, <3>1, <4>1
      <4> QED
        BY <2>1, <2>4, <4>1, <4>2, <4>3
    <3>2. CASE ~(f.size > 0)
      BY <2>1, <2>2, <2>4, <3>2 DEF Resp!FoundFile
    <3> QED
      BY <3>1, <3>2
  <2>3. CASE Resp!Unusable(f)
    BY <1>2, <2>1, <2>3, FilesTyped DEF Resp!DoRequest, Resp!Begin, Resp!Unusable
  <2> QED
    BY <1>2, <2>2, <2>3 DEF Resp!DoRequest
<1>3. CASE Resp!BadRequest
  BY <1>3 DEF Resp!BadRequest, Resp!Begin, Resp!fileVars
<1>4. CASE Resp!ProcessWrite
  BY <1>4 DEF Resp!ProcessWrite, Resp!fileVars
<1>5. CASE Resp!ProcessWriteRefuses
  BY <1>5 DEF Resp!ProcessWriteRefuses, Resp!Refused, Resp!fileVars, Resp!ghosts
<1>6. CASE Resp!WriteCalled \/ Resp!WriteAgain
  BY <1>6 DEF Resp!WriteCalled, Resp!WriteAgain, Resp!fileVars, Resp!ghosts
<1>7. ASSUME NEW n \in 1..Len(Resp!Offered), Resp!WritePart(n) PROVE MapInv'
  BY <1>7 DEF Resp!WritePart, Resp!Take
<1>8. ASSUME Resp!Unmap, wpc = "writev", wpc' \in {"rest", "refused"},
             UNCHANGED <<code, fileSize, answers, abandoned>>
      PROVE  MapInv'
  BY <1>8 DEF Resp!Unmap
<1>9. ASSUME NEW n \in 1..Len(Resp!Offered), Resp!WriteLast(n, linger) PROVE MapInv'
  BY <1>8, <1>9 DEF Resp!WriteLast
<1>10. CASE Resp!WriteFails
  BY <1>8, <1>10 DEF Resp!WriteFails, Resp!ghosts
<1>11. CASE Resp!Reopened
  BY <1>11 DEF Resp!Reopened, Resp!fileVars
<1> QED
  BY <1>1, <1>2, <1>3, <1>4, <1>5, <1>6, <1>7, <1>9, <1>10, <1>11
     DEF Next, vars, Read, Process, Reply, Write, Reopen, Resp!WriteStep

(* While an answer is sent its file, and no other, is mapped, and at rest  *)
(* nothing is, until a connection ends in the middle of an answer.         *)
THEOREM MappingFollowsAnswer == Spec => []MappedWhileSent
<1>1. MapInv => MappedWhileSent
  BY DEF MapInv, Sending, MappedWhileSent, Resp!MappedWhileSent
<1> QED
  BY <1>1, MapInit, MapStep, PTL DEF Spec

-----------------------------------------------------------------------------
(* What the client is to get: byte k of the answer.                        *)
ByteSet == {"head", "file"} \X Int
ByteAt(k) == IF k <= HeadSize THEN <<"head", k - 1>> ELSE <<"file", k - HeadSize - 1>>
Total == HeadSize + (IF ivCount = 2 THEN fileSize ELSE 0)

(* Underway: what was taken is the answer's beginning, and the iovecs are  *)
(* the rest of it.  The iovecs are right after one cut of the head only,   *)
(* because haveSent = 0 before it.                                         *)
Underway == /\ haveSent \in Nat /\ haveSent + toSend = Total
            /\ Len(wire) = haveSent /\ \A k \in 1..haveSent : wire[k] = ByteAt(k)
            /\ haveSent < HeadSize => /\ iv[0] = Resp!Iov(haveSent, HeadSize - haveSent)
                                      /\ ivCount = 2 => iv[1] = Resp!Iov(0, fileSize)
            /\ headCuts = 0 /\ haveSent < HeadSize => haveSent = 0
            /\ haveSent >= HeadSize => /\ iv[0].len = 0
                                       /\ iv[1] = Resp!Iov(haveSent - HeadSize, toSend)

Vectors == [0..1 -> [base : Int, len : Int]]

SentTypes == /\ fileSize \in Nat /\ ivCount \in 0..2 /\ iv \in Vectors
             /\ toSend \in Int /\ haveSent \in Int /\ headCuts \in Nat
             /\ wire \in Seq(ByteSet)

SentInv == /\ SentTypes
           /\ wpc \in {"rest", "code"} => haveSent = 0
           /\ wpc = "code" => wire = << >>
           /\ wpc \in {"ready", "writev"} => toSend > 0 /\ ivCount \in {1, 2}
           /\ wpc \in {"ready", "writev"} /\ headCuts <= 1 => Underway
           /\ wpc = "rest" /\ headCuts <= 1 => wire \in {<< >>, Resp!Whole}

(* A vector's bytes, and what two vectors together offer.                  *)
LEMMA VectorBytes ==
  ASSUME NEW where \in {"head", "file"}, NEW v \in [base : Int, len : Int]
  PROVE  /\ Resp!Bytes(where, v) \in Seq(ByteSet)
         /\ Len(Resp!Bytes(where, v)) = IF v.len > 0 THEN v.len ELSE 0
         /\ \A k \in 1..v.len : Resp!Bytes(where, v)[k] = <<where, v.base + k - 1>>
<1>1. CASE v.len > 0
  BY <1>1 DEF Resp!Bytes, ByteSet
<1>2. CASE ~(v.len > 0)
  <2>1. Resp!Bytes(where, v) = << >>
    BY <1>2 DEF Resp!Bytes
  <2> QED
    BY <1>2, <2>1, EmptySeq
<1> QED
  BY <1>1, <1>2

LEMMA WholeBytes ==
  ASSUME fileSize \in Nat
  PROVE  /\ Resp!Whole \in Seq(ByteSet)
         /\ Len(Resp!Whole) = Total
         /\ \A k \in 1..Total : Resp!Whole[k] = ByteAt(k)
<1> DEFINE h == Resp!Bytes("head", Resp!Iov(0, HeadSize))
           t == IF ivCount = 2 THEN Resp!Bytes("file", Resp!Iov(0, fileSize)) ELSE << >>
<1>0. HeadSize \in Nat \ {0}
  BY ConnectionAssumption
<1> HIDE DEF h, t
<1>1. h \in Seq(ByteSet) /\ Len(h) = HeadSize /\ \A k \in 1..HeadSize : h[k] = <<"head", k - 1>>
  BY <1>0 DEF h, Resp!Bytes, Resp!Iov, ByteSet
<1>2. /\ t \in Seq(ByteSet) /\ Len(t) = Total - HeadSize
      /\ \A k \in 1..Len(t) : t[k] = <<"file", k - 1>>
  <2>1. CASE ivCount = 2
    <3>1. t = [k \in 1..fileSize |-> <<"file", k - 1>>]
      BY <2>1 DEF t, Resp!Bytes, Resp!Iov
    <3>2. Total - HeadSize = fileSize
      BY <1>0, <2>1 DEF Total
    <3> QED
      BY <3>1, <3>2 DEF ByteSet
  <2>2. CASE ivCount # 2
    BY <1>0, <2>2, EmptySeq DEF Total, t
  <2> QED
    BY <2>1, <2>2
<1>3. Resp!Whole = h \o t
  BY DEF Resp!Whole, h, t
<1>4. Total \in Nat /\ Total >= HeadSize
  BY <1>0 DEF Total
<1>5. /\ h \o t \in Seq(ByteSet) /\ Len(h \o t) = Total
      /\ \A k \in 1..Total : (h \o t)[k] = IF k <= HeadSize THEN h[k] ELSE t[k - HeadSize]
  BY <1>0, <1>1, <1>2, <1>4, ConcatProperties
<1>6. ASSUME NEW k \in 1..Total PROVE (h \o t)[k] = ByteAt(k)
  <2>1. CASE k <= HeadSize
    BY <1>0, <1>1, <1>5, <2>1 DEF ByteAt
  <2>2. CASE ~(k <= HeadSize)
    <3>1. k - HeadSize \in 1..Len(t)
      BY <1>0, <1>2, <1>4, <2>2
    <3> QED
      BY <1>0, <1>2, <1>5, <2>2, <3>1 DEF ByteAt
  <2> QED
    BY <2>1, <2>2
<1> QED
  BY <1>3, <1>5, <1>6

(* The iovecs offer the rest of the answer.                                *)
LEMMA OfferedBytes ==
  ASSUME SentTypes, Underway, ivCount \in {1, 2}, toSend > 0
  PROVE  /\ Resp!Offered \in Seq(ByteSet)
         /\ Len(Resp!Offered) = toSend
         /\ \A k \in 1..toSend : Resp!Offered[k] = ByteAt(haveSent + k)
<1> DEFINE h == Resp!Bytes("head", iv[0])
           f == Resp!Bytes("file", iv[1])
           t == IF ivCount = 2 THEN f ELSE << >>
           cut == IF haveSent < HeadSize THEN HeadSize - haveSent ELSE 0
<1>0. /\ HeadSize \in Nat \ {0} /\ fileSize \in Nat
      /\ iv[0] \in [base : Int, len : Int] /\ iv[1] \in [base : Int, len : Int]
      /\ haveSent \in Nat /\ toSend \in Nat \ {0} /\ Total \in Nat
      /\ toSend = Total - haveSent /\ cut \in Nat
  BY ConnectionAssumption DEF SentTypes, Underway, Vectors, Total
<1>h. /\ h \in Seq(ByteSet) /\ Len(h) = IF iv[0].len > 0 THEN iv[0].len ELSE 0
      /\ \A k \in 1..iv[0].len : h[k] = <<"head", iv[0].base + k - 1>>
  BY <1>0, VectorBytes
<1>f. /\ f \in Seq(ByteSet) /\ Len(f) = IF iv[1].len > 0 THEN iv[1].len ELSE 0
      /\ \A k \in 1..iv[1].len : f[k] = <<"file", iv[1].base + k - 1>>
  BY <1>0, VectorBytes
<1>i. /\ haveSent < HeadSize => /\ iv[0].base = haveSent /\ iv[0].len = HeadSize - haveSent
                                /\ ivCount = 2 => iv[1].base = 0 /\ iv[1].len = fileSize
      /\ ~(haveSent < HeadSize) => /\ iv[0].len = 0
                                   /\ iv[1].base = haveSent - HeadSize /\ iv[1].len = toSend
  BY <1>0 DEF Underway, Resp!Iov
<1>3. Resp!Offered = h \o t
  BY DEF Resp!Offered
<1> HIDE DEF h, f
<1>1. /\ h \in Seq(ByteSet) /\ Len(h) = cut
      /\ \A k \in 1..cut : h[k] = ByteAt(haveSent + k)
  <2>1. CASE haveSent < HeadSize
    <3>1. cut = iv[0].len /\ iv[0].base = haveSent
      BY <1>i, <2>1
    <3>2. ASSUME NEW k \in 1..cut PROVE h[k] = ByteAt(haveSent + k)
      <4>1. h[k] = <<"head", haveSent + k - 1>>
        BY <1>h, <3>1
      <4>2. haveSent + k <= HeadSize
        BY <1>0, <2>1
      <4> QED
        BY <1>0, <4>1, <4>2 DEF ByteAt
    <3> QED
      BY <1>0, <1>h, <3>1, <3>2
  <2>2. CASE ~(haveSent < HeadSize)
    BY <1>0, <1>h, <1>i, <2>2
  <2> QED
    BY <2>1, <2>2
<1>2. /\ t \in Seq(ByteSet) /\ Len(t) = toSend - cut
      /\ \A k \in 1..(toSend - cut) : t[k] = ByteAt(haveSent + cut + k)
  <2>1. CASE ivCount = 2 /\ haveSent < HeadSize
    <3>1. toSend - cut = fileSize
      BY <1>0, <2>1 DEF Total
    <3>2. t = f /\ iv[1].base = 0 /\ iv[1].len = fileSize
      BY <1>i, <2>1
    <3>3. ASSUME NEW k \in 1..fileSize PROVE f[k] = ByteAt(haveSent + cut + k)
      <4>1. f[k] = <<"file", 0 + k - 1>>
        BY <1>f, <3>2
      <4>2. ~(haveSent + cut + k <= HeadSize) /\ haveSent + cut + k - HeadSize - 1 = 0 + k - 1
        BY <1>0, <2>1
      <4> QED
        BY <1>0, <4>1, <4>2 DEF ByteAt
    <3> HIDE DEF t, cut
    <3> QED
      BY <1>0, <1>f, <3>1, <3>2, <3>3
  <2>2. CASE ivCount = 2 /\ ~(haveSent < HeadSize)
    <3>1. t = f /\ cut = 0 /\ iv[1].base = haveSent - HeadSize /\ iv[1].len = toSend
      BY <1>i, <2>2
    <3>2. ASSUME NEW k \in 1..toSend PROVE f[k] = ByteAt(haveSent + cut + k)
      <4>1. f[k] = <<"file", haveSent - HeadSize + k - 1>>
        BY <1>f, <3>1
      <4>2. /\ ~(haveSent + cut + k <= HeadSize)
            /\ haveSent + cut + k - HeadSize - 1 = haveSent - HeadSize + k - 1
        BY <1>0, <2>2, <3>1
      <4> QED
        BY <1>0, <4>1, <4>2 DEF ByteAt
    <3> HIDE DEF t, cut
    <3> QED
      BY <1>0, <1>f, <3>1, <3>2
  <2>3. CASE ivCount = 1
    <3>1. toSend - cut = 0
      BY <1>0, <2>3 DEF Total
    <3> QED
      BY <2>3, <3>1, EmptySeq
  <2> QED
    BY <2>1, <2>2, <2>3
<1> HIDE DEF t
<1>4. /\ h \o t \in Seq(ByteSet) /\ Len(h \o t) = toSend
      /\ \A k \in 1..toSend : (h \o t)[k] = IF k <= cut THEN h[k] ELSE t[k - cut]
  <2> HIDE DEF cut
  <2>1. /\ h \o t \in Seq(ByteSet) /\ Len(h \o t) = Len(h) + Len(t)
        /\ \A k \in 1..(Len(h) + Len(t)) :
             (h \o t)[k] = IF k <= Len(h) THEN h[k] ELSE t[k - Len(h)]
    BY <1>1, <1>2, ConcatProperties
  <2>2. Len(h) = cut /\ Len(h) + Len(t) = toSend
    BY <1>0, <1>1, <1>2
  <2> QED
    BY <2>1, <2>2
<1> HIDE DEF cut
<1>5. ASSUME NEW k \in 1..toSend PROVE (h \o t)[k] = ByteAt(haveSent + k)
  <2>1. CASE k <= cut
    <3>1. k \in 1..cut /\ (h \o t)[k] = h[k]
      BY <1>0, <1>4, <2>1
    <3> QED
      BY <1>1, <3>1
  <2>2. CASE ~(k <= cut)
    <3>1. k - cut \in 1..(toSend - cut) /\ haveSent + cut + (k - cut) = haveSent + k
      BY <1>0, <2>2
    <3> QED
      BY <1>0, <1>2, <1>4, <2>2, <3>1
  <2> QED
    BY <2>1, <2>2
<1> QED
  BY <1>3, <1>4, <1>5

(* What writev takes joins what it took before.                            *)
LEMMA WireGrows ==
  ASSUME SentTypes, Underway, ivCount \in {1, 2}, toSend > 0, NEW n \in 1..Len(Resp!Offered)
  PROVE  LET w == wire \o SubSeq(Resp!Offered, 1, n)
         IN  /\ n <= toSend /\ w \in Seq(ByteSet) /\ Len(w) = haveSent + n
             /\ \A k \in 1..(haveSent + n) : w[k] = ByteAt(k)
<1> DEFINE part == SubSeq(Resp!Offered, 1, n)
           w == wire \o part
<1>0. /\ n \in Nat \ {0} /\ n <= toSend /\ toSend \in Nat /\ haveSent \in Nat
      /\ wire \in Seq(ByteSet) /\ Len(wire) = haveSent
      /\ \A k \in 1..haveSent : wire[k] = ByteAt(k)
  BY OfferedBytes DEF SentTypes, Underway
<1>1. \A k \in 1..n : Resp!Offered[k] \in ByteSet
  BY <1>0, OfferedBytes, ElementOfSeq
<1>2. /\ part \in Seq(ByteSet) /\ Len(part) = n
      /\ \A k \in 1..n : part[k] = Resp!Offered[k]
  <2>1. /\ part \in Seq(ByteSet) /\ Len(part) = IF 1 <= n THEN n - 1 + 1 ELSE 0
        /\ \A k \in 1..(n - 1 + 1) : part[k] = Resp!Offered[1 + k - 1]
    BY <1>0, <1>1, SubSeqProperties
  <2> HIDE DEF part
  <2>2. n - 1 + 1 = n /\ \A k \in 1..n : 1 + k - 1 = k
    BY <1>0
  <2> QED
    BY <1>0, <2>1, <2>2
<1> HIDE DEF part
<1>3. \A k \in 1..n : part[k] = ByteAt(haveSent + k)
  BY <1>0, <1>2, OfferedBytes
<1>4. /\ w \in Seq(ByteSet) /\ Len(w) = haveSent + n
      /\ \A k \in 1..(haveSent + n) : w[k] = IF k <= haveSent THEN wire[k] ELSE part[k - haveSent]
  BY <1>0, <1>2, ConcatProperties
<1> HIDE DEF w
<1>5. ASSUME NEW k \in 1..(haveSent + n) PROVE w[k] = ByteAt(k)
  <2>1. CASE k <= haveSent
    BY <1>0, <1>4, <2>1
  <2>2. CASE ~(k <= haveSent)
    <3>1. k - haveSent \in 1..n /\ haveSent + (k - haveSent) = k
      BY <1>0, <2>2
    <3> QED
      BY <1>0, <1>3, <1>4, <2>2, <3>1
  <2> QED
    BY <2>1, <2>2
<1>6. n <= toSend /\ w \in Seq(ByteSet) /\ Len(w) = haveSent + n
      /\ \A k \in 1..(haveSent + n) : w[k] = ByteAt(k)
  BY <1>0, <1>4, <1>5
<1> QED
  BY <1>6 DEF w, part

LEMMA SentFrame ==
  /\ UNCHANGED <<ivCount, fileSize>> => Resp!Whole' = Resp!Whole
  /\ UNCHANGED <<fileSize, iv, ivCount, toSend, haveSent, wire, headCuts>> =>
       /\ SentTypes' = SentTypes
       /\ Underway' = Underway
BY DEF Resp!Whole, SentTypes, Underway, Total

(* Whatever the iovecs hold, what writev takes are bytes.                  *)
LEMMA WireTyped ==
  ASSUME SentTypes, NEW n \in 1..Len(Resp!Offered)
  PROVE  /\ n \in Nat \ {0}
         /\ wire \o SubSeq(Resp!Offered, 1, n) \in Seq(ByteSet)
<1> DEFINE h == Resp!Bytes("head", iv[0])
           f == Resp!Bytes("file", iv[1])
           t == IF ivCount = 2 THEN f ELSE << >>
           part == SubSeq(Resp!Offered, 1, n)
<1>1. iv[0] \in [base : Int, len : Int] /\ iv[1] \in [base : Int, len : Int]
  BY DEF SentTypes, Vectors
<1>2. h \in Seq(ByteSet) /\ f \in Seq(ByteSet)
  BY <1>1, VectorBytes
<1>3. Resp!Offered = h \o t
  BY DEF Resp!Offered
<1> HIDE DEF h, f
<1>4. t \in Seq(ByteSet)
  BY <1>2, EmptySeq
<1> HIDE DEF t
<1>5. Resp!Offered \in Seq(ByteSet)
  BY <1>2, <1>3, <1>4, ConcatProperties
<1>6. n \in Nat \ {0} /\ \A k \in 1..n : Resp!Offered[k] \in ByteSet
  BY <1>5, ElementOfSeq
<1>7. part \in Seq(ByteSet)
  BY <1>6, SubSeqProperties
<1> HIDE DEF part
<1>8. wire \o part \in Seq(ByteSet)
  BY <1>7, ConcatProperties DEF SentTypes
<1> QED
  BY <1>6, <1>8 DEF part

LEMMA SentInit == ConnectionInit => SentInv
<1> SUFFICES ASSUME ConnectionInit PROVE SentInv
  OBVIOUS
<1>1. iv \in Vectors
  BY DEF ConnectionInit, Resp!Init, Vectors, Resp!Iov
<1>2. wire = << >> /\ wire \in Seq(ByteSet)
  BY EmptySeq DEF ConnectionInit, Resp!Init
<1> QED
  BY <1>1, <1>2 DEF ConnectionInit, Resp!Init, SentInv, SentTypes

LEMMA SentStep == SentInv /\ [Next]_vars => SentInv'
<1> SUFFICES ASSUME SentInv, [Next]_vars PROVE SentInv'
  OBVIOUS
<1>0. SentTypes /\ HeadSize \in Nat \ {0}
  BY ConnectionAssumption DEF SentInv
<1>1. CASE UNCHANGED respVars
  BY <1>1, SentFrame DEF SentInv, respVars
<1>2. ASSUME Resp!Begin, fileSize' \in Nat, UNCHANGED <<iv, ivCount, toSend, haveSent, headCuts>>
      PROVE  SentInv'
  <2>1. wpc' = "code" /\ haveSent = 0 /\ wire' = << >> /\ wire' \in Seq(ByteSet)
    BY <1>2, EmptySeq DEF SentInv, Resp!Begin
  <2> QED
    BY <1>0, <1>2, <2>1 DEF SentInv, SentTypes
<1>3. ASSUME NEW f \in Files, Resp!DoRequest(f) PROVE SentInv'
  <2>1. fileSize' \in Nat
    BY <1>0, <1>3, FilesTyped DEF SentTypes, Resp!DoRequest, Resp!FoundFile, Resp!Unusable
  <2> QED
    BY <1>2, <1>3, <2>1 DEF Resp!DoRequest, Resp!ivVars
<1>4. CASE Resp!BadRequest
  BY <1>0, <1>2, <1>4 DEF SentTypes, Resp!BadRequest, Resp!ivVars, Resp!fileVars
<1>5. CASE Resp!ProcessWrite
  <2>1. /\ wpc' = "ready" /\ haveSent' = 0 /\ wire' = << >> /\ wire' \in Seq(ByteSet)
        /\ Len(wire') = 0 /\ fileSize' \in Nat /\ headCuts' = 0 /\ ivCount' \in {1, 2}
    BY <1>0, <1>5, EmptySeq DEF SentInv, SentTypes, Resp!ProcessWrite, Resp!fileVars
  <2>2. toSend' = Total' /\ toSend' \in Nat \ {0}
    BY <1>0, <1>5, <2>1 DEF SentTypes, Resp!ProcessWrite, Resp!ToSend, Resp!fileVars, Total
  <2>3. /\ iv' \in Vectors /\ iv'[0] = Resp!Iov(0, HeadSize)
        /\ ivCount' = 2 => iv'[1] = Resp!Iov(0, fileSize')
    BY <1>0, <1>5 DEF SentTypes, Vectors, Resp!ProcessWrite, Resp!Iov, Resp!fileVars
  <2>4. Underway'
    BY <1>0, <2>1, <2>2, <2>3 DEF Underway, Total
  <2> QED
    BY <2>1, <2>2, <2>3, <2>4 DEF SentInv, SentTypes
<1>6. CASE Resp!ProcessWriteRefuses
  BY <1>0, <1>6, SentFrame
     DEF SentInv, Resp!ProcessWriteRefuses, Resp!fileVars, Resp!ivVars, Resp!ghosts
<1>7. CASE Resp!WriteCalled \/ Resp!WriteAgain
  <2>1. /\ UNCHANGED <<fileSize, iv, ivCount, toSend, haveSent, wire, headCuts>>
        /\ wpc \in {"ready", "writev"} /\ wpc' \in {"ready", "writev"}
    BY <1>7 DEF Resp!WriteCalled, Resp!WriteAgain, Resp!fileVars, Resp!ivVars, Resp!ghosts
  <2>2. SentTypes' /\ Underway' = Underway
    BY <1>0, <2>1, SentFrame
  <2> QED
    BY <2>1, <2>2 DEF SentInv
<1>8. ASSUME NEW n \in 1..Len(Resp!Offered), Resp!WritePart(n) PROVE SentInv'
  <2>1. /\ wpc = "writev" /\ wpc' = "writev" /\ toSend > 0 /\ ivCount \in {1, 2}
        /\ n \in Nat \ {0} /\ toSend' > 0
        /\ haveSent' = haveSent + n /\ toSend' = toSend - n
        /\ iv' = Resp!MovedOn(haveSent')
        /\ wire' = wire \o SubSeq(Resp!Offered, 1, n) /\ wire' \in Seq(ByteSet)
        /\ headCuts' = IF haveSent' < HeadSize THEN headCuts + 1 ELSE headCuts
        /\ UNCHANGED <<fileSize, ivCount>>
    BY <1>0, <1>8, WireTyped DEF SentInv, Resp!WritePart, Resp!Take
  <2>2. iv' = IF haveSent' >= iv[0].len
                THEN [iv EXCEPT ![0].len = 0, ![1] = Resp!Iov(haveSent' - HeadSize, toSend')]
                ELSE [iv EXCEPT ![0] = Resp!Iov(haveSent', iv[0].len - haveSent')]
    BY <2>1 DEF Resp!MovedOn
  <2>3. iv \in Vectors /\ iv[0] \in [base : Int, len : Int] /\ iv[1] \in [base : Int, len : Int]
    BY <1>0 DEF SentTypes, Vectors
  <2>4. ASSUME haveSent' >= iv[0].len
        PROVE  /\ iv' \in Vectors /\ iv'[0].len = 0
               /\ iv'[1] = Resp!Iov(haveSent' - HeadSize, toSend')
    <3>1. iv' = [iv EXCEPT ![0].len = 0, ![1] = Resp!Iov(haveSent' - HeadSize, toSend')]
      BY <2>2, <2>4
    <3>2. /\ iv'[0] = [iv[0] EXCEPT !.len = 0]
          /\ iv'[1] = Resp!Iov(haveSent' - HeadSize, toSend')
      BY <2>3, <3>1, 0 \in 0..1, 1 \in 0..1 DEF Vectors
    <3>3. haveSent' - HeadSize \in Int /\ toSend' \in Int
      BY <1>0, <2>1 DEF SentTypes
    <3>4. iv'[1] \in [base : Int, len : Int] /\ iv'[0] \in [base : Int, len : Int] /\ iv'[0].len = 0
      BY <2>3, <3>2, <3>3 DEF Resp!Iov
    <3> QED
      BY <2>3, <3>1, <3>2, <3>4 DEF Vectors
  <2>5. ASSUME ~(haveSent' >= iv[0].len)
        PROVE  /\ iv' \in Vectors /\ iv'[1] = iv[1]
               /\ iv'[0] = Resp!Iov(haveSent', iv[0].len - haveSent')
    <3>1. iv' = [iv EXCEPT ![0] = Resp!Iov(haveSent', iv[0].len - haveSent')]
      BY <2>2, <2>5
    <3>2. /\ iv'[0] = Resp!Iov(haveSent', iv[0].len - haveSent') /\ iv'[1] = iv[1]
      BY <2>3, <3>1, 0 \in 0..1, 1 \in 0..1 DEF Vectors
    <3>3. haveSent' \in Int /\ iv[0].len - haveSent' \in Int
      BY <1>0, <2>1, <2>3 DEF SentTypes
    <3>4. iv'[0] \in [base : Int, len : Int] /\ iv'[1] \in [base : Int, len : Int]
      BY <2>3, <3>2, <3>3 DEF Resp!Iov
    <3> QED
      BY <2>3, <3>1, <3>2, <3>4 DEF Vectors
  <2>6. SentTypes'
    BY <1>0, <2>1, <2>4, <2>5 DEF SentTypes
  <2>7. ASSUME headCuts' <= 1 PROVE Underway'
    <3>1. headCuts <= 1 /\ Underway /\ headCuts \in Nat /\ toSend \in Int
      BY <1>0, <2>1, <2>7 DEF SentInv, SentTypes
    <3>2. /\ haveSent \in Nat /\ haveSent' \in Nat /\ n <= toSend /\ Len(wire') = haveSent'
          /\ \A k \in 1..haveSent' : wire'[k] = ByteAt(k)
      BY <1>0, <1>8, <2>1, <3>1, WireGrows DEF Underway
    <3>3. haveSent' + toSend' = Total'
      BY <2>1, <3>1, <3>2 DEF Underway, Total
    <3>4. CASE haveSent' < HeadSize
      <4>1. headCuts = 0 /\ headCuts' = 1 /\ haveSent = 0
        BY <1>0, <2>1, <2>7, <3>1, <3>2, <3>4 DEF Underway
      <4>2. iv[0].len = HeadSize /\ (ivCount = 2 => iv[1] = Resp!Iov(0, fileSize))
        BY <1>0, <3>1, <4>1 DEF Underway, Resp!Iov
      <4>3. ~(haveSent' >= iv[0].len)
        BY <1>0, <3>2, <3>4, <4>2
      <4> QED
        BY <1>0, <2>1, <2>5, <3>2, <3>3, <3>4, <4>1, <4>2, <4>3 DEF Underway
    <3>5. CASE ~(haveSent' < HeadSize)
      <4>1. iv[0].len <= HeadSize /\ iv[0].len \in Int
        BY <1>0, <2>3, <3>1, <3>2 DEF Underway, Resp!Iov
      <4>2. haveSent' >= iv[0].len /\ haveSent' >= HeadSize
        BY <1>0, <3>2, <3>5, <4>1
      <4> QED
        BY <1>0, <2>4, <3>2, <3>3, <4>2 DEF Underway
    <3> QED
      BY <3>4, <3>5
  <2> QED
    BY <2>1, <2>6, <2>7 DEF SentInv
<1>9. ASSUME NEW n \in 1..Len(Resp!Offered), Resp!WriteLast(n, linger) PROVE SentInv'
  <2>1. /\ wpc = "writev" /\ toSend > 0 /\ ivCount \in {1, 2} /\ toSend - n <= 0
        /\ n \in Nat \ {0} /\ wpc' \in {"rest", "refused"} /\ haveSent' \in Int /\ toSend' \in Int
        /\ wpc' = "rest" => haveSent' = 0
        /\ wire' = wire \o SubSeq(Resp!Offered, 1, n) /\ wire' \in Seq(ByteSet)
        /\ UNCHANGED <<fileSize, iv, ivCount, headCuts>>
    BY <1>0, <1>9, WireTyped DEF SentInv, SentTypes, Resp!WriteLast
  <2>2. ASSUME headCuts <= 1 PROVE wire' = Resp!Whole
    <3>1. Underway /\ toSend \in Int
      BY <1>0, <2>1, <2>2 DEF SentInv, SentTypes
    <3>2. n <= toSend /\ Len(wire') = haveSent + n /\ \A k \in 1..(haveSent + n) : wire'[k] = ByteAt(k)
      BY <1>0, <1>9, <2>1, <3>1, WireGrows
    <3>3. haveSent + n = Total
      <4>1. n = toSend
        BY <2>1, <3>1, <3>2
      <4> QED
        BY <3>1, <4>1 DEF Underway
    <3>4. /\ Resp!Whole \in Seq(ByteSet) /\ Len(Resp!Whole) = Total
          /\ \A k \in 1..Total : Resp!Whole[k] = ByteAt(k)
      BY <1>0, WholeBytes DEF SentTypes
    <3>5. Len(wire') = Len(Resp!Whole) /\ \A k \in 1..Len(wire') : wire'[k] = Resp!Whole[k]
      BY <3>2, <3>3, <3>4
    <3> QED
      BY <2>1, <3>4, <3>5, SeqEqual
  <2> QED
    BY <1>0, <2>1, <2>2, SentFrame DEF SentInv, SentTypes
<1>10. CASE Resp!WriteFails
  BY <1>0, <1>10, SentFrame DEF SentInv, Resp!WriteFails, Resp!ivVars, Resp!ghosts
<1>11. CASE Resp!Reopened
  <2>1. wpc' = "rest" /\ wire' = << >> /\ wire' \in Seq(ByteSet) /\ haveSent' = 0
    BY <1>11, EmptySeq DEF Resp!Reopened
  <2> QED
    BY <1>0, <1>11, <2>1 DEF SentInv, SentTypes, Resp!Reopened, Resp!fileVars
<1> QED
  BY <1>1, <1>3, <1>4, <1>5, <1>6, <1>7, <1>8, <1>9, <1>10, <1>11
     DEF Next, vars, Read, Process, Reply, Write, Reopen, Resp!WriteStep

(* However often the socket takes a part only, the client gets the head    *)
(* and then the file, each byte once and in order, as long as the head is  *)
(* cut at most once.                                                       *)
THEOREM AnswerInOrder == Spec => []SentInOrder
<1>1. SentInv => SentInOrder
  <2> SUFFICES ASSUME SentInv PROVE Resp!SentInOrder
    BY DEF SentInOrder
  <2>0. SentTypes /\ HeadSize \in Nat \ {0} /\ fileSize \in Nat
    BY ConnectionAssumption DEF SentInv, SentTypes
  <2>1. ASSUME headCuts <= 1, wpc \in {"ready", "writev"} PROVE IsPrefix(wire, Resp!Whole)
    <3> DEFINE a == SubSeq(wire, 1, Len(wire))
               b == SubSeq(Resp!Whole, 1, Len(wire))
    <3>1. Underway /\ toSend > 0
      BY <2>1 DEF SentInv
    <3>2. /\ Len(wire) \in Nat /\ Len(wire) = haveSent /\ haveSent <= Total /\ Total \in Nat
          /\ wire \in Seq(ByteSet)
      BY <2>0, <3>1 DEF SentTypes, Underway, Total
    <3>3. \A k \in 1..Len(wire) : wire[k] \in ByteSet /\ Resp!Whole[k] \in ByteSet
                                  /\ wire[k] = Resp!Whole[k]
      BY <2>0, <3>1, <3>2, WholeBytes, ElementOfSeq DEF Underway
    <3>4. /\ a \in Seq(ByteSet) /\ b \in Seq(ByteSet) /\ Len(a) = Len(b)
          /\ \A k \in 1..Len(a) : a[k] = b[k]
      BY <3>2, <3>3, SubSeqProperties
    <3>5. a = b
      BY <3>4, SeqEqual
    <3> QED
      BY <2>0, <3>2, <3>5, WholeBytes DEF IsPrefix
  <2>2. headCuts <= 1 /\ wpc = "rest" => wire \in {<< >>, Resp!Whole}
    BY DEF SentInv
  <2>3. wpc = "ready" => toSend > 0
    BY DEF SentInv
  <2> QED
    BY <2>1, <2>2, <2>3 DEF Resp!SentInOrder, IsPrefix, Resp!IsPrefix
<1> QED
  BY <1>1, SentInit, SentStep, PTL DEF Spec

-----------------------------------------------------------------------------
(* Induction.  The library's principles take an operator; these take a set *)
(* and follow from the one about well-founded relations.                   *)
LEMMA LeastElement ==
  ASSUME NEW T, T \subseteq Nat, T # {}
  PROVE  \E x \in T : \A y \in T : x <= y
<1> DEFINE less == {p \in Nat \X Nat : p[1] < p[2]}
<1>1. IsWellFoundedOn(less, Nat)
  BY NatLessThanWellFounded DEF OpToRel
<1>2. \A m, n \in Nat : <<m, n>> \in less <=> m < n
  OBVIOUS
<1> HIDE DEF less
<1>3. \A R, S, U : IsWellFoundedOn(R, S) /\ U \subseteq S /\ U # {} =>
                     \E x \in U : \A y \in U : ~(<<y, x>> \in R)
  BY WFMin
<1>4. PICK x \in T : \A y \in T : ~(<<y, x>> \in less)
  BY <1>1, <1>3
<1>5. x \in Nat /\ \A y \in T : y \in Nat /\ ~(y < x)
  BY <1>2, <1>4
<1>6. \A y \in T : x <= y
  BY <1>5
<1> QED
  BY <1>6

LEMMA Upwards ==
  ASSUME NEW n \in Nat, NEW S, 1 \in S, \A i \in 1..(n - 1) : i \in S => i + 1 \in S
  PROVE  1..n \subseteq S
<1> SUFFICES ASSUME (1..n) \ S # {} PROVE FALSE
  OBVIOUS
<1>1. PICK x \in (1..n) \ S : \A y \in (1..n) \ S : x <= y
  <2>1. (1..n) \ S \subseteq Nat
    OBVIOUS
  <2> QED
    BY <2>1, LeastElement
<1>2. x # 1 /\ x - 1 \in 1..(n - 1) /\ (x - 1) + 1 = x
  OBVIOUS
<1>3. x - 1 \in S
  BY <1>1, <1>2
<1> QED
  BY <1>2, <1>3

-----------------------------------------------------------------------------
(* The bytes of a message.  Line 0 is the request line, lines 1 to n are   *)
(* the headers, and the line behind them is empty.                         *)
TextOf(m, i) == IF i = 0 THEN m.first ELSE m.headers[i]
HeadLen(m) == 3 * Len(m.headers) + 5

(* Sequences of three, one after the other.                                *)
Joined(parts, j) == [k \in 1..(3 * j) |-> parts[(k - 1) \div 3 + 1][((k - 1) % 3) + 1]]

LEMMA Thirds ==
  ASSUME NEW j \in Nat, NEW k \in 1..(3 * j)
  PROVE  (k - 1) \div 3 + 1 \in 1..j /\ ((k - 1) % 3) + 1 \in 1..3
  OBVIOUS

LEMMA JoinedTyped ==
  ASSUME NEW S, NEW n \in Nat, NEW parts \in Seq(Seq(S)), Len(parts) = n,
         \A i \in 1..n : Len(parts[i]) = 3, NEW j \in 0..n
  PROVE  Joined(parts, j) \in Seq(S) /\ Len(Joined(parts, j)) = 3 * j
<1>1. \A i \in 1..n : parts[i] \in Seq(S) /\ \A k \in 1..3 : parts[i][k] \in S
  <2> SUFFICES ASSUME NEW i \in 1..n PROVE parts[i] \in Seq(S) /\ \A k \in 1..3 : parts[i][k] \in S
    OBVIOUS
  <2>1. parts[i] \in Seq(S) /\ Len(parts[i]) = 3
    BY ElementOfSeq
  <2> QED
    BY <2>1, ElementOfSeq
<1>2. \A k \in 1..(3 * j) : parts[(k - 1) \div 3 + 1][((k - 1) % 3) + 1] \in S
  <2> SUFFICES ASSUME NEW k \in 1..(3 * j)
               PROVE  parts[(k - 1) \div 3 + 1][((k - 1) % 3) + 1] \in S
    OBVIOUS
  <2> DEFINE p == (k - 1) \div 3 + 1
             q == ((k - 1) % 3) + 1
  <2>1. p \in 1..j /\ q \in 1..3
    BY Thirds
  <2> HIDE DEF p, q
  <2>2. p \in 1..n
    BY <2>1
  <2> QED
    BY <1>1, <2>1, <2>2 DEF p, q
<1>3. Joined(parts, j) \in [1..(3 * j) -> S] /\ 3 * j \in Nat
  BY <1>2 DEF Joined
<1> QED
  BY <1>3

LEMMA JoinedGrows ==
  ASSUME NEW S, NEW n \in Nat, NEW parts \in Seq(Seq(S)), Len(parts) = n,
         \A i \in 1..n : Len(parts[i]) = 3, NEW j \in 0..(n - 1)
  PROVE  Joined(parts, j) \o parts[j + 1] = Joined(parts, j + 1)
<1> DEFINE a == Joined(parts, j)
           b == parts[j + 1]
           c == Joined(parts, j + 1)
<1>1. j \in 0..n /\ j + 1 \in 0..n /\ j + 1 \in 1..n
  OBVIOUS
<1>2. a \in Seq(S) /\ Len(a) = 3 * j /\ c \in Seq(S) /\ Len(c) = 3 * j + 3
  BY <1>1, JoinedTyped
<1>3. b \in Seq(S) /\ Len(b) = 3
  BY <1>1, ElementOfSeq
<1>4. \A k \in 1..(3 * j) : a[k] = c[k]
  BY DEF Joined
<1>5. \A k \in (3 * j + 1)..(3 * j + 3) : c[k] = b[k - 3 * j]
  <2> SUFFICES ASSUME NEW k \in (3 * j + 1)..(3 * j + 3) PROVE c[k] = b[k - 3 * j]
    OBVIOUS
  <2>1. (k - 1) \div 3 = j /\ (k - 1) % 3 = k - 1 - 3 * j
    <3>1. k = 3 * j + 1 \/ k = 3 * j + 2 \/ k = 3 * j + 3
      OBVIOUS
    <3>2. CASE k = 3 * j + 1
      <4>1. k - 1 = 3 * j
        BY <3>2
      <4>2. (3 * j) \div 3 = j /\ (3 * j) % 3 = 0
        OBVIOUS
      <4> QED
        BY <4>1, <4>2
    <3>3. CASE k = 3 * j + 2
      <4>1. k - 1 = 3 * j + 1
        BY <3>3
      <4>2. (3 * j + 1) \div 3 = j /\ (3 * j + 1) % 3 = 1
        OBVIOUS
      <4> QED
        BY <4>1, <4>2
    <3>4. CASE k = 3 * j + 3
      <4>1. k - 1 = 3 * j + 2
        BY <3>4
      <4>2. (3 * j + 2) \div 3 = j /\ (3 * j + 2) % 3 = 2
        OBVIOUS
      <4> QED
        BY <4>1, <4>2
    <3> QED
      BY <3>1, <3>2, <3>3, <3>4
  <2>2. k \in 1..(3 * (j + 1)) /\ (k - 1 - 3 * j) + 1 = k - 3 * j
    OBVIOUS
  <2> QED
    BY <2>1, <2>2 DEF Joined
<1> HIDE DEF a, b, c
<1>6. /\ a \o b \in Seq(S) /\ Len(a \o b) = 3 * j + 3
      /\ \A k \in 1..(3 * j + 3) : (a \o b)[k] = IF k <= 3 * j THEN a[k] ELSE b[k - 3 * j]
  <2>1. /\ a \o b \in Seq(S) /\ Len(a \o b) = Len(a) + Len(b)
        /\ \A k \in 1..(Len(a) + Len(b)) : (a \o b)[k] = IF k <= Len(a) THEN a[k] ELSE b[k - Len(a)]
    BY <1>2, <1>3, ConcatProperties
  <2> QED
    BY <1>2, <1>3, <2>1
<1>7. \A k \in 1..(3 * j + 3) : (a \o b)[k] = c[k]
  BY <1>4, <1>5, <1>6
<1>8. a \o b = c
  BY <1>2, <1>6, <1>7, SeqEqual
<1> QED
  BY <1>8 DEF a, b, c

LEMMA FlattenIs ==
  ASSUME NEW S, NEW n \in Nat, NEW parts \in Seq(Seq(S)), Len(parts) = n,
         \A i \in 1..n : Len(parts[i]) = 3
  PROVE  FlattenSeq(parts) = Joined(parts, n)
<1> DEFINE Flat(f) == [i \in 1..n |-> IF i = 1 THEN parts[i] ELSE f[i - 1] \o parts[i]]
           flatten == CHOOSE f : f = Flat(f)
           all == [j \in 1..n |-> Joined(parts, j)]
<1>1. CASE n = 0
  <2>1. FlattenSeq(parts) = parts /\ parts = << >>
    BY <1>1, EmptySeq DEF FlattenSeq
  <2>2. Joined(parts, 0) \in Seq(S) /\ Len(Joined(parts, 0)) = 0
    <3>1. 0 \in 0..n
      OBVIOUS
    <3>2. Joined(parts, 0) \in Seq(S) /\ Len(Joined(parts, 0)) = 3 * 0
      BY <3>1, JoinedTyped
    <3> QED
      BY <3>2
  <2>3. Joined(parts, n) = << >>
    BY <1>1, <2>2, EmptySeq
  <2> QED
    BY <2>1, <2>3
<1>2. CASE n > 0
  <2>1. FlattenSeq(parts) = flatten[n]
    BY <1>2 DEF FlattenSeq
  <2>2. Joined(parts, 1) = parts[1]
    <3>1. Joined(parts, 0) \o parts[0 + 1] = Joined(parts, 0 + 1)
      <4>1. 0 \in 0..(n - 1)
        BY <1>2
      <4> QED
        BY <4>1, JoinedGrows
    <3>2. Joined(parts, 0) = << >>
      <4>1. 0 \in 0..n
        OBVIOUS
      <4>2. Joined(parts, 0) \in Seq(S) /\ Len(Joined(parts, 0)) = 3 * 0
        BY <4>1, JoinedTyped
      <4> QED
        BY <4>2, EmptySeq
    <3>3. parts[1] \in Seq(S)
      BY <1>2, ElementOfSeq
    <3>4. << >> \o parts[1] = parts[1]
      BY <3>3, ConcatEmptySeq
    <3>5. Joined(parts, 0) \o parts[1] = Joined(parts, 1)
      <4>1. 0 + 1 = 1
        OBVIOUS
      <4> QED
        BY <3>1, <4>1
    <3> QED
      BY <3>2, <3>4, <3>5
  <2>3. ASSUME NEW j \in 1..(n - 1)
        PROVE  Joined(parts, j) \o parts[j + 1] = Joined(parts, j + 1)
    <3>1. j \in 0..(n - 1)
      OBVIOUS
    <3> QED
      BY <3>1, JoinedGrows
  <2>4. \A j \in 1..n : Joined(parts, j) =
          IF j = 1 THEN parts[j] ELSE Joined(parts, j - 1) \o parts[j]
    <3> SUFFICES ASSUME NEW j \in 1..n, j # 1
                 PROVE  Joined(parts, j) = Joined(parts, j - 1) \o parts[j]
      BY <2>2
    <3>1. j - 1 \in 1..(n - 1) /\ (j - 1) + 1 = j
      OBVIOUS
    <3> QED
      BY <2>3, <3>1
  <2>5. all = Flat(all)
    <3>1. \A j \in 1..n : j # 1 => all[j - 1] = Joined(parts, j - 1)
      OBVIOUS
    <3> QED
      BY <2>4, <3>1
  <2> HIDE DEF all
  <2>6. flatten = Flat(flatten)
    <3> HIDE DEF Flat
    <3> QED
      BY <2>5
  <2> HIDE DEF flatten
  <2> DEFINE same == {j \in 1..n : flatten[j] = Joined(parts, j)}
  <2>7. \A j \in 1..n : flatten[j] = IF j = 1 THEN parts[j] ELSE flatten[j - 1] \o parts[j]
    BY <2>6
  <2>8. 1 \in same
    BY <1>2, <2>2, <2>7
  <2>9. ASSUME NEW j \in 1..(n - 1), j \in same PROVE j + 1 \in same
    <3>1. j + 1 \in 1..n /\ j + 1 # 1 /\ (j + 1) - 1 = j
      OBVIOUS
    <3>2. flatten[j + 1] = flatten[j] \o parts[j + 1]
      BY <2>7, <3>1
    <3> QED
      BY <2>3, <2>9, <3>1, <3>2
  <2> HIDE DEF same
  <2>10. 1..n \subseteq same
    BY <2>8, <2>9, Upwards
  <2> QED
    BY <1>2, <2>1, <2>10 DEF same
<1> QED
  BY <1>1, <1>2

LEMMA MessageTyped ==
  ASSUME NEW m \in Messages
  PROVE  /\ m.first \in {"get", "post", "junk"}
         /\ m.headers \in Seq({"len", "keep", "host", "CR", "LF"}) /\ Len(m.headers) \in Nat
         /\ \A i \in 1..Len(m.headers) : m.headers[i] \in {"len", "keep", "host", "CR", "LF"}
         /\ m.body \in Seq(Symbols) /\ Len(m.body) \in Nat
         /\ \A k \in 1..Len(m.body) : m.body[k] # "NUL"
<1>1. /\ m.first \in {"get", "post", "junk"}
      /\ m.headers \in Seq({"len", "keep", "host", "CR", "LF"})
      /\ m.body \in Seq({"b", "CR", "LF"})
  BY HttpAssumption
<1>2. \A i \in 1..Len(m.headers) : m.headers[i] \in {"len", "keep", "host", "CR", "LF"}
  BY <1>1, ElementOfSeq
<1>3. \A k \in 1..Len(m.body) : m.body[k] \in {"b", "CR", "LF"}
  BY <1>1, ElementOfSeq
<1>4. m.body \in Seq(Symbols) /\ \A k \in 1..Len(m.body) : m.body[k] # "NUL"
  BY <1>1, <1>3 DEF Symbols
<1> QED
  BY <1>1, <1>2, <1>4

LEMMA LineIs ==
  ASSUME NEW t \in Symbols
  PROVE  Line(t) = <<t, "CR", "LF">> /\ Line("") = <<"CR", "LF">>
<1>1. t # ""
  BY DEF Symbols
<1>2. <<t>> \o <<"CR", "LF">> = <<t, "CR", "LF">>
  <2> DEFINE a == <<t>>
             b == <<"CR", "LF">>
             c == <<t, "CR", "LF">>
  <2>1. /\ a \in Seq(Symbols) /\ Len(a) = 1 /\ a[1] = t
        /\ b \in Seq(Symbols) /\ Len(b) = 2 /\ b[1] = "CR" /\ b[2] = "LF"
        /\ c \in Seq(Symbols) /\ Len(c) = 3 /\ c[1] = t /\ c[2] = "CR" /\ c[3] = "LF"
    BY DEF Symbols
  <2> HIDE DEF a, b, c
  <2>2. /\ a \o b \in Seq(Symbols) /\ Len(a \o b) = Len(a) + Len(b)
        /\ \A k \in 1..(Len(a) + Len(b)) : (a \o b)[k] = IF k <= Len(a) THEN a[k] ELSE b[k - Len(a)]
    BY <2>1, ConcatProperties
  <2>3. /\ Len(a \o b) = 3 /\ (a \o b)[1] = a[1]
        /\ (a \o b)[2] = b[1] /\ (a \o b)[3] = b[2]
    BY <2>1, <2>2
  <2>4. \A k \in 1..3 : (a \o b)[k] = c[k]
    <3>1. \A k \in 1..3 : k = 1 \/ k = 2 \/ k = 3
      OBVIOUS
    <3> QED
      BY <2>1, <2>3, <3>1
  <2>5. a \o b = c
    BY <2>1, <2>2, <2>3, <2>4, SeqEqual
  <2> QED
    BY <2>5 DEF a, b, c
<1>3. << >> \o <<"CR", "LF">> = <<"CR", "LF">>
  <2>1. <<"CR", "LF">> \in Seq(Symbols)
    BY DEF Symbols
  <2> QED
    BY <2>1, ConcatEmptySeq
<1> QED
  BY <1>1, <1>2, <1>3 DEF Line

LEMMA TextTyped ==
  ASSUME NEW m \in Messages, NEW i \in 0..Len(m.headers)
  PROVE  /\ TextOf(m, i) \in Symbols /\ TextOf(m, i) # "NUL"
         /\ i = 0 => TextOf(m, i) \notin {"CR", "LF"}
<1>1. CASE i = 0
  BY <1>1, MessageTyped DEF TextOf, Symbols
<1>2. CASE i # 0
  <2>1. i \in 1..Len(m.headers)
    BY <1>2, MessageTyped
  <2> QED
    BY <1>2, <2>1, MessageTyped DEF TextOf, Symbols
<1> QED
  BY <1>1, <1>2

(* The head is made of the first line, the headers and an empty line.      *)
Parts(m) == [i \in 1..Len(m.headers) |-> Line(m.headers[i])]
Middle(m) == Joined(Parts(m), Len(m.headers))

LEMMA MiddleIs ==
  ASSUME NEW m \in Messages
  PROVE  /\ FlattenSeq(Parts(m)) = Middle(m)
         /\ Middle(m) \in Seq(Symbols) /\ Len(Middle(m)) = 3 * Len(m.headers)
         /\ \A i \in 1..Len(m.headers) : /\ Middle(m)[3 * i - 2] = m.headers[i]
                                         /\ Middle(m)[3 * i - 1] = "CR"
                                         /\ Middle(m)[3 * i] = "LF"
<1> DEFINE n == Len(m.headers)
           parts == Parts(m)
<1>1. n \in Nat /\ \A i \in 1..n : m.headers[i] \in Symbols
  BY MessageTyped DEF Symbols
<1> HIDE DEF n
<1>2. \A i \in 1..n : Line(m.headers[i]) = <<m.headers[i], "CR", "LF">>
  BY <1>1, LineIs
<1>3. parts = [i \in 1..n |-> Line(m.headers[i])]
  BY DEF Parts, n
<1> HIDE DEF parts
<1>4. \A i \in 1..n : parts[i] = <<m.headers[i], "CR", "LF">>
  BY <1>2, <1>3
<1>5. \A i \in 1..n : parts[i] \in Seq(Symbols) /\ Len(parts[i]) = 3
  <2>1. "CR" \in Symbols /\ "LF" \in Symbols
    BY DEF Symbols
  <2>2. \A t \in Symbols : <<t, "CR", "LF">> \in Seq(Symbols) /\ Len(<<t, "CR", "LF">>) = 3
    BY <2>1
  <2> QED
    BY <1>1, <1>4, <2>2
<1>6. parts \in Seq(Seq(Symbols)) /\ Len(parts) = n
  <2>1. parts \in [1..n -> Seq(Symbols)]
    BY <1>3, <1>5
  <2> QED
    BY <1>1, <2>1
<1>7. FlattenSeq(parts) = Joined(parts, n)
  BY <1>1, <1>5, <1>6, FlattenIs
<1>8. Joined(parts, n) \in Seq(Symbols) /\ Len(Joined(parts, n)) = 3 * n
  <2>1. n \in 0..n
    BY <1>1
  <2> QED
    BY <1>1, <1>5, <1>6, <2>1, JoinedTyped
<1>9. ASSUME NEW i \in 1..n
      PROVE  /\ Joined(parts, n)[3 * i - 2] = m.headers[i]
             /\ Joined(parts, n)[3 * i - 1] = "CR"
             /\ Joined(parts, n)[3 * i] = "LF"
  <2> DEFINE j == i - 1
  <2>1. j \in Nat /\ j + 1 = i /\ 3 * i - 2 = 3 * j + 1 /\ 3 * i - 1 = 3 * j + 2 /\ 3 * i = 3 * j + 3
    BY <1>1
  <2>2. 3 * j + 1 \in 1..(3 * n) /\ 3 * j + 2 \in 1..(3 * n) /\ 3 * j + 3 \in 1..(3 * n)
    BY <1>1
  <2> HIDE DEF j
  <2>3. /\ (3 * j) \div 3 = j /\ (3 * j) % 3 = 0
        /\ (3 * j + 1) \div 3 = j /\ (3 * j + 1) % 3 = 1
        /\ (3 * j + 2) \div 3 = j /\ (3 * j + 2) % 3 = 2
    BY <2>1
  <2>4. \A k \in 1..(3 * n) : \A p \in Int : k = p + 1 =>
          Joined(parts, n)[k] = parts[p \div 3 + 1][(p % 3) + 1]
    <3>1. \A k \in 1..(3 * n) : Joined(parts, n)[k] = parts[(k - 1) \div 3 + 1][((k - 1) % 3) + 1]
      BY DEF Joined
    <3>2. \A k \in 1..(3 * n) : \A p \in Int : k = p + 1 => k - 1 = p
      BY <1>1
    <3> QED
      BY <3>1, <3>2
  <2>5. /\ 3 * j \in Int /\ 3 * j + 1 \in Int /\ 3 * j + 2 \in Int
        /\ 3 * j + 2 = (3 * j + 1) + 1 /\ 3 * j + 3 = (3 * j + 2) + 1
    BY <2>1
  <2>6. /\ Joined(parts, n)[3 * j + 1] = parts[i][1]
        /\ Joined(parts, n)[3 * j + 2] = parts[i][2]
        /\ Joined(parts, n)[3 * j + 3] = parts[i][3]
    <3>1. Joined(parts, n)[3 * j + 1] = parts[(3 * j) \div 3 + 1][((3 * j) % 3) + 1]
      BY <2>2, <2>4, <2>5
    <3>2. Joined(parts, n)[3 * j + 2] = parts[(3 * j + 1) \div 3 + 1][((3 * j + 1) % 3) + 1]
      BY <2>2, <2>4, <2>5
    <3>3. Joined(parts, n)[3 * j + 3] = parts[(3 * j + 2) \div 3 + 1][((3 * j + 2) % 3) + 1]
      BY <2>2, <2>4, <2>5
    <3> QED
      BY <2>1, <2>3, <3>1, <3>2, <3>3
  <2> QED
    BY <1>4, <2>1, <2>6
<1> QED
  BY <1>7, <1>8, <1>9 DEF Middle, parts, n

LEMMA HeadBytes ==
  ASSUME NEW m \in Messages
  PROVE  /\ HeadOf(m) \in Seq(Symbols) /\ Len(HeadOf(m)) = HeadLen(m)
         /\ \A i \in 0..Len(m.headers) : /\ HeadOf(m)[3 * i + 1] = TextOf(m, i)
                                         /\ HeadOf(m)[3 * i + 2] = "CR"
                                         /\ HeadOf(m)[3 * i + 3] = "LF"
         /\ HeadOf(m)[HeadLen(m) - 1] = "CR" /\ HeadOf(m)[HeadLen(m)] = "LF"
<1> DEFINE n == Len(m.headers)
           a == Line(m.first)
           b == Middle(m)
           c == Line("")
           ab == a \o b
<1>1. n \in Nat /\ m.first \in Symbols
  BY MessageTyped DEF Symbols
<1>2. a = <<m.first, "CR", "LF">> /\ c = <<"CR", "LF">>
  BY <1>1, LineIs
<1>3. HeadOf(m) = ab \o c
  BY MiddleIs DEF HeadOf, Parts
<1>4. /\ b \in Seq(Symbols) /\ Len(b) = 3 * n
      /\ \A i \in 1..n : b[3 * i - 2] = m.headers[i] /\ b[3 * i - 1] = "CR" /\ b[3 * i] = "LF"
  BY MiddleIs
<1> HIDE DEF n, a, b, c
<1>5. /\ a \in Seq(Symbols) /\ Len(a) = 3 /\ a[1] = m.first /\ a[2] = "CR" /\ a[3] = "LF"
      /\ c \in Seq(Symbols) /\ Len(c) = 2 /\ c[1] = "CR" /\ c[2] = "LF"
  BY <1>1, <1>2 DEF Symbols
<1>6. /\ ab \in Seq(Symbols) /\ Len(ab) = 3 + 3 * n
      /\ \A k \in 1..(3 + 3 * n) : ab[k] = IF k <= 3 THEN a[k] ELSE b[k - 3]
  <2>1. /\ ab \in Seq(Symbols) /\ Len(ab) = Len(a) + Len(b)
        /\ \A k \in 1..(Len(a) + Len(b)) : ab[k] = IF k <= Len(a) THEN a[k] ELSE b[k - Len(a)]
    <3>1. a \in Seq(Symbols) /\ b \in Seq(Symbols)
      BY <1>4, <1>5
    <3> QED
      BY <3>1, ConcatProperties
  <2>2. Len(a) = 3 /\ Len(b) = 3 * n
    BY <1>4, <1>5
  <2> QED
    BY <1>1, <2>1, <2>2
<1> HIDE DEF ab
<1>7. /\ ab \o c \in Seq(Symbols) /\ Len(ab \o c) = 3 * n + 5
      /\ \A k \in 1..(3 * n + 5) : (ab \o c)[k] = IF k <= 3 + 3 * n THEN ab[k] ELSE c[k - (3 + 3 * n)]
  <2>1. /\ ab \o c \in Seq(Symbols) /\ Len(ab \o c) = Len(ab) + Len(c)
        /\ \A k \in 1..(Len(ab) + Len(c)) : (ab \o c)[k] = IF k <= Len(ab) THEN ab[k] ELSE c[k - Len(ab)]
    BY <1>5, <1>6, ConcatProperties
  <2> QED
    BY <1>1, <1>5, <1>6, <2>1
<1>8. ASSUME NEW i \in 0..n
      PROVE  /\ (ab \o c)[3 * i + 1] = TextOf(m, i)
             /\ (ab \o c)[3 * i + 2] = "CR"
             /\ (ab \o c)[3 * i + 3] = "LF"
  <2>1. /\ (ab \o c)[3 * i + 1] = ab[3 * i + 1]
        /\ (ab \o c)[3 * i + 2] = ab[3 * i + 2]
        /\ (ab \o c)[3 * i + 3] = ab[3 * i + 3]
    <3>1. \A k \in 1..(3 * n + 3) : (ab \o c)[k] = ab[k]
      <4>1. \A k \in 1..(3 * n + 3) : k \in 1..(3 * n + 5) /\ k <= 3 + 3 * n
        BY <1>1
      <4> QED
        BY <1>7, <4>1
    <3>2. /\ 3 * i + 1 \in 1..(3 * n + 3) /\ 3 * i + 2 \in 1..(3 * n + 3)
          /\ 3 * i + 3 \in 1..(3 * n + 3)
      BY <1>1
    <3> QED
      BY <3>1, <3>2
  <2>2. CASE i = 0
    <3>1. ab[1] = a[1] /\ ab[2] = a[2] /\ ab[3] = a[3]
      BY <1>1, <1>6
    <3> QED
      BY <1>5, <2>1, <2>2, <3>1 DEF TextOf
  <2>3. CASE i # 0
    <3>1. i \in 1..n
      BY <1>1, <2>3
    <3> DEFINE p == 3 * i + 1
               q == 3 * i + 2
               r == 3 * i + 3
    <3>2. /\ p \in 1..(3 + 3 * n) /\ ~(p <= 3) /\ p - 3 = 3 * i - 2
          /\ q \in 1..(3 + 3 * n) /\ ~(q <= 3) /\ q - 3 = 3 * i - 1
          /\ r \in 1..(3 + 3 * n) /\ ~(r <= 3) /\ r - 3 = 3 * i
      BY <1>1, <3>1
    <3> HIDE DEF p, q, r
    <3>3. ab[p] = b[3 * i - 2] /\ ab[q] = b[3 * i - 1] /\ ab[r] = b[3 * i]
      <4>1. ab[p] = b[p - 3] /\ ab[q] = b[q - 3] /\ ab[r] = b[r - 3]
        BY <1>6, <3>2
      <4> QED
        BY <3>2, <4>1
    <3> USE DEF p, q, r
    <3> QED
      BY <1>4, <2>1, <2>3, <3>1, <3>2, <3>3 DEF TextOf
  <2> QED
    BY <2>2, <2>3
<1>9. (ab \o c)[3 * n + 4] = "CR" /\ (ab \o c)[3 * n + 5] = "LF"
  <2> DEFINE p == 3 * n + 4
             q == 3 * n + 5
  <2>1. /\ p \in 1..(3 * n + 5) /\ ~(p <= 3 + 3 * n) /\ p - (3 + 3 * n) = 1
        /\ q \in 1..(3 * n + 5) /\ ~(q <= 3 + 3 * n) /\ q - (3 + 3 * n) = 2
    BY <1>1
  <2> HIDE DEF p, q
  <2>2. (ab \o c)[p] = c[1] /\ (ab \o c)[q] = c[2]
    BY <1>7, <2>1
  <2> QED
    BY <1>5, <2>2 DEF p, q
<1>10. HeadLen(m) = 3 * n + 5 /\ HeadLen(m) - 1 = 3 * n + 4
  BY <1>1 DEF HeadLen, n
<1>11. \A i \in 0..n : /\ HeadOf(m)[3 * i + 1] = TextOf(m, i)
                       /\ HeadOf(m)[3 * i + 2] = "CR"
                       /\ HeadOf(m)[3 * i + 3] = "LF"
  BY <1>3, <1>8
<1>12. HeadOf(m)[3 * n + 4] = "CR" /\ HeadOf(m)[3 * n + 5] = "LF"
  BY <1>3, <1>9
<1> QED
  BY <1>3, <1>7, <1>10, <1>11, <1>12 DEF n

LEMMA MessageBytes ==
  ASSUME NEW m \in Messages
  PROVE  /\ Bytes(m) \in Seq(Symbols)
         /\ HeadLen(m) \in Nat /\ HeadLen(m) >= 5 /\ Len(HeadOf(m)) = HeadLen(m)
         /\ Len(Bytes(m)) = HeadLen(m) + Len(m.body)
         /\ \A i \in 0..Len(m.headers) : /\ Bytes(m)[3 * i + 1] = TextOf(m, i)
                                         /\ Bytes(m)[3 * i + 2] = "CR"
                                         /\ Bytes(m)[3 * i + 3] = "LF"
         /\ Bytes(m)[HeadLen(m) - 1] = "CR" /\ Bytes(m)[HeadLen(m)] = "LF"
         /\ \A k \in 1..Len(m.body) : Bytes(m)[HeadLen(m) + k] = m.body[k]
<1> DEFINE h == HeadOf(m)
           b == m.body
<1>1. Len(m.headers) \in Nat /\ b \in Seq(Symbols) /\ Len(b) \in Nat
  BY MessageTyped
<1>2. HeadLen(m) \in Nat /\ HeadLen(m) >= 5 /\ HeadLen(m) = 3 * Len(m.headers) + 5
  BY <1>1 DEF HeadLen
<1>3. h \in Seq(Symbols) /\ Len(h) = HeadLen(m)
  BY HeadBytes
<1>4. Bytes(m) = h \o b
  BY DEF Bytes
<1> HIDE DEF h, b
<1>5. /\ Bytes(m) \in Seq(Symbols) /\ Len(Bytes(m)) = HeadLen(m) + Len(b)
      /\ \A k \in 1..(HeadLen(m) + Len(b)) :
           Bytes(m)[k] = IF k <= HeadLen(m) THEN h[k] ELSE b[k - HeadLen(m)]
  <2>1. /\ h \o b \in Seq(Symbols) /\ Len(h \o b) = Len(h) + Len(b)
        /\ \A k \in 1..(Len(h) + Len(b)) : (h \o b)[k] = IF k <= Len(h) THEN h[k] ELSE b[k - Len(h)]
    BY <1>1, <1>3, ConcatProperties
  <2> QED
    BY <1>3, <1>4, <2>1
<1>6. \A k \in 1..HeadLen(m) : Bytes(m)[k] = h[k]
  BY <1>1, <1>2, <1>5
<1>7. \A k \in 1..Len(b) : Bytes(m)[HeadLen(m) + k] = b[k]
  <2> SUFFICES ASSUME NEW k \in 1..Len(b) PROVE Bytes(m)[HeadLen(m) + k] = b[k]
    OBVIOUS
  <2> DEFINE p == HeadLen(m) + k
  <2>1. p \in 1..(HeadLen(m) + Len(b)) /\ ~(p <= HeadLen(m)) /\ p - HeadLen(m) = k
    BY <1>1, <1>2
  <2> HIDE DEF p
  <2>2. Bytes(m)[p] = b[k]
    BY <1>5, <2>1
  <2> QED
    BY <2>2 DEF p
<1>8. \A i \in 0..Len(m.headers) : /\ 3 * i + 1 \in 1..HeadLen(m)
                                   /\ 3 * i + 2 \in 1..HeadLen(m)
                                   /\ 3 * i + 3 \in 1..HeadLen(m)
  BY <1>1, <1>2
<1>9. HeadLen(m) - 1 \in 1..HeadLen(m) /\ HeadLen(m) \in 1..HeadLen(m)
  BY <1>2
<1> HIDE DEF HeadLen
<1>10. \A i \in 0..Len(m.headers) : /\ Bytes(m)[3 * i + 1] = TextOf(m, i)
                                    /\ Bytes(m)[3 * i + 2] = "CR"
                                    /\ Bytes(m)[3 * i + 3] = "LF"
  BY <1>6, <1>8, HeadBytes DEF h
<1>11. Bytes(m)[HeadLen(m) - 1] = "CR" /\ Bytes(m)[HeadLen(m)] = "LF"
  BY <1>6, <1>9, HeadBytes DEF h
<1> QED
  BY <1>2, <1>3, <1>5, <1>7, <1>10, <1>11 DEF h, b

-----------------------------------------------------------------------------
(* What a read finds.  Line i has been fetched up to its CR, its LF and,   *)
(* if there is one, its text: EndOf(i) bytes are the lines 0 to i.         *)
LastLine == Len(msg.headers) + 1
EndOf(i) == IF i = LastLine THEN HeadLen(msg) ELSE 3 * i + 3
Ordinary(i) == i < LastLine => TextOf(msg, i) \notin {"CR", "LF"}
Parsed == msg.first \in {"get", "post"}

(* What is in the buffer came first, and what parse_line has not yet       *)
(* looked at is there as it came.                                          *)
Arrived == /\ msg \in Messages
           /\ left \in Seq(Symbols) /\ buf \in Seq(Symbols)
           /\ Len(buf) + Len(left) = Len(Bytes(msg))
           /\ \A k \in 1..Len(left) : left[k] = Bytes(msg)[Len(buf) + k]
           /\ Len(buf) <= BufferSize

Untouched == \A k \in 1..Len(buf) : k > checked => buf[k] = Bytes(msg)[k]

WholeBody == ~bodyCut => \/ Len(buf) <= HeadLen(msg)
                         \/ Len(buf) >= HeadLen(msg) + BodyLength

(* Line i is the one that begins at m_start_line, and the lines before it  *)
(* are taken in.                                                           *)
AtLine(i) == /\ startLine = 3 * i
             /\ checkState = IF i = 0 THEN "requestline" ELSE "header"
             /\ i > 0 => Parsed /\ buf[3 * i] = "NUL"
             /\ \A k \in 1..(i - 1) : msg.headers[k] \notin {"CR", "LF"}
             /\ contentLength = IF \E k \in 1..(i - 1) : msg.headers[k] = "len"
                                  THEN BodyLength ELSE 0
             /\ linger <=> \E k \in 1..(i - 1) : msg.headers[k] = "keep"

(* Its text may have been looked at already, and nothing else of it.       *)
Before(i) == \/ checked = 3 * i
             \/ /\ checked = 3 * i + 1 /\ i < LastLine /\ Ordinary(i)
                /\ checked <= Len(buf) /\ buf[checked] = TextOf(msg, i)

Fetched(i) == /\ Ordinary(i) /\ lineStatus = "ok"
              /\ checked = EndOf(i) /\ checked <= Len(buf) /\ buf[checked] = "NUL"
              /\ buf[3 * i + 1] = IF i = LastLine THEN "NUL" ELSE TextOf(msg, i)

HeadInv(i) == /\ AtLine(i)
              /\ pc \in {"read", "parse"} => Before(i) /\ 3 * i <= Len(buf)
              /\ pc = "read" => \/ Len(buf) = 0
                                \/ ret = "NO_REQUEST" /\ (Ordinary(i) => Len(buf) < EndOf(i))
              /\ pc = "text" => Fetched(i)

BodyInv == /\ contentLength = BodyLength /\ Declared(msg) = BodyLength
           /\ WellFormed(msg) /\ Parsed
           /\ linger <=> "keep" \in Range(msg.headers)
           /\ HeadLen(msg) <= startLine /\ startLine <= checked /\ checked <= Len(buf)
           /\ ~bodyCut => startLine = HeadLen(msg) /\ checked = HeadLen(msg)
           /\ pc = "read" => ret = "NO_REQUEST"
           /\ pc = "read" \/ (pc = "parse" /\ lineStatus # "ok") =>
                (~bodyCut => Len(buf) = HeadLen(msg))

(* What is handed to do_request.                                           *)
QueryInv == /\ query = HeadLen(msg) /\ HeadLen(msg) + BodyLength <= Len(buf)
            /\ BodyLength <= Len(msg.body)
            /\ \A k \in 1..BodyLength : buf[HeadLen(msg) + k] = msg.body[k]
            /\ Len(buf) > HeadLen(msg) + BodyLength =>
                 buf[HeadLen(msg) + BodyLength + 1] = "NUL"

AnswerInv == /\ ret = Meaning(msg) /\ ret # "NO_REQUEST"
             /\ ret = "GET_REQUEST" =>
                  /\ linger <=> "keep" \in Range(msg.headers)
                  /\ Declared(msg) > 0 /\ ~bodyCut => QueryInv

Reading == {"read", "parse", "text"}

(* ReadInv: CutsDoNotMatter speaks of the moments when all has come; this  *)
(* says of every moment what the object must remember of what came before. *)
(* The line being read, its number i, is what the state does not hold.     *)
ReadInv == /\ Arrived
           /\ startLine \in Nat /\ checked \in Nat
           /\ ret = "GET_REQUEST" => /\ pc \in {"answer", "reply", "done"}
                                     /\ Len(left) + Declared(msg) <= Len(msg.body)
           /\ pc \in Reading => /\ Untouched /\ WholeBody
                             /\ IF checkState = "content" THEN BodyInv
                                ELSE \E i \in 0..LastLine : HeadInv(i)
           /\ pc = "answer" => AnswerInv

-----------------------------------------------------------------------------
(* parse_line, from what lies before it.                                   *)
LEMMA StopIs ==
  ASSUME buf \in Seq(Symbols), checked \in Nat, NEW p \in checked..(Len(buf) - 1),
         At(p) \in {"CR", "LF"}, \A k \in checked..(p - 1) : At(k) \notin {"CR", "LF"}
  PROVE  Stops # {} /\ Stop = p
<1>1. p \in Int /\ p \in Stops /\ Stops \subseteq checked..(Len(buf) - 1)
  BY DEF Stops
<1>2. \A k \in Stops : p <= k
  <2> SUFFICES ASSUME NEW k \in Stops, ~(p <= k) PROVE FALSE
    OBVIOUS
  <2>1. k \in checked..(p - 1)
    BY <1>1
  <2> QED
    BY <2>1 DEF Stops
<1>3. \A q \in Stops : (\A k \in Stops : q <= k) => q = p
  BY <1>1, <1>2
<1> HIDE DEF Stops
<1> QED
  BY <1>1, <1>2, <1>3 DEF Stop

LEMMA NoStop ==
  ASSUME \A k \in checked..(Len(buf) - 1) : At(k) \notin {"CR", "LF"}
  PROVE  Stops = {}
BY DEF Stops

LEMMA LineStep ==
  ASSUME buf \in Seq(Symbols), checked \in 0..Len(buf), ParseLine
  PROVE  /\ buf' \in Seq(Symbols) /\ Len(buf') = Len(buf)
         /\ checked' \in checked..Len(buf)
         /\ \A k \in 1..Len(buf) : k > checked' => buf'[k] = buf[k]
         /\ lineStatus' \in {"ok", "open", "bad"}
         /\ lineStatus' # "ok" => buf' = buf
<1> DEFINE Result == /\ buf' \in Seq(Symbols) /\ Len(buf') = Len(buf)
                     /\ checked' \in checked..Len(buf)
                     /\ \A k \in 1..Len(buf) : k > checked' => buf'[k] = buf[k]
                     /\ lineStatus' \in {"ok", "open", "bad"}
                     /\ lineStatus' # "ok" => buf' = buf
<1>1. Len(buf) \in Nat
  OBVIOUS
<1>2. Stops # {} => Stop \in checked..(Len(buf) - 1)
  <2>1. Stops \subseteq checked..(Len(buf) - 1) /\ Stops \subseteq Nat
    BY DEF Stops
  <2>2. ASSUME Stops # {} PROVE \E p \in Stops : \A k \in Stops : p <= k
    BY <2>1, <2>2, LeastElement
  <2>3. ASSUME Stops # {} PROVE Stop \in Stops
    <3> HIDE DEF Stops
    <3> QED
      BY <2>2, <2>3 DEF Stop
  <2> QED
    BY <2>1, <2>3
<1> HIDE DEF Stops, Stop
<1>3. ASSUME NEW q \in checked..Len(buf), checked' = q, UNCHANGED buf,
             lineStatus' \in {"open", "bad"}
      PROVE  Result
  BY <1>3
<1>4. ASSUME NEW p \in 0..(Len(buf) - 2), Ends(p, p + 1), p + 1 >= checked
      PROVE  Result
  <2>1. buf' = [buf EXCEPT ![p + 1] = "NUL", ![p + 2] = "NUL"] /\ checked' = p + 2 /\ lineStatus' = "ok"
    <3>1. p + 1 + 1 = p + 2
      BY <1>1
    <3> QED
      BY <1>4, <3>1 DEF Ends
  <2>2. buf \in [1..Len(buf) -> Symbols] /\ "NUL" \in Symbols
    BY DEF Symbols
  <2>3. buf' \in [1..Len(buf) -> Symbols]
    BY <2>1, <2>2
  <2>4. buf' \in Seq(Symbols) /\ Len(buf') = Len(buf)
    BY <1>1, <2>3
  <2>5. \A k \in 1..Len(buf) : k > checked' => buf'[k] = buf[k]
    BY <1>1, <2>1, <2>2
  <2> QED
    BY <1>1, <1>4, <2>1, <2>4, <2>5
<1>5. CASE Stops = {}
  <2>1. checked' = (IF checked < Len(buf) THEN Len(buf) ELSE checked) /\ lineStatus' = "open" /\ UNCHANGED buf
    BY <1>5 DEF ParseLine
  <2>2. checked' \in checked..Len(buf)
    BY <1>1, <2>1
  <2> QED
    BY <1>3, <2>1, <2>2
<1>6. CASE Stops # {}
  <2>1. CASE checked' = Stop /\ UNCHANGED buf /\ lineStatus' \in {"open", "bad"}
    BY <1>1, <1>2, <1>3, <1>6, <2>1
  <2>2. CASE Ends(Stop, Stop + 1) /\ Stop + 1 < Len(buf)
    <3>1. Stop \in 0..(Len(buf) - 2) /\ Stop + 1 >= checked
      BY <1>1, <1>2, <1>6, <2>2
    <3> QED
      BY <1>4, <2>2, <3>1
  <2>3. CASE Ends(Stop - 1, Stop) /\ Stop > 1
    <3>1. Stop - 1 \in 0..(Len(buf) - 2) /\ (Stop - 1) + 1 = Stop /\ Stop >= checked
      BY <1>1, <1>2, <1>6, <2>3
    <3> QED
      BY <1>4, <2>3, <3>1
  <2> QED
    BY <1>6, <2>1, <2>2, <2>3 DEF ParseLine
<1> QED
  BY <1>5, <1>6

(* What parse_line makes of line i: it waits for more of it, or for ever   *)
(* where the line is a broken one, or it fetches it.                       *)
LineWaits(i) ==
  /\ lineStatus' # "ok" /\ buf' = buf
  /\ \/ checked' = 3 * i
     \/ /\ checked' = 3 * i + 1 /\ i < LastLine /\ Ordinary(i)
        /\ checked' <= Len(buf) /\ buf[checked'] = TextOf(msg, i)
  /\ Ordinary(i) => Len(buf) < EndOf(i)

LineFetched(i) ==
  /\ lineStatus' = "ok" /\ Ordinary(i)
  /\ checked' = EndOf(i) /\ EndOf(i) <= Len(buf)
  /\ buf' = [buf EXCEPT ![EndOf(i) - 1] = "NUL", ![EndOf(i)] = "NUL"]

LEMMA LineOutcome ==
  ASSUME Arrived, Untouched, NEW i \in 0..LastLine, i > 0 => buf[3 * i] = "NUL",
         Before(i), 3 * i <= Len(buf), ParseLine
  PROVE  LineWaits(i) \/ LineFetched(i)
<1> DEFINE s == 3 * i
           n == Len(msg.headers)
           L == Len(buf)
           M == Bytes(msg)
<1>1. /\ msg \in Messages /\ buf \in Seq(Symbols) /\ L \in Nat /\ n \in Nat /\ i \in Nat
      /\ s \in Nat /\ s <= L /\ LastLine = n + 1
  BY MessageTyped DEF Arrived, LastLine
<1>2. /\ i < LastLine => /\ M[s + 1] = TextOf(msg, i) /\ M[s + 2] = "CR" /\ M[s + 3] = "LF"
                         /\ EndOf(i) = s + 3
      /\ i = LastLine => /\ M[s + 1] = "CR" /\ M[s + 2] = "LF" /\ EndOf(i) = s + 2
  <2>1. CASE i < LastLine
    <3>1. i \in 0..n
      BY <1>1, <2>1
    <3> QED
      BY <1>1, <2>1, <3>1, MessageBytes DEF EndOf
  <2>2. CASE i = LastLine
    <3>1. HeadLen(msg) - 1 = s + 1 /\ HeadLen(msg) = s + 2
      BY <1>1, <2>2 DEF HeadLen
    <3>2. M[HeadLen(msg) - 1] = "CR" /\ M[HeadLen(msg)] = "LF"
      BY <1>1, MessageBytes
    <3> QED
      BY <1>1, <2>2, <3>1, <3>2 DEF EndOf
  <2> QED
    BY <1>1, <2>1, <2>2
<1>3. \/ checked = s
      \/ /\ checked = s + 1 /\ i < LastLine /\ Ordinary(i)
         /\ checked <= L /\ buf[checked] = TextOf(msg, i)
  BY DEF Before
<1>4. i = 0 => Ordinary(i)
  <2>1. i = 0 => i \in 0..n
    BY <1>1
  <2> QED
    BY <1>1, <2>1, TextTyped DEF Ordinary
<1>5. \A k \in checked..(L - 1) : At(k) = M[k + 1]
  BY <1>1, <1>3 DEF At, Untouched
<1>6. i > 0 => At(s - 1) = "NUL"
  <2>1. s - 1 + 1 = s
    BY <1>1
  <2> QED
    BY <2>1 DEF At
<1>7. i < LastLine /\ Ordinary(i) => TextOf(msg, i) \notin {"CR", "LF"}
  BY DEF Ordinary
<1>8. i = LastLine => Ordinary(i)
  BY <1>1 DEF Ordinary
<1>9. i < LastLine /\ ~Ordinary(i) => TextOf(msg, i) \in {"CR", "LF"}
  BY DEF Ordinary
<1>10. checked \in Nat
  BY <1>1, <1>3
<1> DEFINE Waits(c) == /\ lineStatus' # "ok" /\ buf' = buf
                       /\ checked' = c
<1>11. ASSUME Stops = {} PROVE Waits(IF checked < L THEN L ELSE checked)
  BY <1>11 DEF ParseLine
<1>12. ASSUME NEW p, Stops # {}, Stop = p, At(p) = "CR", p + 1 = L PROVE Waits(p)
  BY <1>12 DEF ParseLine
<1>13. ASSUME NEW p \in Nat, Stops # {}, Stop = p, At(p) = "CR", p + 1 < L, At(p + 1) = "LF"
       PROVE  /\ lineStatus' = "ok" /\ checked' = p + 2
              /\ buf' = [buf EXCEPT ![p + 1] = "NUL", ![p + 2] = "NUL"]
  <2>1. Ends(p, p + 1)
    BY <1>1, <1>13 DEF ParseLine
  <2>2. p + 1 + 1 = p + 2
    BY <1>13
  <2> QED
    BY <2>1, <2>2 DEF Ends
<1>14. ASSUME NEW p \in Nat, Stops # {}, Stop = p, At(p) = "CR", p + 1 < L, At(p + 1) # "LF"
       PROVE  Waits(p)
  BY <1>1, <1>14 DEF ParseLine
<1>15. ASSUME NEW p \in Nat, Stops # {}, Stop = p, At(p) = "LF", At(p - 1) # "CR"
       PROVE  Waits(p)
  BY <1>15 DEF ParseLine
<1>16. ASSUME NEW c, Waits(c), c \in {s, s + 1},
              c = s + 1 => i < LastLine /\ Ordinary(i) /\ c <= L /\ buf[c] = TextOf(msg, i),
              Ordinary(i) => L < EndOf(i)
       PROVE  LineWaits(i)
  BY <1>16 DEF LineWaits
<1>17. ASSUME NEW p \in Nat, p + 2 = EndOf(i), p + 2 <= L, Ordinary(i),
              lineStatus' = "ok", checked' = p + 2,
              buf' = [buf EXCEPT ![p + 1] = "NUL", ![p + 2] = "NUL"]
       PROVE  LineFetched(i)
  <2>1. EndOf(i) - 1 = p + 1
    BY <1>17
  <2> QED
    BY <1>17, <2>1 DEF LineFetched
<1> HIDE DEF Waits, L, M, n, s
<1>18. CASE i < LastLine /\ Ordinary(i)
  <2>1. CASE L <= s + 1
    <3>1. \A k \in checked..(L - 1) : k = s
      BY <1>1, <1>3, <2>1
    <3>2. \A k \in checked..(L - 1) : At(k) \notin {"CR", "LF"}
      BY <1>2, <1>5, <1>7, <1>18, <3>1
    <3>3. Stops = {}
      BY <3>2, NoStop DEF L
    <3>4. CASE checked < L
      <4>1. checked = s /\ L = s + 1 /\ s \in checked..(L - 1)
        BY <1>1, <1>3, <2>1, <3>4
      <4>2. buf[L] = TextOf(msg, i)
        BY <1>1, <1>2, <1>5, <1>18, <4>1 DEF At
      <4>3. Waits(L)
        BY <1>11, <3>3, <3>4
      <4>4. L < EndOf(i)
        BY <1>1, <1>2, <1>18, <4>1
      <4> QED
        BY <1>1, <1>16, <1>18, <4>1, <4>2, <4>3, <4>4
    <3>5. CASE ~(checked < L)
      <4>1. Waits(checked)
        BY <1>11, <3>3, <3>5
      <4>2. L < EndOf(i)
        BY <1>1, <1>2, <1>18, <2>1
      <4>3. CASE checked = s
        <5>1. s # s + 1
          BY <1>1
        <5> QED
          BY <1>16, <4>1, <4>2, <4>3, <5>1
      <4>4. CASE checked = s + 1
        BY <1>1, <1>3, <1>16, <4>1, <4>2, <4>4
      <4> QED
        BY <1>3, <4>3, <4>4
    <3> QED
      BY <3>4, <3>5
  <2>2. CASE L >= s + 2
    <3> DEFINE p == s + 1
    <3>1. p \in Nat /\ p \in checked..(L - 1) /\ p + 1 = s + 2 /\ p + 2 = s + 3
      BY <1>1, <1>3, <2>2
    <3>2. \A k \in checked..(p - 1) : k = s /\ k \in checked..(L - 1)
      BY <1>1, <1>3, <2>2
    <3>3. \A k \in checked..(p - 1) : At(k) \notin {"CR", "LF"}
      BY <1>2, <1>5, <1>7, <1>18, <3>2
    <3>4. At(p) = "CR"
      BY <1>2, <1>5, <1>18, <3>1
    <3>5. Stops # {} /\ Stop = p
      <4> HIDE DEF p
      <4> QED
        BY <1>1, <1>10, <3>1, <3>3, <3>4, StopIs DEF L
    <3> HIDE DEF p
    <3>6. CASE p + 1 = L
      <4>1. Waits(p)
        BY <1>12, <3>4, <3>5, <3>6
      <4>2. L < EndOf(i)
        BY <1>1, <1>2, <1>18, <3>1, <3>6
      <4>3. buf[p] = TextOf(msg, i)
        <5>1. CASE checked = s
          <6>1. s \in checked..(L - 1)
            BY <1>1, <2>2, <5>1
          <6> QED
            BY <1>2, <1>5, <1>18, <6>1 DEF At, p
        <5>2. CASE checked # s
          BY <1>3, <5>2 DEF p
        <5> QED
          BY <5>1, <5>2
      <4>4. p \in {s, s + 1} /\ p <= L
        BY <1>1, <3>1, <3>6 DEF p
      <4> QED
        BY <1>16, <1>18, <4>1, <4>2, <4>3, <4>4
    <3>7. CASE p + 1 # L
      <4>1. p + 1 < L /\ p + 1 \in checked..(L - 1) /\ p + 1 + 1 = s + 3
        BY <1>1, <1>10, <3>1, <3>7
      <4>2. At(p + 1) = "LF"
        BY <1>2, <1>5, <1>18, <4>1
      <4>3. /\ lineStatus' = "ok" /\ checked' = p + 2
            /\ buf' = [buf EXCEPT ![p + 1] = "NUL", ![p + 2] = "NUL"]
        BY <1>13, <3>1, <3>4, <3>5, <4>1, <4>2
      <4>4. p + 2 = EndOf(i) /\ p + 2 <= L
        BY <1>1, <1>2, <1>18, <3>1, <4>1
      <4> QED
        BY <1>17, <1>18, <3>1, <4>3, <4>4
    <3> QED
      BY <3>6, <3>7
  <2> QED
    BY <1>1, <2>1, <2>2
<1>19. CASE i < LastLine /\ ~Ordinary(i)
  <2>1. checked = s
    BY <1>3, <1>19
  <2>2. CASE L = s
    <3>1. Stops = {}
      <4>1. \A k \in checked..(L - 1) : FALSE
        BY <1>1, <2>1, <2>2
      <4> QED
        BY <4>1, NoStop DEF L
    <3>2. Waits(checked)
      BY <1>1, <1>11, <2>1, <2>2, <3>1
    <3> QED
      BY <1>1, <1>16, <1>19, <2>1, <3>2
  <2>3. CASE L > s
    <3>1. s \in checked..(L - 1) /\ \A k \in checked..(s - 1) : FALSE
      BY <1>1, <2>1, <2>3
    <3>2. At(s) = TextOf(msg, i)
      BY <1>2, <1>5, <1>19, <3>1
    <3>3. Stops # {} /\ Stop = s
      BY <1>1, <1>9, <1>10, <1>19, <3>1, <3>2, StopIs DEF L
    <3>4. Waits(s)
      <4>1. CASE At(s) = "LF"
        BY <1>1, <1>4, <1>6, <1>15, <1>19, <3>3, <4>1
      <4>2. CASE At(s) = "CR" /\ s + 1 = L
        BY <1>12, <3>3, <4>2
      <4>3. CASE At(s) = "CR" /\ s + 1 # L
        <5>1. s + 1 < L /\ s + 1 \in checked..(L - 1) /\ s + 1 + 1 = s + 2
          BY <1>1, <2>1, <2>3, <4>3
        <5>2. At(s + 1) # "LF"
          BY <1>2, <1>5, <1>19, <5>1
        <5> QED
          BY <1>1, <1>14, <3>3, <4>3, <5>1, <5>2
      <4> QED
        BY <1>9, <1>19, <3>2, <4>1, <4>2, <4>3
    <3> QED
      BY <1>1, <1>16, <1>19, <3>4
  <2> QED
    BY <1>1, <2>2, <2>3
<1>20. CASE i = LastLine
  <2>1. checked = s
    BY <1>1, <1>3, <1>20
  <2>2. CASE L = s
    <3>1. Stops = {}
      <4>1. \A k \in checked..(L - 1) : FALSE
        BY <1>1, <2>1, <2>2
      <4> QED
        BY <4>1, NoStop DEF L
    <3>2. Waits(checked) /\ L < EndOf(i)
      BY <1>1, <1>2, <1>11, <1>20, <2>1, <2>2, <3>1
    <3> QED
      BY <1>1, <1>16, <2>1, <3>2
  <2>3. CASE L > s
    <3>1. s \in checked..(L - 1) /\ \A k \in checked..(s - 1) : FALSE
      BY <1>1, <2>1, <2>3
    <3>2. At(s) = "CR"
      BY <1>2, <1>5, <1>20, <3>1
    <3>3. Stops # {} /\ Stop = s
      BY <1>1, <1>10, <3>1, <3>2, StopIs DEF L
    <3>4. CASE s + 1 = L
      <4>1. Waits(s) /\ L < EndOf(i)
        BY <1>1, <1>2, <1>12, <1>20, <3>2, <3>3, <3>4
      <4> QED
        BY <1>1, <1>16, <4>1
    <3>5. CASE s + 1 # L
      <4>1. s + 1 < L /\ s + 1 \in checked..(L - 1) /\ s + 1 + 1 = s + 2
        BY <1>1, <2>1, <2>3, <3>5
      <4>2. At(s + 1) = "LF"
        BY <1>2, <1>5, <1>20, <4>1
      <4>3. /\ lineStatus' = "ok" /\ checked' = s + 2
            /\ buf' = [buf EXCEPT ![s + 1] = "NUL", ![s + 2] = "NUL"]
        BY <1>1, <1>13, <3>2, <3>3, <4>1, <4>2
      <4>4. s + 2 = EndOf(i) /\ s + 2 <= L
        BY <1>1, <1>2, <1>20, <4>1
      <4> QED
        BY <1>1, <1>8, <1>17, <1>20, <4>3, <4>4
    <3> QED
      BY <3>4, <3>5
  <2> QED
    BY <1>1, <2>2, <2>3
<1> QED
  BY <1>1, <1>18, <1>19, <1>20

-----------------------------------------------------------------------------
(* The steps.                                                              *)
LEMMA ReadInit == ConnectionInit => ReadInv
<1> SUFFICES ASSUME ConnectionInit PROVE ReadInv
  OBVIOUS
<1>1. /\ msg \in Messages /\ left = Bytes(msg) /\ buf = << >>
      /\ startLine = 0 /\ checked = 0 /\ checkState = "requestline"
      /\ contentLength = 0 /\ linger = FALSE /\ pc = "read" /\ ret = "none"
  BY DEF ConnectionInit, Init
<1>2. buf \in Seq(Symbols) /\ Len(buf) = 0
  BY <1>1
<1>3. /\ Bytes(msg) \in Seq(Symbols) /\ Len(Bytes(msg)) \in Nat /\ HeadLen(msg) \in Nat
      /\ LastLine \in Nat
  BY <1>1, MessageBytes, MessageTyped DEF LastLine
<1>4. Arrived
  BY <1>1, <1>2, <1>3, HttpAssumption DEF Arrived
<1>5. Untouched /\ WholeBody
  BY <1>2, <1>3 DEF Untouched, WholeBody
<1>6. AtLine(0)
  BY <1>1 DEF AtLine
<1>7. HeadInv(0)
  BY <1>1, <1>2, <1>6 DEF HeadInv, Before
<1>8. 0 \in 0..LastLine
  BY <1>3
<1> QED
  BY <1>1, <1>4, <1>5, <1>7, <1>8 DEF ReadInv, Reading

LEMMA FreshStep ==
  ASSUME ReadInv, NextRequest
  PROVE  ReadInv'
<1>1. CASE served' < MaxServed
  <2>1. /\ msg' \in Messages /\ left' = Bytes(msg') /\ buf' = << >>
        /\ startLine' = 0 /\ checked' = 0 /\ checkState' = "requestline"
        /\ contentLength' = 0 /\ linger' = FALSE /\ pc' = "read" /\ ret' = "none"
    BY <1>1 DEF NextRequest, FreshParser
  <2>2. buf' \in Seq(Symbols) /\ Len(buf') = 0
    BY <2>1
  <2>3. /\ Bytes(msg') \in Seq(Symbols) /\ Len(Bytes(msg')) \in Nat /\ HeadLen(msg') \in Nat
        /\ LastLine' \in Nat
    BY <2>1, MessageBytes, MessageTyped DEF LastLine
  <2>4. Arrived'
    BY <2>1, <2>2, <2>3, HttpAssumption DEF Arrived
  <2>5. Untouched' /\ WholeBody'
    BY <2>2, <2>3 DEF Untouched, WholeBody
  <2>6. AtLine(0)'
    BY <2>1 DEF AtLine
  <2>7. HeadInv(0)'
    BY <2>1, <2>2, <2>6 DEF HeadInv, Before
  <2>8. 0 \in 0..LastLine'
    BY <2>3
  <2> QED
    BY <2>1, <2>4, <2>5, <2>7, <2>8 DEF ReadInv, Reading
<1>2. CASE ~(served' < MaxServed)
  <2>1. pc' = "done" /\ UNCHANGED <<msg, left, buf, ret, startLine, checked>>
    BY <1>2 DEF NextRequest, parserVars
  <2>2. Arrived'
    BY <2>1 DEF Arrived, ReadInv
  <2> QED
    BY <2>1, <2>2 DEF ReadInv, Reading
<1> QED
  BY <1>1, <1>2

(* The definitions about a message do not change while it is read.         *)
LEMMA SameMessage ==
  ASSUME UNCHANGED msg
  PROVE  /\ LastLine' = LastLine /\ Parsed' = Parsed
         /\ \A i : EndOf(i)' = EndOf(i) /\ Ordinary(i)' = Ordinary(i)
BY DEF LastLine, Parsed, EndOf, Ordinary

LEMMA Bounds == BodyLength \in Nat \ {0} /\ BufferSize \in Nat \ {0} /\ MaxServed \in Nat \ {0}
BY HttpAssumption

LEMMA ReadOnceStep ==
  ASSUME ReadInv, NEW n \in 1..BufferSize, ReadOnce(n)
  PROVE  ReadInv'
<1> DEFINE L == Len(buf)
           K == Len(left)
           M == Bytes(msg)
<1>1. /\ n \in Nat /\ n >= 1 /\ n <= K /\ L + n <= BufferSize /\ L \in Nat /\ K \in Nat
      /\ L + K = Len(M) /\ HeadLen(msg) \in Nat
  BY HttpAssumption, MessageBytes DEF ReadOnce, Room, ReadInv, Arrived
<1>2. /\ pc = "read" /\ pc' = "parse" /\ lineStatus' = "ok"
      /\ buf' = buf \o SubSeq(left, 1, n) /\ left' = SubSeq(left, n + 1, K)
      /\ msg' = msg /\ UNCHANGED parserVars /\ ret' = ret
      /\ bodyCut' = (bodyCut \/ InsideBody(n))
  BY DEF ReadOnce
<1>3. /\ buf \in Seq(Symbols) /\ left \in Seq(Symbols)
      /\ \A k \in 1..K : left[k] = M[L + k]
  BY DEF ReadInv, Arrived
<1>4. /\ SubSeq(left, 1, n) \in Seq(Symbols) /\ Len(SubSeq(left, 1, n)) = n
      /\ \A k \in 1..n : SubSeq(left, 1, n)[k] = left[k]
  BY <1>1, <1>3, SubSeqProperties
<1>5. /\ left' \in Seq(Symbols) /\ Len(left') = K - n
      /\ \A k \in 1..(K - n) : left'[k] = left[n + k]
  <2>1. /\ n + 1 \in 1..(K + 1) /\ K \in n..K
    BY <1>1
  <2>2. /\ left' \in Seq(Symbols) /\ Len(left') = IF n + 1 <= K THEN K - (n + 1) + 1 ELSE 0
        /\ \A k \in 1..(K - (n + 1) + 1) : left'[k] = left[n + 1 + k - 1]
    BY <1>1, <1>2, <1>3, SubSeqProperties
  <2>3. \A k \in 1..(K - n) : n + 1 + k - 1 = n + k
    BY <1>1
  <2>4. K - (n + 1) + 1 = K - n
    BY <1>1
  <2> QED
    <3>1. Len(left') = K - n
      BY <1>1, <2>2
    <3>2. \A k \in 1..(K - n) : left'[k] = left[n + k]
      BY <2>2, <2>3, <2>4
    <3> QED
      BY <2>2, <3>1, <3>2
<1> HIDE DEF M
<1>6. /\ buf' \in Seq(Symbols) /\ Len(buf') = L + n
      /\ \A k \in 1..(L + n) : buf'[k] = IF k <= L THEN buf[k] ELSE SubSeq(left, 1, n)[k - L]
  <2>1. /\ buf' \in Seq(Symbols) /\ Len(buf') = L + Len(SubSeq(left, 1, n))
        /\ \A k \in 1..(L + Len(SubSeq(left, 1, n))) :
             buf'[k] = IF k <= L THEN buf[k] ELSE SubSeq(left, 1, n)[k - L]
    BY <1>2, <1>3, <1>4, ConcatProperties
  <2> QED
    BY <1>4, <2>1
<1>7. \A k \in 1..L : buf'[k] = buf[k]
  BY <1>1, <1>6
<1>8. \A k \in (L + 1)..(L + n) : buf'[k] = M[k]
  <2> SUFFICES ASSUME NEW k \in (L + 1)..(L + n) PROVE buf'[k] = M[k]
    OBVIOUS
  <2> DEFINE j == k - L
  <2>1. j \in 1..n /\ j \in 1..K /\ L + j = k /\ k \in 1..(L + n) /\ ~(k <= L)
    BY <1>1
  <2> HIDE DEF j
  <2>2. buf'[k] = SubSeq(left, 1, n)[j]
    BY <1>6, <2>1 DEF j
  <2> QED
    BY <1>3, <1>4, <2>1, <2>2
<1>9. \A k \in 1..(K - n) : left'[k] = M[L + n + k]
  <2> SUFFICES ASSUME NEW k \in 1..(K - n) PROVE left'[k] = M[L + n + k]
    OBVIOUS
  <2> DEFINE j == n + k
  <2>1. j \in 1..K /\ L + j = L + n + k
    BY <1>1
  <2> HIDE DEF j
  <2>2. left'[k] = left[j]
    BY <1>5 DEF j
  <2> QED
    BY <1>3, <2>1, <2>2
<1>10. Arrived'
  <2>1. msg \in Messages
    BY DEF ReadInv, Arrived
  <2>2. (L + n) + (K - n) = Len(M)
    BY <1>1
  <2> QED
    BY <1>1, <1>2, <1>5, <1>6, <1>9, <2>1, <2>2 DEF Arrived, M
<1>11. Untouched'
  <2>1. Untouched /\ checked' = checked
    BY <1>2 DEF ReadInv, Reading, parserVars
  <2> SUFFICES ASSUME NEW k \in 1..(L + n), k > checked PROVE buf'[k] = M[k]
    BY <1>2, <1>6, <2>1 DEF Untouched, M
  <2>2. CASE k <= L
    BY <1>1, <1>7, <2>1, <2>2 DEF Untouched, M
  <2>3. CASE ~(k <= L)
    BY <1>1, <1>8, <2>3
  <2> QED
    BY <2>2, <2>3
<1>12. WholeBody'
  <2>1. Len(HeadOf(msg)) = HeadLen(msg)
    BY MessageBytes DEF ReadInv, Arrived
  <2>2. InsideBody(n) <=> (L + n > HeadLen(msg) /\ L + n < HeadLen(msg) + BodyLength)
    <3>1. Len(M) - K + n = L + n
      BY <1>1
    <3> QED
      BY <2>1, <3>1 DEF InsideBody, M
  <2>3. /\ Len(buf') = L + n /\ msg' = msg /\ BodyLength \in Nat
        /\ ~bodyCut' => ~(L + n > HeadLen(msg) /\ L + n < HeadLen(msg) + BodyLength)
    BY <1>2, <1>6, <2>2, Bounds
  <2>4. ~bodyCut' => L + n <= HeadLen(msg) \/ L + n >= HeadLen(msg) + BodyLength
    BY <1>1, <2>3
  <2> QED
    BY <2>3, <2>4 DEF WholeBody
<1>13. ASSUME checkState = "content", BodyInv PROVE BodyInv'
  <2>1. /\ startLine' = startLine /\ checked' = checked /\ contentLength' = contentLength
        /\ linger' = linger /\ (~bodyCut' => ~bodyCut)
    BY <1>2 DEF parserVars
  <2>2. /\ HeadLen(msg) <= startLine /\ startLine <= checked /\ checked <= Len(buf)
        /\ ~bodyCut => startLine = HeadLen(msg) /\ checked = HeadLen(msg)
    BY <1>13 DEF BodyInv
  <2>3. startLine \in Int /\ checked \in Int
    BY DEF ReadInv
  <2>4. checked <= Len(buf')
    BY <1>1, <1>6, <2>2, <2>3
  <2> QED
    BY <1>2, <1>13, <2>1, <2>2, <2>4 DEF BodyInv, Parsed
<1>14. ASSUME NEW i \in 0..LastLine, HeadInv(i) PROVE HeadInv(i)'
  <2>1. /\ AtLine(i) /\ Before(i) /\ 3 * i <= L
        /\ startLine' = startLine /\ checked' = checked /\ checkState' = checkState
        /\ contentLength' = contentLength /\ linger' = linger
    BY <1>2, <1>14 DEF HeadInv, parserVars
  <2>2. LastLine' = LastLine /\ Parsed' = Parsed /\ Ordinary(i)' = Ordinary(i)
    BY <1>2, SameMessage
  <2>3. i \in Nat /\ (i > 0 => 3 * i \in 1..L)
    BY <1>1, <2>1
  <2>4. AtLine(i)'
    BY <1>2, <1>7, <2>1, <2>2, <2>3 DEF AtLine
  <2>5. Before(i)'
    <3>1. checked <= Len(buf) /\ checked = 3 * i + 1 => checked \in 1..L
      BY <1>1, <2>3
    <3>2. checked <= Len(buf) => checked <= Len(buf')
      <4>1. checked \in Int
        BY <2>1, <2>3 DEF Before
      <4> QED
        BY <1>1, <1>6, <4>1
    <3> QED
      BY <1>2, <1>7, <2>1, <2>2, <3>1, <3>2 DEF Before
  <2>6. 3 * i <= Len(buf')
    BY <1>1, <1>6, <2>1, <2>3
  <2> QED
    BY <1>2, <2>4, <2>5, <2>6 DEF HeadInv
<1>15. LastLine' = LastLine
  BY <1>2, SameMessage
<1>16. checkState' = checkState /\ ret # "GET_REQUEST"
  BY <1>2 DEF parserVars, ReadInv
<1>17. IF checkState = "content" THEN BodyInv ELSE \E i \in 0..LastLine : HeadInv(i)
  BY <1>2 DEF ReadInv, Reading
<1>18. startLine' \in Nat /\ checked' \in Nat
  BY <1>2 DEF ReadInv, parserVars
<1> QED
  BY <1>18, <1>2, <1>10, <1>11, <1>12, <1>13, <1>14, <1>15, <1>16, <1>17 DEF ReadInv

LEMMA ReadFailsStep ==
  ASSUME ReadInv, ReadFails
  PROVE  ReadInv'
<1>1. /\ pc = "read" /\ pc' = "closed"
      /\ UNCHANGED <<msg, left, buf, startLine, checked, ret>>
  BY DEF ReadFails, clientVars, parserVars
<1>2. Arrived'
  BY <1>1 DEF Arrived, ReadInv
<1> QED
  BY <1>1, <1>2 DEF ReadInv, Reading

LEMMA FetchBodyStep ==
  ASSUME ReadInv, FetchBody
  PROVE  ReadInv'
<1>1. /\ pc = "parse" /\ checkState = "content" /\ lineStatus = "ok" /\ pc' = "text"
      /\ UNCHANGED <<msg, left, buf, startLine, checked, ret, checkState, contentLength,
                     linger, bodyCut, lineStatus>>
  BY DEF FetchBody, clientVars, parserVars
<1>2. Arrived'
  BY <1>1 DEF Arrived, ReadInv
<1>3. Untouched /\ WholeBody /\ BodyInv
  BY <1>1 DEF ReadInv, Reading
<1>4. Untouched' /\ WholeBody'
  BY <1>1, <1>3 DEF Untouched, WholeBody
<1>5. BodyInv'
  BY <1>1, <1>3 DEF BodyInv, Parsed
<1> QED
  BY <1>1, <1>2, <1>4, <1>5 DEF ReadInv, Reading

LEMMA FetchLineStep ==
  ASSUME ReadInv, FetchLine
  PROVE  ReadInv'
<1>1. /\ pc = "parse" /\ ~(checkState = "content" /\ lineStatus = "ok") /\ ParseLine
      /\ msg' = msg /\ left' = left
      /\ UNCHANGED <<startLine, checkState, contentLength, linger, bodyCut>>
      /\ \/ lineStatus' = "ok" /\ pc' = "text" /\ ret' = ret
         \/ lineStatus' # "ok" /\ pc' = "read" /\ ret' = "NO_REQUEST"
  BY DEF FetchLine, clientVars
<1>2. /\ Arrived /\ Untouched /\ WholeBody /\ startLine \in Nat /\ checked \in Nat
      /\ ret # "GET_REQUEST"
      /\ IF checkState = "content" THEN BodyInv ELSE \E i \in 0..LastLine : HeadInv(i)
  BY <1>1 DEF ReadInv, Reading
<1>3. /\ buf \in Seq(Symbols) /\ Len(buf) \in Nat /\ msg \in Messages
      /\ HeadLen(msg) \in Nat /\ LastLine \in Nat
  BY <1>2, MessageBytes, MessageTyped DEF Arrived, LastLine
<1>4. checked \in 0..Len(buf)
  <2>1. CASE checkState = "content"
    BY <1>2, <1>3, <2>1 DEF BodyInv
  <2>2. CASE checkState # "content"
    <3>1. PICK i \in 0..LastLine : HeadInv(i)
      BY <1>2, <2>2
    <3>2. Before(i) /\ 3 * i <= Len(buf)
      BY <1>1, <3>1 DEF HeadInv
    <3> QED
      BY <1>2, <1>3, <3>2 DEF Before
  <2> QED
    BY <2>1, <2>2
<1>5. /\ buf' \in Seq(Symbols) /\ Len(buf') = Len(buf)
      /\ checked' \in checked..Len(buf)
      /\ \A k \in 1..Len(buf) : k > checked' => buf'[k] = buf[k]
      /\ lineStatus' \in {"ok", "open", "bad"}
      /\ lineStatus' # "ok" => buf' = buf
  BY <1>1, <1>3, <1>4, LineStep
<1>6. Arrived'
  BY <1>1, <1>2, <1>5 DEF Arrived
<1>7. Untouched'
  <2> SUFFICES ASSUME NEW k \in 1..Len(buf), k > checked' PROVE buf'[k] = Bytes(msg)[k]
    BY <1>1, <1>5 DEF Untouched
  <2>1. k > checked
    BY <1>2, <1>3, <1>5
  <2> QED
    BY <1>2, <1>5, <2>1 DEF Untouched
<1>8. WholeBody'
  BY <1>1, <1>2, <1>5 DEF WholeBody
<1>9. checked' \in Nat
  BY <1>2, <1>3, <1>5
<1>10. CASE checkState = "content"
  <2>1. BodyInv
    BY <1>2, <1>10
  <2>2. /\ HeadLen(msg) <= startLine /\ startLine <= checked' /\ checked' <= Len(buf')
    BY <1>2, <1>3, <1>5, <2>1 DEF BodyInv
  <2>3. ASSUME ~bodyCut
        PROVE  /\ startLine = HeadLen(msg) /\ checked' = HeadLen(msg) /\ lineStatus' # "ok"
               /\ Len(buf) = HeadLen(msg)
    <3>1. /\ startLine = HeadLen(msg) /\ checked = HeadLen(msg) /\ Len(buf) = HeadLen(msg)
      BY <1>1, <1>10, <2>1, <2>3 DEF BodyInv
    <3>2. Stops = {}
      <4>1. \A k \in checked..(Len(buf) - 1) : FALSE
        BY <1>3, <3>1
      <4> QED
        BY <4>1, NoStop
    <3>3. lineStatus' = "open"
      BY <1>1, <3>2 DEF ParseLine
    <3>4. checked' = HeadLen(msg)
      BY <1>3, <1>5, <3>1
    <3> QED
      BY <3>1, <3>3, <3>4
  <2>4. BodyInv'
    <3>1. WellFormed(msg) /\ Parsed /\ (linger <=> "keep" \in Range(msg.headers))
          /\ contentLength = BodyLength /\ Declared(msg) = BodyLength
      BY <2>1 DEF BodyInv
    <3>2. pc' = "read" => ret' = "NO_REQUEST"
      BY <1>1
    <3>3. Parsed'
      BY <1>1, <3>1 DEF Parsed
    <3> QED
      BY <1>1, <1>5, <2>2, <2>3, <3>1, <3>2, <3>3 DEF BodyInv
  <2>5. pc' \in Reading /\ ret' # "GET_REQUEST" /\ pc' # "answer" /\ checkState' = "content"
    BY <1>1, <1>2, <1>10 DEF Reading
  <2> QED
    BY <1>1, <1>2, <1>6, <1>7, <1>8, <1>9, <2>4, <2>5 DEF ReadInv
<1>11. CASE checkState # "content"
  <2>1. PICK i \in 0..LastLine : HeadInv(i)
    BY <1>2, <1>11
  <2>2. AtLine(i) /\ Before(i) /\ 3 * i <= Len(buf) /\ i \in Nat
    BY <1>1, <1>3, <2>1 DEF HeadInv
  <2>3. LineWaits(i) \/ LineFetched(i)
    <3>1. i > 0 => buf[3 * i] = "NUL"
      BY <2>2 DEF AtLine
    <3> QED
      BY <1>1, <1>2, <2>2, <3>1, LineOutcome
  <2>4. LastLine' = LastLine /\ Parsed' = Parsed /\ Ordinary(i)' = Ordinary(i) /\ EndOf(i)' = EndOf(i)
    BY <1>1, SameMessage
  <2>5. ASSUME LineWaits(i) PROVE HeadInv(i)'
    <3>1. lineStatus' # "ok" /\ buf' = buf /\ pc' = "read" /\ ret' = "NO_REQUEST"
      BY <1>1, <2>5 DEF LineWaits
    <3>2. AtLine(i)'
      BY <1>1, <2>2, <2>4, <3>1 DEF AtLine
    <3>3. Before(i)'
      BY <1>1, <2>4, <2>5, <3>1 DEF Before, LineWaits
    <3>4. Ordinary(i)' => Len(buf') < EndOf(i)'
      BY <2>4, <2>5, <3>1 DEF LineWaits
    <3> QED
      BY <2>2, <3>1, <3>2, <3>3, <3>4 DEF HeadInv
  <2>6. ASSUME LineFetched(i) PROVE HeadInv(i)'
    <3> DEFINE s == 3 * i
               e == EndOf(i)
    <3>1. /\ lineStatus' = "ok" /\ pc' = "text" /\ ret' = ret
          /\ checked' = e /\ e <= Len(buf) /\ Ordinary(i)
          /\ buf' = [buf EXCEPT ![e - 1] = "NUL", ![e] = "NUL"]
      BY <1>1, <2>6 DEF LineFetched
    <3>2. /\ i = LastLine => e = s + 2
          /\ i # LastLine => e = s + 3 /\ i < LastLine
      BY <1>3, <2>2 DEF EndOf, HeadLen, LastLine
    <3>3. s \in Nat /\ e \in Nat /\ e - 1 \in 1..Len(buf) /\ e \in 1..Len(buf) /\ e - 1 # e
          /\ s + 1 \in 1..Len(buf) /\ (i > 0 => s \in 1..Len(buf) /\ s # e - 1 /\ s # e)
      BY <1>3, <2>2, <3>1, <3>2
    <3>4. /\ buf'[e] = "NUL" /\ buf'[e - 1] = "NUL"
          /\ \A k \in 1..Len(buf) : k # e /\ k # e - 1 => buf'[k] = buf[k]
      <4>1. buf \in [1..Len(buf) -> Symbols]
        BY <1>3
      <4> QED
        BY <3>1, <3>3, <4>1
    <3>5. AtLine(i)'
      <4>1. i > 0 => buf'[s] = "NUL"
        BY <2>2, <3>3, <3>4 DEF AtLine
      <4> QED
        BY <1>1, <2>2, <2>4, <4>1 DEF AtLine
    <3>6. Fetched(i)'
      <4>1. CASE i = LastLine
        <5>1. s + 1 = e - 1
          BY <3>2, <3>3, <4>1
        <5>2. buf'[s + 1] = "NUL"
          BY <3>4, <5>1
        <5> QED
          BY <1>1, <1>5, <2>4, <3>1, <3>4, <4>1, <5>2 DEF Fetched
      <4>2. CASE i # LastLine
        <5>1. s + 1 # e - 1 /\ s + 1 # e /\ i < LastLine
          BY <3>2, <3>3, <4>2
        <5>2. buf'[s + 1] = buf[s + 1]
          BY <3>3, <3>4, <5>1
        <5>3. buf[s + 1] = TextOf(msg, i)
          <6>1. CASE checked = s
            <7>1. s + 1 > checked
              BY <3>3, <6>1
            <7>2. i \in 0..Len(msg.headers)
              BY <1>3, <2>2, <5>1, MessageTyped DEF LastLine
            <7> QED
              BY <1>2, <1>3, <3>3, <7>1, <7>2, MessageBytes DEF Untouched
          <6>2. CASE checked # s
            BY <2>2, <6>2 DEF Before
          <6> QED
            BY <6>1, <6>2
        <5> QED
          BY <1>1, <1>5, <2>4, <3>1, <3>4, <4>2, <5>2, <5>3 DEF Fetched
      <4> QED
        BY <4>1, <4>2
    <3> QED
      BY <3>1, <3>5, <3>6 DEF HeadInv
  <2>7. HeadInv(i)'
    BY <2>3, <2>5, <2>6
  <2>8. pc' \in Reading /\ ret' # "GET_REQUEST" /\ pc' # "answer" /\ checkState' # "content"
    BY <1>1, <1>2, <1>11 DEF Reading
  <2> QED
    BY <1>1, <1>2, <1>6, <1>7, <1>8, <1>9, <2>4, <2>7, <2>8 DEF ReadInv
<1> QED
  BY <1>10, <1>11

LEMMA RequestLineStep ==
  ASSUME ReadInv, ParseRequestLine
  PROVE  ReadInv'
<1>1. /\ pc = "text" /\ checkState = "requestline" /\ startLine' = checked
      /\ UNCHANGED <<msg, left, buf, checked, contentLength, linger, bodyCut, lineStatus>>
  BY DEF ParseRequestLine, Taken, clientVars
<1>2. /\ Arrived /\ Untouched /\ WholeBody /\ startLine \in Nat /\ checked \in Nat
      /\ ret # "GET_REQUEST" /\ \E i \in 0..LastLine : HeadInv(i)
  BY <1>1 DEF ReadInv, Reading
<1>3. /\ buf \in Seq(Symbols) /\ Len(buf) \in Nat /\ msg \in Messages /\ LastLine \in Nat
      /\ 0 < LastLine /\ 1 \in 0..LastLine /\ msg.first \in {"get", "post", "junk"}
  BY <1>2, MessageTyped DEF Arrived, LastLine
<1>4. PICK i \in 0..LastLine : HeadInv(i)
  BY <1>2
<1>5. AtLine(i) /\ Fetched(i) /\ i = 0
  BY <1>1, <1>4 DEF HeadInv, AtLine
<1>6. /\ startLine = 0 /\ contentLength = 0 /\ ~linger
      /\ checked = 3 /\ 3 <= Len(buf) /\ buf[3] = "NUL" /\ buf[1] = msg.first
  BY <1>3, <1>5 DEF AtLine, Fetched, EndOf, TextOf
<1>7. Text = msg.first
  BY <1>6 DEF Text, At
<1>8. Arrived' /\ Untouched' /\ WholeBody'
  BY <1>1, <1>2 DEF Arrived, Untouched, WholeBody
<1>9. CASE msg.first \in {"get", "post"}
  <2>1. checkState' = "header" /\ pc' = "parse" /\ ret' = ret
    BY <1>7, <1>9 DEF ParseRequestLine
  <2>2. Parsed' /\ LastLine' = LastLine
    BY <1>1, <1>9, SameMessage DEF Parsed
  <2>3. AtLine(1)'
    BY <1>1, <1>6, <2>1, <2>2 DEF AtLine
  <2>4. HeadInv(1)'
    BY <1>1, <1>6, <2>1, <2>3 DEF HeadInv, Before
  <2> QED
    BY <1>1, <1>2, <1>3, <1>8, <2>1, <2>2, <2>4 DEF ReadInv, Reading
<1>10. CASE msg.first \notin {"get", "post"}
  <2>1. pc' = "answer" /\ ret' = "BAD_REQUEST"
    BY <1>7, <1>10 DEF ParseRequestLine, Return
  <2>2. Meaning(msg) = "BAD_REQUEST"
    BY <1>3, <1>10 DEF Meaning
  <2>3. AnswerInv'
    BY <1>1, <2>1, <2>2 DEF AnswerInv
  <2> QED
    BY <1>1, <1>2, <1>8, <2>1, <2>3 DEF ReadInv, Reading
<1> QED
  BY <1>9, <1>10

(* When the empty line is reached, the headers have said what they say.    *)
LEMMA HeadersRead ==
  ASSUME msg \in Messages, AtLine(LastLine), LastLine > 0
  PROVE  /\ WellFormed(msg) /\ Parsed /\ contentLength = Declared(msg)
         /\ linger <=> "keep" \in Range(msg.headers)
<1> DEFINE n == Len(msg.headers)
<1>1. /\ n \in Nat /\ LastLine - 1 = n /\ DOMAIN msg.headers = 1..n
      /\ Range(msg.headers) = {msg.headers[k] : k \in 1..n}
  BY MessageTyped DEF LastLine, Range
<1>2. /\ \A k \in 1..n : msg.headers[k] \notin {"CR", "LF"}
      /\ contentLength = IF \E k \in 1..n : msg.headers[k] = "len" THEN BodyLength ELSE 0
      /\ linger <=> \E k \in 1..n : msg.headers[k] = "keep"
      /\ Parsed
  BY <1>1 DEF AtLine
<1> HIDE DEF n
<1>3. \A x : x \in Range(msg.headers) <=> \E k \in 1..n : msg.headers[k] = x
  BY <1>1
<1>4. WellFormed(msg)
  BY <1>2, <1>3 DEF WellFormed
<1>5. contentLength = Declared(msg)
  BY <1>2, <1>3 DEF Declared
<1> QED
  BY <1>2, <1>3, <1>4, <1>5

LEMMA HeadersStep ==
  ASSUME ReadInv, ParseHeaders
  PROVE  ReadInv'
<1>1. /\ pc = "text" /\ checkState = "header" /\ startLine' = checked
      /\ UNCHANGED <<msg, left, buf, checked, query, bodyCut, lineStatus>>
  BY DEF ParseHeaders, Taken, clientVars
<1>2. /\ Arrived /\ Untouched /\ WholeBody /\ startLine \in Nat /\ checked \in Nat
      /\ ret # "GET_REQUEST" /\ \E i \in 0..LastLine : HeadInv(i)
  BY <1>1 DEF ReadInv, Reading
<1>3. /\ buf \in Seq(Symbols) /\ Len(buf) \in Nat /\ Len(left) \in Nat /\ msg \in Messages
      /\ Len(msg.headers) \in Nat /\ Len(msg.body) \in Nat
      /\ LastLine \in Nat /\ LastLine = Len(msg.headers) + 1 /\ HeadLen(msg) \in Nat
      /\ Len(buf) + Len(left) = HeadLen(msg) + Len(msg.body)
  <2>1. /\ buf \in Seq(Symbols) /\ left \in Seq(Symbols) /\ msg \in Messages
        /\ Len(buf) + Len(left) = Len(Bytes(msg))
    BY <1>2 DEF Arrived
  <2>2. /\ Len(msg.headers) \in Nat /\ Len(msg.body) \in Nat /\ HeadLen(msg) \in Nat
        /\ Len(Bytes(msg)) = HeadLen(msg) + Len(msg.body)
    BY <2>1, MessageTyped, MessageBytes
  <2> QED
    BY <2>1, <2>2 DEF LastLine
<1>4. PICK i \in 0..LastLine : HeadInv(i)
  BY <1>2
<1>5. AtLine(i) /\ Fetched(i) /\ i > 0 /\ i \in Nat
  BY <1>1, <1>3, <1>4 DEF HeadInv, AtLine
<1>6. /\ Text = buf[3 * i + 1] /\ Parsed /\ checked = EndOf(i) /\ checked <= Len(buf)
      /\ buf[checked] = "NUL" /\ Ordinary(i) /\ lineStatus = "ok"
      /\ Text = IF i = LastLine THEN "NUL" ELSE TextOf(msg, i)
  BY <1>5 DEF AtLine, Fetched, Text, At
<1>7. Arrived' /\ Untouched' /\ WholeBody'
  BY <1>1, <1>2 DEF Arrived, Untouched, WholeBody
<1>8. LastLine' = LastLine /\ Parsed' = Parsed
  BY <1>1, SameMessage
<1>9. CASE i # LastLine
  <2>1. /\ i \in 1..Len(msg.headers) /\ i < LastLine /\ i + 1 \in 0..LastLine
        /\ i + 1 # 0 /\ (i + 1) - 1 = i
    BY <1>3, <1>5, <1>9
  <2>2. /\ Text = msg.headers[i] /\ msg.headers[i] \notin {"CR", "LF"} /\ Text # "NUL"
    <3>1. TextOf(msg, i) = msg.headers[i] /\ Text = TextOf(msg, i)
      BY <1>5, <1>6, <1>9 DEF TextOf
    <3>2. TextOf(msg, i) \notin {"CR", "LF"}
      BY <1>6, <2>1 DEF Ordinary
    <3>3. msg.headers[i] \in {"len", "keep", "host", "CR", "LF"}
      BY <1>3, <2>1, MessageTyped
    <3> QED
      BY <3>1, <3>2, <3>3
  <2>3. /\ linger' = (linger \/ msg.headers[i] = "keep")
        /\ contentLength' = IF msg.headers[i] = "len" THEN BodyLength ELSE contentLength
        /\ pc' = "parse" /\ checkState' = checkState /\ ret' = ret
    BY <2>2 DEF ParseHeaders, Length
  <2>4. checked = 3 * (i + 1)
    BY <1>5, <1>6, <1>9 DEF EndOf
  <2>5. \A k \in 1..i : k \in 1..(i - 1) \/ k = i
    BY <1>5
  <2>6. \A k \in 1..(i - 1) : k \in 1..i
    BY <1>5
  <2>7. i \in 1..i
    BY <1>5
  <2>8. /\ \A k \in 1..(i - 1) : msg.headers[k] \notin {"CR", "LF"}
        /\ contentLength = IF \E k \in 1..(i - 1) : msg.headers[k] = "len" THEN BodyLength ELSE 0
        /\ linger <=> \E k \in 1..(i - 1) : msg.headers[k] = "keep"
    BY <1>5 DEF AtLine
  <2>9. \A k \in 1..i : msg.headers[k] \notin {"CR", "LF"}
    BY <2>2, <2>5, <2>8
  <2>10. contentLength' = IF \E k \in 1..i : msg.headers[k] = "len" THEN BodyLength ELSE 0
    BY <2>3, <2>5, <2>6, <2>7, <2>8
  <2>11. linger' <=> \E k \in 1..i : msg.headers[k] = "keep"
    BY <2>3, <2>5, <2>6, <2>7, <2>8
  <2>12. AtLine(i + 1)'
    <3>1. /\ startLine' = 3 * (i + 1) /\ checkState' = "header" /\ buf'[3 * (i + 1)] = "NUL"
          /\ Parsed' /\ msg' = msg
      BY <1>1, <1>6, <1>8, <2>3, <2>4
    <3> DEFINE j == i + 1
    <3>2. j # 0 /\ j - 1 = i
      BY <2>1
    <3>3. /\ startLine' = 3 * j /\ buf'[3 * j] = "NUL"
      BY <3>1
    <3> HIDE DEF j
    <3>4. AtLine(j)'
      BY <2>9, <2>10, <2>11, <3>1, <3>2, <3>3 DEF AtLine
    <3> QED
      BY <3>4 DEF j
  <2>13. HeadInv(i + 1)'
    <3>1. checked' = 3 * (i + 1) /\ 3 * (i + 1) <= Len(buf')
      BY <1>1, <1>6, <2>4
    <3> QED
      BY <2>3, <2>12, <3>1 DEF HeadInv, Before
  <2> QED
    BY <1>1, <1>2, <1>7, <1>8, <2>1, <2>3, <2>13 DEF ReadInv, Reading
<1>10. CASE i = LastLine
  <2>1. Text = "NUL" /\ checked = HeadLen(msg)
    BY <1>6, <1>10 DEF EndOf
  <2>2. /\ WellFormed(msg) /\ contentLength = Declared(msg)
        /\ linger <=> "keep" \in Range(msg.headers)
    BY <1>3, <1>5, <1>10, HeadersRead
  <2>3. CASE contentLength # 0
    <3>1. checkState' = "content" /\ pc' = "parse" /\ UNCHANGED <<contentLength, linger, ret>>
      BY <2>1, <2>3 DEF ParseHeaders
    <3>2. contentLength = BodyLength
      BY <2>2, <2>3 DEF Declared
    <3>3. BodyInv'
      BY <1>1, <1>3, <1>6, <1>8, <2>1, <2>2, <3>1, <3>2 DEF BodyInv
    <3> QED
      BY <1>1, <1>2, <1>7, <3>1, <3>3 DEF ReadInv, Reading
  <2>4. CASE contentLength = 0
    <3>1. pc' = "answer" /\ ret' = "GET_REQUEST" /\ UNCHANGED <<checkState, contentLength, linger>>
      BY <2>1, <2>4 DEF ParseHeaders, Return
    <3>2. Meaning(msg) = "GET_REQUEST" /\ Declared(msg) = 0
      BY <1>3, <1>6, <2>2, <2>4 DEF Meaning, Parsed
    <3>3. AnswerInv'
      BY <1>1, <2>2, <3>1, <3>2 DEF AnswerInv
    <3>4. Len(left) + Declared(msg) <= Len(msg.body)
      BY <1>3, <1>6, <2>1, <3>2
    <3> QED
      BY <1>1, <1>2, <1>7, <3>1, <3>3, <3>4 DEF ReadInv, Reading
  <2> QED
    BY <2>3, <2>4
<1> QED
  BY <1>9, <1>10

LEMMA ContentStep ==
  ASSUME ReadInv, ParseContent
  PROVE  ReadInv'
<1> DEFINE H == HeadLen(msg)
           L == Len(buf)
           B == BodyLength
<1>1. /\ pc = "text" /\ checkState = "content" /\ startLine' = checked
      /\ UNCHANGED <<msg, left, checked, checkState, contentLength, linger, bodyCut>>
  BY DEF ParseContent, Taken, clientVars
<1>2. /\ Arrived /\ Untouched /\ WholeBody /\ startLine \in Nat /\ checked \in Nat
      /\ ret # "GET_REQUEST" /\ BodyInv
  BY <1>1 DEF ReadInv, Reading
<1>3. /\ buf \in Seq(Symbols) /\ L \in Nat /\ Len(left) \in Nat /\ msg \in Messages
      /\ Len(msg.body) \in Nat /\ H \in Nat /\ B \in Nat /\ B > 0
      /\ L + Len(left) = H + Len(msg.body)
  <2>1. /\ buf \in Seq(Symbols) /\ left \in Seq(Symbols) /\ msg \in Messages
        /\ L + Len(left) = Len(Bytes(msg))
    BY <1>2 DEF Arrived
  <2>2. Len(msg.body) \in Nat /\ H \in Nat /\ Len(Bytes(msg)) = H + Len(msg.body)
    BY <2>1, MessageTyped, MessageBytes
  <2> HIDE DEF H
  <2> QED
    BY <2>1, <2>2, Bounds
<1>4. /\ contentLength = B /\ Declared(msg) = B /\ WellFormed(msg) /\ Parsed
      /\ linger <=> "keep" \in Range(msg.headers)
      /\ H <= startLine /\ startLine <= checked /\ checked <= L
      /\ ~bodyCut => startLine = H /\ checked = H
  BY <1>2 DEF BodyInv
<1>5. Parsed' = Parsed
  BY <1>1, SameMessage
<1>6. CASE HasBody
  <2>1. /\ pc' = "answer" /\ ret' = "GET_REQUEST" /\ query' = startLine
        /\ buf' = [k \in DOMAIN buf |-> IF k = startLine + B + 1 THEN "NUL" ELSE buf[k]]
    BY <1>4, <1>6 DEF ParseContent, Return
  <2>2. /\ DOMAIN buf = 1..L /\ \A k \in 1..L : buf[k] \in Symbols
    BY <1>3, ElementOfSeq
  <2>3. buf' \in [1..L -> Symbols]
    BY <2>1, <2>2 DEF Symbols
  <2>4. buf' \in Seq(Symbols) /\ Len(buf') = L
    BY <1>3, <2>3
  <2>5. L >= B + checked
    BY <1>4, <1>6 DEF HasBody
  <2>6. Arrived'
    BY <1>1, <1>2, <2>4 DEF Arrived
  <2>7. Len(left) + B <= Len(msg.body)
    BY <1>2, <1>3, <1>4, <2>5
  <2>8. Meaning(msg) = "GET_REQUEST"
    BY <1>3, <1>4, <2>7 DEF Meaning, Parsed
  <2>9. ASSUME ~bodyCut PROVE QueryInv'
    <3>1. startLine = H /\ checked = H /\ H + B <= L /\ B <= Len(msg.body)
      BY <1>3, <1>4, <2>5, <2>7, <2>9
    <3>2. \A k \in 1..B : buf'[H + k] = msg.body[k]
      <4> SUFFICES ASSUME NEW k \in 1..B PROVE buf'[H + k] = msg.body[k]
        OBVIOUS
      <4> DEFINE p == H + k
      <4>1. p \in 1..L /\ p # H + B + 1 /\ p > H /\ k \in 1..Len(msg.body)
        BY <1>3, <3>1
      <4>2. Bytes(msg)[p] = msg.body[k]
        BY <1>3, <4>1, MessageBytes
      <4> HIDE DEF p
      <4>3. buf'[p] = buf[p]
        BY <2>1, <2>2, <3>1, <4>1
      <4>4. buf[p] = Bytes(msg)[p]
        BY <1>2, <3>1, <4>1 DEF Untouched
      <4> QED
        BY <4>2, <4>3, <4>4 DEF p
    <3>3. ASSUME L > H + B PROVE buf'[H + B + 1] = "NUL"
      <4>1. H + B + 1 \in 1..L
        BY <1>3, <3>3
      <4> QED
        BY <2>1, <2>2, <3>1, <4>1
    <3>4. query' = H /\ msg' = msg
      BY <1>1, <2>1, <3>1
    <3> QED
      BY <2>4, <3>1, <3>2, <3>3, <3>4 DEF QueryInv
  <2>10. AnswerInv'
    BY <1>1, <1>4, <2>1, <2>8, <2>9 DEF AnswerInv
  <2> QED
    BY <1>1, <1>2, <1>4, <2>1, <2>6, <2>7, <2>10 DEF ReadInv, Reading
<1>7. CASE ~HasBody
  <2>1. lineStatus' = "open" /\ pc' = "parse" /\ UNCHANGED <<ret, query, buf>>
    BY <1>7 DEF ParseContent
  <2>2. Arrived' /\ Untouched' /\ WholeBody'
    BY <1>1, <1>2, <2>1 DEF Arrived, Untouched, WholeBody
  <2>3. ~(L >= B + checked)
    BY <1>4, <1>7 DEF HasBody
  <2>4. ASSUME ~bodyCut PROVE L = H
    BY <1>2, <1>3, <1>4, <2>3, <2>4 DEF WholeBody
  <2>5. BodyInv'
    <3>1. H <= checked
      BY <1>2, <1>3, <1>4
    <3> QED
      BY <1>1, <1>2, <1>4, <1>5, <2>1, <2>4, <3>1 DEF BodyInv
  <2> QED
    BY <1>1, <1>2, <2>1, <2>2, <2>5 DEF ReadInv, Reading
<1> QED
  BY <1>6, <1>7

LEMMA ReadStep == ReadInv /\ [Next]_vars => ReadInv'
<1> SUFFICES ASSUME ReadInv, [Next]_vars PROVE ReadInv'
  OBVIOUS
<1>1. CASE UNCHANGED reqVars
  <2>1. UNCHANGED <<msg, left, buf, startLine, checked, checkState, contentLength, linger, query,
                    pc, lineStatus, ret, bodyCut>>
    BY <1>1 DEF reqVars, clientVars, parserVars
  <2>2. LastLine' = LastLine /\ Parsed' = Parsed
        /\ \A i : EndOf(i)' = EndOf(i) /\ Ordinary(i)' = Ordinary(i)
    BY <2>1, SameMessage
  <2>3. Arrived'
    BY <2>1 DEF ReadInv, Arrived
  <2>4. Untouched' = Untouched /\ WholeBody' = WholeBody
    BY <2>1 DEF Untouched, WholeBody
  <2>5. \A i : HeadInv(i)' = HeadInv(i)
    BY <2>1, <2>2 DEF HeadInv, AtLine, Before, Fetched
  <2>6. BodyInv' = BodyInv
    BY <2>1, <2>2 DEF BodyInv
  <2>7. AnswerInv' = AnswerInv
    BY <2>1 DEF AnswerInv, QueryInv
  <2> QED
    BY <2>1, <2>2, <2>3, <2>4, <2>5, <2>6, <2>7 DEF ReadInv
<1>2. CASE Read
  BY <1>2, ReadOnceStep, ReadFailsStep, FetchLineStep, FetchBodyStep, RequestLineStep,
     HeadersStep, ContentStep DEF Read, ProcessRead
<1>3. CASE Process
  <2>1. /\ pc = "answer" /\ pc' = "reply"
        /\ UNCHANGED <<msg, left, buf, startLine, checked, ret>>
    BY <1>3 DEF Process, clientVars, parserVars
  <2>2. Arrived'
    BY <2>1 DEF ReadInv, Arrived
  <2> QED
    BY <2>1, <2>2 DEF ReadInv, Reading
<1>4. CASE NextRequest
  BY <1>4, FreshStep
<1> QED
  BY <1>1, <1>2, <1>3, <1>4 DEF Next, Reply, Write, Reopen, vars

(* What do_request reads, once m_string is set.                            *)
LEMMA QueryIsBody ==
  ASSUME msg \in Messages, buf \in Seq(Symbols), QueryInv
  PROVE  QueryText = SubSeq(msg.body, 1, BodyLength)
<1> DEFINE H == HeadLen(msg)
           B == BodyLength
           L == Len(buf)
           ends == {i \in (query + 1)..L : buf[i] = "NUL"}
           end == IF ends = {} THEN L ELSE (CHOOSE i \in ends : \A k \in ends : i <= k) - 1
<1>1. /\ H \in Nat /\ B \in Nat /\ B > 0 /\ L \in Nat
      /\ msg.body \in Seq(Symbols) /\ Len(msg.body) \in Nat
  BY MessageBytes, MessageTyped, Bounds
<1>2. /\ query = H /\ H + B <= L /\ B <= Len(msg.body)
      /\ \A k \in 1..B : buf[H + k] = msg.body[k]
      /\ L > H + B => buf[H + B + 1] = "NUL"
  BY DEF QueryInv
<1>3. \A k \in 1..B : msg.body[k] # "NUL"
  <2>1. \A k \in 1..B : k \in 1..Len(msg.body)
    BY <1>1, <1>2
  <2> QED
    BY <2>1, MessageTyped
<1> HIDE DEF H, B, L
<1>4. ASSUME NEW i \in ends PROVE i >= H + B + 1
  <2> SUFFICES ASSUME i < H + B + 1 PROVE FALSE
    BY <1>1, <1>2
  <2> DEFINE k == i - H
  <2>1. k \in 1..B /\ H + k = i /\ buf[i] = "NUL"
    BY <1>1, <1>2, <1>4
  <2> HIDE DEF k
  <2> QED
    BY <1>2, <1>3, <2>1
<1>5. end = H + B
  <2>1. CASE L > H + B
    <3> DEFINE e == H + B + 1
    <3>1. e \in ends
      BY <1>1, <1>2, <2>1
    <3>2. \A i \in ends : e <= i /\ i \in Int
      BY <1>1, <1>2, <1>4
    <3>3. e - 1 = H + B /\ e \in Int
      BY <1>1
    <3> HIDE DEF ends, e
    <3>4. (CHOOSE i \in ends : \A k \in ends : i <= k) = e
      <4>1. \A q \in ends : (\A k \in ends : q <= k) => q = e
        BY <3>1, <3>2, <3>3
      <4> QED
        BY <3>1, <3>2, <4>1
    <3> QED
      BY <3>1, <3>3, <3>4
  <2>2. CASE ~(L > H + B)
    <3>1. L = H + B
      BY <1>1, <1>2, <2>2
    <3>2. ends = {}
      <4> SUFFICES ASSUME NEW i \in ends PROVE FALSE
        OBVIOUS
      <4>1. i >= H + B + 1 /\ i \in (query + 1)..L
        BY <1>4
      <4> QED
        BY <1>1, <1>2, <3>1, <4>1
    <3> HIDE DEF ends
    <3> QED
      BY <3>1, <3>2
  <2> QED
    BY <2>1, <2>2
<1>6. QueryText = SubSeq(buf, H + 1, H + B)
  <2>1. QueryText = SubSeq(buf, query + 1, end)
    BY DEF QueryText, L
  <2> HIDE DEF end
  <2> QED
    BY <1>2, <1>5, <2>1
<1>7. /\ SubSeq(buf, H + 1, H + B) \in Seq(Symbols) /\ Len(SubSeq(buf, H + 1, H + B)) = B
      /\ \A k \in 1..B : SubSeq(buf, H + 1, H + B)[k] = buf[H + k]
  <2> DEFINE p == H + 1
             q == H + B
  <2>1. /\ p \in 1..(L + 1) /\ q \in (p - 1)..L /\ q - p + 1 = B
        /\ (p <= q) /\ \A k \in 1..B : p + k - 1 = H + k
    BY <1>1, <1>2
  <2> HIDE DEF p, q
  <2>2. /\ SubSeq(buf, p, q) \in Seq(Symbols)
        /\ Len(SubSeq(buf, p, q)) = IF p <= q THEN q - p + 1 ELSE 0
        /\ \A k \in 1..(q - p + 1) : SubSeq(buf, p, q)[k] = buf[p + k - 1]
    BY <2>1, SubSeqProperties DEF L
  <2>3. Len(SubSeq(buf, p, q)) = B
    BY <2>1, <2>2
  <2>4. \A k \in 1..B : SubSeq(buf, p, q)[k] = buf[H + k]
    BY <2>1, <2>2
  <2> QED
    BY <2>2, <2>3, <2>4 DEF p, q
<1>8. /\ SubSeq(msg.body, 1, B) \in Seq(Symbols) /\ Len(SubSeq(msg.body, 1, B)) = B
      /\ \A k \in 1..B : SubSeq(msg.body, 1, B)[k] = msg.body[k]
  <2>1. 1 \in 1..(Len(msg.body) + 1) /\ B \in 0..Len(msg.body) /\ 1 <= B
    BY <1>1, <1>2
  <2> QED
    BY <1>1, <2>1, SubSeqProperties
<1>9. SubSeq(buf, H + 1, H + B) = SubSeq(msg.body, 1, B)
  BY <1>2, <1>7, <1>8, SeqEqual
<1> QED
  BY <1>6, <1>9 DEF B

LEMMA ReadTells == ReadInv => CutsDoNotMatter /\ NeverEarly
<1> SUFFICES ASSUME ReadInv PROVE CutsDoNotMatter /\ NeverEarly
  OBVIOUS
<1>1. NeverEarly
  BY DEF ReadInv, NeverEarly
<1>2. msg \in Messages /\ buf \in Seq(Symbols) /\ left \in Seq(Symbols)
  BY DEF ReadInv, Arrived
<1>3. ASSUME pc = "answer", ~bodyCut
      PROVE  /\ ret = Meaning(msg)
             /\ ret = "GET_REQUEST" =>
                  /\ linger <=> "keep" \in Range(msg.headers)
                  /\ Declared(msg) > 0 => QueryText = SubSeq(msg.body, 1, BodyLength)
  BY <1>2, <1>3, QueryIsBody DEF ReadInv, AnswerInv
<1>4. ASSUME pc = "read", left = << >>, ~bodyCut
      PROVE  ret = Meaning(msg)
  <2>1. /\ Len(msg.headers) \in Nat /\ Len(msg.body) \in Nat /\ HeadLen(msg) \in Nat
        /\ HeadLen(msg) >= 5 /\ Len(Bytes(msg)) = HeadLen(msg) + Len(msg.body)
    BY <1>2, MessageTyped, MessageBytes
  <2>2. Len(buf) = HeadLen(msg) + Len(msg.body)
    <3>1. Len(left) = 0 /\ Len(buf) \in Nat
      BY <1>2, <1>4
    <3> QED
      BY <2>1, <3>1 DEF ReadInv, Arrived
  <2>3. IF checkState = "content" THEN BodyInv ELSE \E i \in 0..LastLine : HeadInv(i)
    BY <1>4 DEF ReadInv, Reading
  <2>4. CASE checkState = "content"
    <3>1. /\ ret = "NO_REQUEST" /\ Len(buf) = HeadLen(msg) /\ Declared(msg) = BodyLength
          /\ Parsed
      BY <1>4, <2>3, <2>4 DEF BodyInv
    <3>2. ~(Len(msg.body) >= Declared(msg))
      BY <2>1, <2>2, <3>1, Bounds
    <3> QED
      BY <3>1, <3>2 DEF Meaning, Parsed
  <2>5. CASE checkState # "content"
    <3>1. PICK i \in 0..LastLine : HeadInv(i)
      BY <2>3, <2>5
    <3>2. EndOf(i) <= HeadLen(msg) /\ i \in Nat
      BY <2>1 DEF EndOf, HeadLen, LastLine
    <3>3. Len(buf) >= HeadLen(msg) /\ EndOf(i) <= Len(buf)
      <4>1. EndOf(i) \in Int
        BY <2>1, <3>2 DEF EndOf
      <4> QED
        BY <2>1, <2>2, <3>2, <4>1
    <3>4. ret = "NO_REQUEST" /\ ~Ordinary(i)
      <4>1. EndOf(i) \in Int
        BY <2>1, <3>2 DEF EndOf
      <4> QED
        BY <1>4, <2>1, <2>2, <3>1, <3>3, <4>1 DEF HeadInv
    <3>5. i < LastLine /\ TextOf(msg, i) \in {"CR", "LF"}
      BY <3>4 DEF Ordinary
    <3>6. i # 0 /\ i \in 1..Len(msg.headers)
      <4>1. i \in 0..Len(msg.headers)
        BY <2>1, <3>2, <3>5 DEF LastLine
      <4> QED
        BY <1>2, <3>5, <4>1, TextTyped
    <3>7. msg.headers[i] \in {"CR", "LF"} /\ msg.headers[i] \in Range(msg.headers)
      BY <1>2, <3>5, <3>6, MessageTyped DEF TextOf, Range
    <3>8. ~WellFormed(msg)
      BY <3>7 DEF WellFormed
    <3>9. Parsed
      BY <3>1, <3>2, <3>6 DEF HeadInv, AtLine
    <3> QED
      BY <3>4, <3>8, <3>9 DEF Meaning, Parsed
  <2> QED
    BY <2>4, <2>5
<1> QED
  BY <1>1, <1>3, <1>4 DEF CutsDoNotMatter

(* However a message is cut into reads, and whatever the object served     *)
(* before, process_read finds what the message says (a body cut in two is  *)
(* another matter).                                                        *)
THEOREM CutsMakeNoDifference == Spec => []CutsDoNotMatter
<1> QED
  BY ReadInit, ReadStep, ReadTells, PTL DEF Spec

(* A request is not taken for whole before its last byte has come.         *)
THEOREM NeverTakenEarly == Spec => []NeverEarly
<1> QED
  BY ReadInit, ReadStep, ReadTells, PTL DEF Spec

-----------------------------------------------------------------------------
(* Types.  An answer is begun for a request that is not yet done with, and *)
(* the last request leaves the object for good.                            *)
TypeInv == /\ RequestOK
           /\ wpc # "rest" => pc = "reply"
           /\ pc # "done" => served < MaxServed
           /\ answers \in Nat
           /\ answers <= served + (IF pc = "reply" THEN 1 ELSE 0)

LEMMA TypeInit == ConnectionInit => TypeInv
<1> SUFFICES ASSUME ConnectionInit PROVE TypeInv
  OBVIOUS
<1>1. Arrived
  BY ReadInit DEF ReadInv
<1>2. buf = << >> /\ Len(buf) = 0
  BY DEF ConnectionInit, Init
<1>3. trigMode \in {0, 1}
  BY HttpAssumption DEF ConnectionInit, Init
<1>4. /\ startLine = 0 /\ checked = 0 /\ query = -1 /\ served = 0 /\ answers = 0
      /\ checkState = "requestline" /\ contentLength = 0 /\ linger = FALSE
      /\ pc = "read" /\ lineStatus = "ok" /\ ret = "none" /\ bodyCut = FALSE /\ wpc = "rest"
  BY DEF ConnectionInit, Init, Resp!Init
<1>5. /\ startLine \in 0..checked /\ checked \in 0..Len(buf) /\ query \in -1..BufferSize
      /\ served \in 0..MaxServed
  BY <1>2, <1>4, Bounds
<1>6. linger \in BOOLEAN /\ bodyCut \in BOOLEAN
  BY <1>4
<1>7. RequestOK
  BY <1>1, <1>3, <1>4, <1>5, <1>6 DEF RequestOK, Arrived
<1> QED
  BY <1>4, <1>7, Bounds DEF TypeInv

LEMMA NextRequestTypes ==
  ASSUME TypeInv, ReadInv', NextRequest, wpc' = "rest", answers' = answers, pc # "done"
  PROVE  TypeInv'
<1>1. Arrived'
  BY DEF ReadInv
<1>2. served \in Nat /\ served < MaxServed /\ served' = served + 1 /\ served' \in 0..MaxServed
  BY Bounds DEF TypeInv, RequestOK, NextRequest
<1>3. answers' \in Nat /\ answers' <= served'
  BY <1>2 DEF TypeInv
<1>4. CASE served' < MaxServed
  <2>1. /\ startLine' = 0 /\ checked' = 0 /\ checkState' = "requestline" /\ contentLength' = 0
        /\ linger' = FALSE /\ query' = query /\ pc' = "read" /\ ret' = "none" /\ bodyCut' = FALSE
        /\ UNCHANGED <<trigMode, lineStatus>>
    BY <1>4 DEF NextRequest, FreshParser
  <2>2. Len(buf') \in Nat
    BY <1>1 DEF Arrived
  <2>3. /\ startLine' \in 0..checked' /\ checked' \in 0..Len(buf') /\ query' \in -1..BufferSize
        /\ trigMode' \in {0, 1} /\ lineStatus' \in {"ok", "open", "bad"}
    BY <2>1, <2>2 DEF TypeInv, RequestOK
  <2>4. linger' \in BOOLEAN /\ bodyCut' \in BOOLEAN
    BY <2>1
  <2>5. RequestOK'
    BY <1>1, <1>2, <2>1, <2>3, <2>4 DEF RequestOK, Arrived
  <2> QED
    BY <1>2, <1>3, <1>4, <2>1, <2>5 DEF TypeInv
<1>5. CASE ~(served' < MaxServed)
  <2>1. /\ pc' = "done"
        /\ UNCHANGED <<trigMode, msg, left, buf, startLine, checked, checkState, contentLength,
                       linger, query, lineStatus, ret, bodyCut>>
    BY <1>5 DEF NextRequest, parserVars
  <2> QED
    BY <1>2, <1>3, <2>1 DEF TypeInv, RequestOK
<1> QED
  BY <1>4, <1>5

LEMMA ReadTypes ==
  ASSUME TypeInv, ReadInv, ReadInv', ProcessRead, UNCHANGED respVars, wpc = "rest"
  PROVE  TypeInv'
<1>1. Arrived /\ Arrived' /\ startLine' \in Nat /\ checked' \in Nat
  BY DEF ReadInv
<1>2. wpc' = "rest" /\ answers' = answers /\ UNCHANGED <<trigMode, served>>
  BY DEF respVars, ProcessRead, ReadOnce, ReadFails, FetchLine, FetchBody, ParseRequestLine,
         ParseHeaders, ParseContent, clientVars
<1>3. /\ Len(buf) \in Nat /\ Len(buf') \in Nat /\ Len(buf') <= BufferSize
      /\ startLine \in Nat /\ checked \in Nat /\ startLine <= checked /\ checked <= Len(buf)
      /\ Len(buf) <= BufferSize /\ BufferSize \in Nat
  BY <1>1, Bounds DEF Arrived, TypeInv, RequestOK
<1>4. /\ pc \in {"read", "parse", "text"} /\ served \in Nat /\ served < MaxServed
      /\ answers <= served
  BY DEF ProcessRead, ReadOnce, ReadFails, FetchLine, FetchBody, ParseRequestLine,
         ParseHeaders, ParseContent, Taken, TypeInv, RequestOK
<1> DEFINE Order == startLine' <= checked' /\ checked' <= Len(buf') /\ query' \in -1..BufferSize
           Words == /\ checkState' \in {"requestline", "header", "content"}
                    /\ pc' \in {"read", "parse", "text", "answer", "closed"}
                    /\ lineStatus' \in {"ok", "open", "bad"}
                    /\ ret' \in {"none", "NO_REQUEST", "BAD_REQUEST", "GET_REQUEST"}
                    /\ contentLength' \in {0, BodyLength}
           Flags == linger' \in BOOLEAN /\ bodyCut' \in BOOLEAN
<1>5. /\ checkState \in {"requestline", "header", "content"}
      /\ lineStatus \in {"ok", "open", "bad"}
      /\ ret \in {"none", "NO_REQUEST", "BAD_REQUEST", "GET_REQUEST"}
      /\ contentLength \in {0, BodyLength}
  BY DEF TypeInv, RequestOK
<1>6. linger \in BOOLEAN /\ bodyCut \in BOOLEAN /\ query \in -1..BufferSize
  BY DEF TypeInv, RequestOK
<1>7. ASSUME NEW n \in 1..BufferSize, ReadOnce(n) PROVE Order /\ Words /\ Flags
  <2>1. n \in Nat /\ n <= Len(left) /\ n >= 1
    BY <1>1, <1>7, Bounds DEF ReadOnce, Arrived
  <2>2. /\ SubSeq(left, 1, n) \in Seq(Symbols) /\ Len(SubSeq(left, 1, n)) = n
    BY <1>1, <2>1, SubSeqProperties DEF Arrived
  <2>3. Len(buf') = Len(buf) + n
    BY <1>1, <1>7, <2>2, ConcatProperties DEF ReadOnce, Arrived
  <2>4. /\ UNCHANGED <<startLine, checked, checkState, contentLength, linger, query, ret>>
        /\ pc' = "parse" /\ lineStatus' = "ok" /\ bodyCut' = (bodyCut \/ InsideBody(n))
    BY <1>7 DEF ReadOnce, parserVars
  <2>5. Order
    BY <1>3, <1>6, <2>1, <2>3, <2>4
  <2>6. Words
    BY <1>5, <2>4
  <2>7. Flags
    BY <1>6, <2>4
  <2> QED
    BY <2>5, <2>6, <2>7
<1>8. ASSUME UNCHANGED <<startLine, checked, query, buf>> PROVE Order
  BY <1>3, <1>6, <1>8
<1>9. ASSUME startLine' = checked, UNCHANGED <<checked, query, buf>> PROVE Order
  BY <1>3, <1>6, <1>9
<1>10. ASSUME ReadFails \/ FetchBody PROVE Order /\ Words /\ Flags
  <2>1. UNCHANGED <<startLine, checked, query, buf>>
    BY <1>10 DEF ReadFails, FetchBody, parserVars
  <2>2. UNCHANGED <<linger, bodyCut>>
    BY <1>10 DEF ReadFails, FetchBody, parserVars
  <2>3. Words
    BY <1>5, <1>10 DEF ReadFails, FetchBody, parserVars
  <2> QED
    BY <1>6, <1>8, <2>1, <2>2, <2>3
<1>11. ASSUME FetchLine PROVE Order /\ Words /\ Flags
  <2>1. /\ Len(buf') = Len(buf) /\ checked' \in checked..Len(buf)
        /\ lineStatus' \in {"ok", "open", "bad"}
    <3>1. checked \in 0..Len(buf) /\ buf \in Seq(Symbols) /\ ParseLine
      BY <1>1, <1>3, <1>11 DEF FetchLine, Arrived
    <3> QED
      BY <3>1, LineStep
  <2>2. UNCHANGED <<startLine, query, linger, bodyCut>>
    BY <1>11 DEF FetchLine
  <2>3. Order
    BY <1>3, <1>6, <2>1, <2>2
  <2>4. Words
    BY <1>5, <1>11, <2>1 DEF FetchLine
  <2> QED
    BY <1>6, <2>2, <2>3, <2>4
<1>12. ASSUME ParseRequestLine \/ ParseHeaders PROVE Order /\ Words /\ Flags
  <2>1. startLine' = checked /\ UNCHANGED <<checked, query, buf>>
    BY <1>12 DEF ParseRequestLine, ParseHeaders, Taken
  <2>2. bodyCut' = bodyCut
    BY <1>12 DEF ParseRequestLine, ParseHeaders
  <2>3. Words
    BY <1>5, <1>12 DEF ParseRequestLine, ParseHeaders, Taken, Return, Length
  <2>4. linger' \in BOOLEAN
    <3>1. linger' = linger \/ linger' = (linger \/ Text = "keep")
      BY <1>12 DEF ParseRequestLine, ParseHeaders
    <3> QED
      BY <1>6, <3>1
  <2> QED
    BY <1>6, <1>9, <2>1, <2>2, <2>3, <2>4
<1>13. ASSUME ParseContent PROVE Order /\ Words /\ Flags
  <2>1. startLine' = checked /\ checked' = checked /\ linger' = linger /\ bodyCut' = bodyCut
    BY <1>13 DEF ParseContent, Taken
  <2>2. Words
    BY <1>5, <1>13 DEF ParseContent, Taken, Return
  <2>3. CASE HasBody
    <3>1. /\ query' = startLine
          /\ buf' = [i \in DOMAIN buf |-> IF i = startLine + contentLength + 1
                                           THEN "NUL" ELSE buf[i]]
      BY <1>13, <2>3 DEF ParseContent
    <3>2. buf \in Seq(Symbols) /\ buf' \in Seq(Symbols) /\ DOMAIN buf' = DOMAIN buf
      BY <1>1, <3>1 DEF Arrived
    <3>3. Len(buf') = Len(buf)
      <4>1. DOMAIN buf = 1..Len(buf) /\ DOMAIN buf' = 1..Len(buf')
        BY <3>2
      <4> QED
        BY <1>3, <3>2, <4>1
    <3>4. Order
      BY <1>3, <2>1, <3>1, <3>3
    <3> QED
      BY <1>6, <2>1, <2>2, <3>4
  <2>4. CASE ~HasBody
    <3>1. UNCHANGED <<query, buf>>
      BY <1>13, <2>4 DEF ParseContent
    <3> QED
      BY <1>6, <1>9, <2>1, <2>2, <3>1
  <2> QED
    BY <2>3, <2>4
<1>14. Order /\ Words /\ Flags
  BY <1>7, <1>10, <1>11, <1>12, <1>13 DEF ProcessRead
<1>15. startLine' \in 0..checked' /\ checked' \in 0..Len(buf')
  BY <1>1, <1>3, <1>14
<1>16. RequestOK'
  <2>1. trigMode' \in {0, 1} /\ served' \in 0..MaxServed
    BY <1>2 DEF TypeInv, RequestOK
  <2>2. /\ msg' \in Messages /\ left' \in Seq(Symbols) /\ buf' \in Seq(Symbols)
        /\ Len(buf') <= BufferSize
    BY <1>1 DEF Arrived
  <2> HIDE DEF Words, Flags
  <2>3. query' \in -1..BufferSize
    BY <1>14
  <2> HIDE DEF Order
  <2>4. /\ checkState' \in {"requestline", "header", "content"}
        /\ pc' \in {"read", "parse", "text", "answer", "reply", "closed", "done"}
        /\ lineStatus' \in {"ok", "open", "bad"}
        /\ ret' \in {"none", "NO_REQUEST", "BAD_REQUEST", "GET_REQUEST"}
        /\ contentLength' \in {0, BodyLength}
    BY <1>14 DEF Words
  <2>5. linger' \in BOOLEAN /\ bodyCut' \in BOOLEAN
    BY <1>14 DEF Flags
  <2> QED
    BY <1>15, <2>1, <2>2, <2>3, <2>4, <2>5, Zenon DEF RequestOK
<1>17. answers' \in Nat /\ pc' # "reply" /\ answers' <= served' + (IF pc' = "reply" THEN 1 ELSE 0)
  BY <1>2, <1>4, <1>14 DEF TypeInv
<1> QED
  BY <1>2, <1>4, <1>14, <1>16, <1>17 DEF TypeInv

LEMMA TypeStep == TypeInv /\ ReadInv /\ ReadInv' /\ [Next]_vars => TypeInv'
<1> SUFFICES ASSUME TypeInv, ReadInv, ReadInv', [Next]_vars PROVE TypeInv'
  OBVIOUS
<1>1. /\ served \in Nat /\ answers \in Nat /\ (wpc # "rest" => pc = "reply")
      /\ answers <= served + (IF pc = "reply" THEN 1 ELSE 0)
  BY Bounds DEF TypeInv, RequestOK
<1>2. CASE UNCHANGED vars
  BY <1>2 DEF vars, reqVars, clientVars, parserVars, respVars, TypeInv, RequestOK
<1>3. CASE Read
  BY <1>3, ReadTypes DEF Read
<1>4. CASE Process
  <2>1. /\ pc = "answer" /\ pc' = "reply"
        /\ UNCHANGED <<trigMode, msg, left, buf, startLine, checked, checkState, contentLength,
                       linger, query, lineStatus, ret, bodyCut, served>>
        /\ answers' = answers + 1
    BY <1>4 DEF Process, clientVars, parserVars, Resp!DoRequest, Resp!BadRequest, Resp!Begin
  <2>2. answers' \in Nat /\ answers' <= served' + 1
    BY <1>1, <2>1
  <2> QED
    BY <2>1, <2>2 DEF TypeInv, RequestOK
<1>5. ASSUME UNCHANGED reqVars, answers' = answers, wpc # "rest" PROVE TypeInv'
  <2>1. /\ UNCHANGED <<trigMode, msg, left, buf, startLine, checked, checkState, contentLength,
                       linger, query, pc, lineStatus, ret, bodyCut, served>>
    BY <1>5 DEF reqVars, clientVars, parserVars
  <2> QED
    BY <1>1, <1>5, <2>1 DEF TypeInv, RequestOK
<1>6. CASE Reply
  <2>1. wpc # "rest" /\ answers' = answers
    BY <1>6 DEF Reply, Resp!ProcessWrite, Resp!ProcessWriteRefuses, Resp!WriteCalled, Resp!ghosts
  <2> QED
    BY <1>5, <1>6, <2>1 DEF Reply
<1>7. CASE Write
  <2>1. wpc = "writev" /\ answers' = answers
    BY <1>7 DEF Write, Resp!WriteStep, Resp!WritePart, Resp!WriteLast, Resp!Take,
                Resp!WriteAgain, Resp!WriteFails, Resp!ghosts
  <2>2. pc = "reply" /\ pc # "done" /\ wpc # "rest"
    BY <1>1, <2>1
  <2> QED
    BY <1>5, <1>7, <2>1, <2>2, NextRequestTypes DEF Write
<1>8. CASE Reopen
  <2>1. wpc' = "rest" /\ answers' = answers /\ NextRequest /\ pc # "done"
    BY <1>8 DEF Reopen, Resp!Reopened
  <2> QED
    BY <2>1, NextRequestTypes
<1> QED
  BY <1>2, <1>3, <1>4, <1>6, <1>7, <1>8 DEF Next

(* The indices keep their order inside the buffer, nothing is read while   *)
(* an answer is under way, and no request is answered twice.               *)
THEOREM TypesHold == Spec => []TypeOK
<1>1. TypeInv => TypeOK
  BY Bounds DEF TypeInv, TypeOK, RequestOK
<1> QED
  BY <1>1, ReadInit, ReadStep, TypeInit, TypeStep, PTL DEF Spec
=============================================================================
