---------------------------- MODULE LoggerProofs ----------------------------
(***************************************************************************)
(* Proofs about Logger, for every number of threads, lines and days, every *)
(* length of the ring and every length of a file.                          *)
(***************************************************************************)
EXTENDS Logger, SequenceTheorems, TLAPS

(* SleepInv: of the two conditions only one can have sleepers, and which   *)
(* is told by how many slots are taken.                                    *)
SleepInv == /\ size \in Nat
            /\ pc \in [Threads -> {"out", "localtime", "copy", "rotate", "choose", "push",
                               "asleep", "puts"}]
            /\ SleepsForAReason

LEMMA SleepInit == Init => SleepInv
BY DEF Init, SleepInv, SleepsForAReason

LEMMA SleepStep == SleepInv /\ [Next]_vars => SleepInv'
<1> SUFFICES ASSUME SleepInv, [Next]_vars PROVE SleepInv'
  OBVIOUS
<1> USE LoggerAssumption DEF SleepInv, SleepsForAReason, IsFull
<1>1. CASE UNCHANGED vars
  BY <1>1 DEF vars, callerVars, ringVars, writerVars
<1>2. ASSUME NEW t \in Threads, CallerStep(t) PROVE SleepInv'
  <2>1. ASSUME pc'[t] # "asleep", UNCHANGED <<size, wpc>>,
               NEW l \in {"out", "localtime", "copy", "rotate", "choose", "push", "puts"},
               Goto(t, l)
        PROVE  SleepInv'
    BY <2>1 DEF Goto
  <2>2. CASE WriteLog(t) \/ LocalTime(t) \/ CopyTm(t) \/ Rotate(t) \/ Choose(t) \/ Puts(t)
    BY <2>1, <2>2 DEF WriteLog, LocalTime, CopyTm, Rotate, Choose, Puts, Goto, ringVars,
       writerVars
  <2>3. CASE Push(t)
    <3>1. \A u \in Threads : pc'[u] # "asleep"
      BY <2>3 DEF Push, Goto
    <3> QED
      BY <2>3, <3>1 DEF Push, Goto, NotifyEmpty
  <2>4. CASE PushWaits(t)
    BY <2>4 DEF PushWaits, Goto, ringVars, writerVars
  <2> QED
    BY <1>2, <2>2, <2>3, <2>4 DEF CallerStep
<1>3. CASE Pop
  BY <1>3 DEF Pop, NotifyFull
<1>4. CASE PopWaits \/ AsyncPuts
  BY <1>4 DEF PopWaits, AsyncPuts, ringVars, callerVars
<1>5. CASE Spurious
  BY <1>5 DEF Spurious, Goto, ringVars
<1>6. CASE Midnight \/ NullFile
  BY <1>6 DEF Midnight, NullFile, ringVars, callerVars, writerVars
<1> QED
  BY <1>1, <1>2, <1>3, <1>4, <1>5, <1>6 DEF Next, WriterStep

(* No wake-up is lost between the two condition variables of block_queue:  *)
(* a caller sleeps only while the ring is full, the writing thread only    *)
(* while it is empty.                                                      *)
THEOREM NobodySleepsInVain == Spec => []SleepsForAReason
<1>1. SleepInv => SleepsForAReason
  BY DEF SleepInv
<1> QED
  BY <1>1, SleepInit, SleepStep, PTL DEF Spec

-----------------------------------------------------------------------------
(* A file takes SplitLines lines: its number grows only with a count that  *)
(* SplitLines divides.                                                     *)
LEMMA Division ==
  ASSUME NEW k \in Nat, NEW d \in Nat \ {0}
  PROVE  k \div d \in Nat /\ k % d \in 0..(d - 1) /\ k % d = k - d * (k \div d)
<1>1. k \div d \in Nat
  OBVIOUS
<1>2. k % d \in 0..(d - 1)
  OBVIOUS
<1>3. k % d = k - d * (k \div d)
  OBVIOUS
<1> QED
  BY <1>1, <1>2, <1>3

LEMMA SamePart ==
  ASSUME NEW n \in Nat, (n + 1) % SplitLines # 0
  PROVE  (n + 1) \div SplitLines = n \div SplitLines
<1> DEFINE S == SplitLines
           m == n + 1
           q == n \div S
           p == m \div S
<1>1. S \in Nat \ {0} /\ m \in Nat
  BY LoggerAssumption
<1> HIDE DEF m
<1>2. m % S # 0 /\ m = n + 1
  BY DEF m
<1> HIDE DEF S, q, p
<1>3. q \in Nat /\ n % S \in 0..(S - 1) /\ n % S = n - S * q
  BY <1>1, Division DEF q
<1>4. p \in Nat /\ m % S \in 0..(S - 1) /\ m % S = m - S * p
  BY <1>1, Division DEF p
<1>5. /\ q \in Nat /\ p \in Nat
      /\ S * p < S * q + S /\ S * q < S * p + S
  <2> DEFINE x == n % S
             y == m % S
             a == S * q
             b == S * p
  <2>1. /\ x \in 0..(S - 1) /\ y \in 0..(S - 1) /\ y # 0 /\ m = n + 1
        /\ x = n - a /\ y = m - b /\ q \in Nat /\ p \in Nat
    BY <1>2, <1>3, <1>4
  <2>2. a \in Int /\ b \in Int
    BY <1>1, <2>1
  <2> HIDE DEF x, y, a, b
  <2>3. b < a + S /\ a < b + S
    BY <1>1, <2>1, <2>2
  <2> QED
    BY <2>1, <2>3 DEF a, b
<1>6. \A i, j \in Nat : i + 1 <= j => S * i + S <= S * j
  <2>1. \A d, i \in Nat : S * (i + 1 + d) = S * i + S + S * d
    BY <1>1
  <2>2. \A d \in Nat : S * d \in Nat
    BY <1>1
  <2> SUFFICES ASSUME NEW i \in Nat, NEW j \in Nat, i + 1 <= j PROVE S * i + S <= S * j
    OBVIOUS
  <2>3. j - i - 1 \in Nat /\ j = i + 1 + (j - i - 1)
    OBVIOUS
  <2>4. S * j = S * i + S + S * (j - i - 1)
    BY <2>1, <2>3
  <2> QED
    BY <1>1, <2>2, <2>3, <2>4
<1>7. ~(q + 1 <= p) /\ ~(p + 1 <= q)
  BY <1>1, <1>5, <1>6
<1>8. q = p
  BY <1>5, <1>7
<1> QED
  BY <1>8 DEF q, p, m, S

FileInv == /\ count \in Nat
           /\ FileMatchesCount

LEMMA FileStep == FileInv /\ [Next]_vars => FileInv'
<1> SUFFICES ASSUME FileInv, [Next]_vars PROVE FileInv'
  OBVIOUS
<1> USE LoggerAssumption DEF FileInv, FileMatchesCount
<1>2. ASSUME NEW t \in Threads, Rotate(t) PROVE FileInv'
  <2>1. /\ today' = MDay(stamp[t]) /\ count' = IF OtherDay(t) THEN 0 ELSE count + 1
        /\ IF Reopens(t) THEN fp' \in {NewLog(t), None} ELSE fp' = fp
    BY <1>2 DEF Rotate, NewDay
  <2>2. count' \in Nat /\ 0 \div SplitLines = 0
    BY <2>1
  <2>3. CASE OtherDay(t)
    <3>1. fp' # None => fp' = [day |-> stamp[t], part |-> 0]
      BY <2>1, <2>3 DEF Reopens, NewLog
    <3> QED
      BY <2>1, <2>2, <2>3, <3>1
  <2>4. CASE ~OtherDay(t)
    <3>1. today' = today /\ count' = count + 1
      BY <2>1, <2>4 DEF OtherDay
    <3>2. CASE count' % SplitLines = 0
      <4>1. fp' # None => fp' = [day |-> stamp[t], part |-> count' \div SplitLines]
        BY <2>1, <2>4, <3>1, <3>2 DEF Reopens, NewLog
      <4> QED
        BY <2>1, <2>2, <4>1
    <3>3. CASE count' % SplitLines # 0
      <4>1. count' \div SplitLines = count \div SplitLines
        BY <3>1, <3>3, SamePart
      <4>2. fp' = fp
        BY <2>1, <2>4, <3>1, <3>3 DEF Reopens
      <4> QED
        BY <2>2, <3>1, <4>1, <4>2
    <3> QED
      BY <3>2, <3>3
  <2> QED
    BY <2>3, <2>4
<1>3. ASSUME count' = count, today' = today, fp' = fp PROVE FileInv'
  BY <1>3
<1>4. CASE UNCHANGED vars \/ WriterStep \/ Spurious \/ Midnight \/ NullFile
  BY <1>3, <1>4 DEF vars, fileVars, WriterStep, Pop, PopWaits, AsyncPuts, Spurious, Midnight,
                    NullFile
<1>5. ASSUME NEW t \in Threads, CallerStep(t), ~Rotate(t) PROVE FileInv'
  BY <1>3, <1>5 DEF fileVars, CallerStep, WriteLog, LocalTime, CopyTm, Choose, Push, PushWaits,
                    Puts
<1> QED
  BY <1>2, <1>4, <1>5 DEF Next

(* The open log file is the one the day and the count of lines call for,   *)
(* whichever date a caller copied, as long as files can be opened.         *)
THEOREM RightFileOpen == Spec => []FileMatchesCount
<1>1. Init => FileInv
  <2>1. 0 \div SplitLines = 0
    BY LoggerAssumption
  <2> QED
    BY <2>1 DEF Init, FileInv, FileMatchesCount
<1>2. FileInv => FileMatchesCount
  BY DEF FileInv
<1> QED
  BY <1>1, <1>2, FileStep, PTL DEF Spec

-----------------------------------------------------------------------------
(* The ring.  Round(x) is x % MaxSize for the sums of the code: an end of  *)
(* the ring, or -1, and a number of slots.                                 *)
Round(x) == IF x < MaxSize THEN x ELSE IF x < 2 * MaxSize THEN x - MaxSize ELSE x - 2 * MaxSize

LEMMA RoundIsModulo ==
  ASSUME NEW x \in 0..(2 * MaxSize)
  PROVE  x % MaxSize = Round(x)
<1> DEFINE M == MaxSize
           q == x \div M
<1>1. M \in Nat /\ M > 0 /\ x \in Nat /\ x <= 2 * M
  BY LoggerAssumption
<1>2. q \in Nat /\ x % M \in 0..(M - 1) /\ x % M = x - M * q
  BY <1>1, Division
<1> HIDE DEF M, q
<1>3. CASE q = 0
  BY <1>1, <1>2, <1>3 DEF Round, M
<1>4. CASE q = 1
  BY <1>1, <1>2, <1>4 DEF Round, M
<1>5. CASE q = 2
  BY <1>1, <1>2, <1>5 DEF Round, M
<1>6. CASE q >= 3
  <2>1. M * (q - 3) \in Nat
    BY <1>1, <1>2, <1>6
  <2>2. M * q = M * (q - 3) + 3 * M
    BY <1>1, <1>2, <1>6
  <2> QED
    BY <1>1, <1>2, <2>1, <2>2
<1> QED
  BY <1>2, <1>3, <1>4, <1>5, <1>6

LEMMA AppendIs ==
  ASSUME NEW n \in Nat, NEW s, s = [i \in 1..n |-> s[i]], NEW e
  PROVE  Append(s, e) = [i \in 1..(n + 1) |-> IF i = n + 1 THEN e ELSE s[i]]
<1> DEFINE S == {s[i] : i \in 1..n} \union {e}
           long == [i \in 1..(n + 1) |-> IF i = n + 1 THEN e ELSE s[i]]
<1>0. /\ DOMAIN s = 1..n /\ \A i \in 1..n : s[i] \in S
      /\ DOMAIN long = 1..(n + 1) /\ \A i \in 1..(n + 1) : long[i] \in S
  OBVIOUS
<1>1. s \in Seq(S) /\ Len(s) = n /\ long \in Seq(S) /\ Len(long) = n + 1
  <2>1. s \in [1..n -> S] /\ long \in [1..(n + 1) -> S]
    BY <1>0
  <2> HIDE DEF S, long
  <2> QED
    BY <2>1
<1>2. /\ Append(s, e) \in Seq(S) /\ Len(Append(s, e)) = n + 1
      /\ \A i \in 1..n : Append(s, e)[i] = s[i]
      /\ Append(s, e)[n + 1] = e
  BY <1>1, AppendProperties
<1>3. \A i \in 1..(n + 1) : Append(s, e)[i] = long[i]
  BY <1>2
<1> HIDE DEF long, S
<1> QED
  BY <1>1, <1>2, <1>3, SeqEqual DEF long

LEMMA TailIs ==
  ASSUME NEW n \in Nat \ {0}, NEW s, s = [i \in 1..n |-> s[i]]
  PROVE  /\ s # << >> /\ Head(s) = s[1]
         /\ Tail(s) = [i \in 1..(n - 1) |-> s[i + 1]]
<1> DEFINE S == {s[i] : i \in 1..n}
           rest == [i \in 1..(n - 1) |-> s[i + 1]]
<1>1. s \in Seq(S) /\ Len(s) = n
  OBVIOUS
<1>2. rest \in Seq(S) /\ Len(rest) = n - 1
  <2>1. rest \in [1..(n - 1) -> S] /\ n - 1 \in Nat
    OBVIOUS
  <2> HIDE DEF S, rest
  <2> QED
    BY <2>1
<1>3. s # << >> /\ Head(s) = s[1]
  BY <1>1
<1>4. /\ Tail(s) \in Seq(S) /\ Len(Tail(s)) = n - 1
      /\ \A i \in 1..(n - 1) : Tail(s)[i] = s[i + 1]
  BY <1>1, <1>3, HeadTailProperties
<1>5. \A i \in 1..(n - 1) : Tail(s)[i] = rest[i]
  BY <1>4
<1> HIDE DEF rest, S
<1> QED
  BY <1>2, <1>3, <1>4, <1>5, SeqEqual DEF rest

(* The ring between its two ends: the slot behind back is size + 1 slots   *)
(* behind front.                                                           *)
RingEnds == /\ size \in 0..MaxSize
            /\ front \in -1..(MaxSize - 1) /\ back \in -1..(MaxSize - 1)
            /\ After(back) = Round(front + size + 1)
            /\ DOMAIN array = Slots

LEMMA SlotIs ==
  ASSUME NEW f \in -1..(MaxSize - 1), NEW n \in 0..MaxSize
  PROVE  \A i \in 1..n : (f + i) % MaxSize = Round(f + i)
<1> SUFFICES ASSUME NEW i \in 1..n PROVE (f + i) % MaxSize = Round(f + i)
  OBVIOUS
<1>1. f + i \in 0..(2 * MaxSize)
  BY LoggerAssumption
<1> QED
  BY <1>1, RoundIsModulo

LEMMA RingIs ==
  ASSUME RingEnds
  PROVE  /\ Ring = [i \in 1..size |-> array[Round(front + i)]]
         /\ DOMAIN Ring = 1..size
         /\ \A i \in 1..size : Ring[i] = array[Round(front + i)]
  BY SlotIs DEF Ring, RingEnds

LEMMA AfterIs ==
  ASSUME NEW i \in -1..(MaxSize - 1)
  PROVE  After(i) = Round(i + 1) /\ After(i) \in Slots
<1>1. i + 1 \in 0..(2 * MaxSize) /\ MaxSize \in Nat \ {0}
  BY LoggerAssumption
<1>2. After(i) = Round(i + 1)
  BY <1>1, RoundIsModulo DEF After
<1> QED
  BY <1>1, <1>2 DEF Round, Slots

-----------------------------------------------------------------------------
(* Where the lines are.  A caller's line is the newest of its thread; all  *)
(* lines that have left their callers are apart: in the ring, each at one  *)
(* place, or in the writing thread's hand, or in a file.                   *)
Asking == {t \in Threads : pc[t] # "out"}
Asked == {Line(t) : t \in Asking}
Gone == {l \in Lines : l[2] <= logged[l[1]] /\ (l[1] \in Asking => l[2] # logged[l[1]])}

Counted == /\ logged \in [Threads -> 0..MaxLines]
           /\ \A t \in Asking : logged[t] > 0

LinesApart ==
  /\ filed \subseteq Gone
  /\ \A i \in 1..size : Ring[i] \in Gone \ filed /\ Ring[i] # singleLog
  /\ \A i, j \in 1..size : Ring[i] = Ring[j] => i = j
  /\ singleLog \in {None} \union (Gone \ filed)
  /\ wpc = "puts" <=> singleLog # None

PlaceInv == SleepInv /\ RingEnds /\ Counted /\ LinesApart

LEMMA LineFacts ==
  ASSUME Counted
  PROVE  /\ \A t \in Asking : Line(t) \in Lines \ Gone
         /\ \A t, u \in Threads : Line(t) = Line(u) => t = u
         /\ None \notin Lines
<1>1. ASSUME NEW t \in Asking PROVE Line(t) \in Lines \ Gone
  <2>1. t \in Threads /\ logged[t] \in 1..MaxLines
    BY <1>1, LoggerAssumption DEF Counted, Asking
  <2>2. Line(t) \in Lines /\ Line(t)[1] = t /\ Line(t)[2] = logged[t]
    BY <2>1 DEF Line, Lines
  <2> QED
    BY <1>1, <2>2 DEF Gone
<1> QED
  BY <1>1, LoggerAssumption DEF Line, Lines

LEMMA PlaceInit == Init => PlaceInv
<1> SUFFICES ASSUME Init PROVE PlaceInv
  OBVIOUS
<1>1. SleepInv
  BY SleepInit
<1>2. size = 0 /\ front = -1 /\ back = -1 /\ array = [i \in Slots |-> None]
  BY DEF Init
<1>3. RingEnds
  <2>1. After(-1) = Round(0) /\ MaxSize \in Nat \ {0}
    BY AfterIs, LoggerAssumption
  <2> QED
    BY <1>2, <2>1 DEF RingEnds
<1>4. Counted
  BY LoggerAssumption DEF Init, Counted, Asking
<1>5. LinesApart
  BY <1>2 DEF Init, LinesApart
<1> QED
  BY <1>1, <1>3, <1>4, <1>5 DEF PlaceInv
(* What becomes of the callers' lines when one of them begins to log, when *)
(* none of them comes or goes, and when one of them is done.               *)
LEMMA CallerComes ==
  ASSUME SleepInv, Counted, NEW t \in Threads, WriteLog(t)
  PROVE  /\ Asked' = Asked \union {Line(t)'} /\ Gone' = Gone
         /\ Counted' /\ Line(t)' \in Lines \ (Asked \union Gone)
<1>1. /\ t \notin Asking /\ Asking' = Asking \union {t}
      /\ logged' = [logged EXCEPT ![t] = @ + 1] /\ logged[t] < MaxLines
      /\ logged[t] \in Nat
  BY LoggerAssumption DEF WriteLog, Goto, Asking, Counted, SleepInv
<1>2. Counted'
  BY <1>1, LoggerAssumption DEF Counted
<1>3. Line(t)' = <<t, logged[t] + 1>> /\ \A u \in Asking : Line(u)' = Line(u)
  BY <1>1 DEF Line, Counted, Asking
<1>4. Asked' = Asked \union {Line(t)'}
  BY <1>1, <1>3 DEF Asked
<1>5. ASSUME NEW l \in Lines PROVE l \in Gone' <=> l \in Gone
  <2>1. l[1] \in Threads /\ l[2] \in 1..MaxLines
    BY <1>5 DEF Lines
  <2>2. CASE l[1] = t
    BY <1>1, <1>5, <2>1, <2>2, LoggerAssumption DEF Gone, Counted
  <2>3. CASE l[1] # t
    BY <1>1, <1>5, <2>1, <2>3 DEF Gone, Counted
  <2> QED
    BY <2>2, <2>3
<1>6. Gone' = Gone
  BY <1>5 DEF Gone
<1>7. Line(t)' \in Lines
  BY <1>1, <1>3, LoggerAssumption DEF Lines
<1>8. Line(t)' \notin Asked
  BY <1>1, <1>3 DEF Asked, Line, Asking
<1>9. Line(t)' \notin Gone
  BY <1>1, <1>3 DEF Gone
<1> QED
  BY <1>2, <1>4, <1>6, <1>7, <1>8, <1>9

LEMMA CallersStay ==
  ASSUME Counted, UNCHANGED logged, Asking' = Asking
  PROVE  Asked' = Asked /\ Gone' = Gone /\ Counted'
<1>1. \A u \in Threads : Line(u)' = Line(u)
  BY DEF Line
<1> QED
  BY <1>1 DEF Asked, Gone, Counted, Asking

LEMMA CallerLeaves ==
  ASSUME Counted, NEW t \in Asking, UNCHANGED logged, Asking' = Asking \ {t}
  PROVE  /\ Asked' = Asked \ {Line(t)} /\ Gone' = Gone \union {Line(t)}
         /\ Counted' /\ Line(t) \in (Asked \intersect Lines) \ Gone
<1>1. \A u \in Threads : Line(u)' = Line(u)
  BY DEF Line
<1>2. Line(t) \in Lines \ Gone /\ t \in Threads /\ logged[t] \in 1..MaxLines
  BY LineFacts, LoggerAssumption DEF Asking, Counted
<1>3. Asked' = Asked \ {Line(t)}
  BY <1>1, LineFacts DEF Asked, Asking
<1>4. ASSUME NEW l \in Lines PROVE l \in Gone' <=> l \in Gone \/ l = Line(t)
  <2>1. /\ l = <<l[1], l[2]>> /\ l[1] \in Threads /\ l[2] \in 1..MaxLines
        /\ l = Line(t) <=> l[1] = t /\ l[2] = logged[t]
    BY <1>4 DEF Lines, Line
  <2>2. CASE l[1] = t
    BY <1>2, <2>1, <2>2, LoggerAssumption DEF Gone
  <2>3. CASE l[1] # t
    BY <2>1, <2>3 DEF Gone
  <2> QED
    BY <2>2, <2>3
<1>5. Gone' = Gone \union {Line(t)}
  BY <1>2, <1>4 DEF Gone
<1> QED
  BY <1>2, <1>3, <1>5 DEF Asked, Counted

(* What push and pop do to the lines in the ring.                          *)
LEMMA PushAppends ==
  ASSUME RingEnds, NEW t \in Threads, Push(t)
  PROVE  RingEnds' /\ Ring' = Append(Ring, Line(t)) /\ size' = size + 1
<1>1. /\ size' = size + 1 /\ size < MaxSize /\ front' = front /\ back' = After(back)
      /\ array' = [array EXCEPT ![After(back)] = Line(t)]
  BY LoggerAssumption DEF Push, IsFull, RingEnds
<1>2. After(back) = Round(front + size + 1) /\ After(back) \in Slots
  BY AfterIs DEF RingEnds
<1>3. After(back') = Round(front' + size' + 1)
  <2>1. back' \in -1..(MaxSize - 1) /\ MaxSize \in Nat \ {0}
    BY <1>1, <1>2, LoggerAssumption DEF Slots
  <2>2. After(back') = Round(back' + 1)
    BY <2>1, AfterIs
  <2> QED
    BY <1>1, <1>2, <2>1, <2>2 DEF Round, RingEnds
<1>4. RingEnds'
  BY <1>1, <1>2, <1>3, LoggerAssumption DEF RingEnds, Slots, After
<1>5. \A i \in 1..size : Round(front + i) # After(back)
  BY <1>1, <1>2, LoggerAssumption DEF Round, RingEnds
<1>6. \A i \in 1..size : Round(front + i) \in Slots
  BY LoggerAssumption DEF Round, RingEnds, Slots
<1>7. /\ Ring' = [i \in 1..(size + 1) |-> array'[Round(front + i)]]
  <2>1. Ring' = [i \in 1..size' |-> array'[Round(front' + i)]]
    BY <1>4, SlotIs DEF RingEnds, Ring
  <2> QED
    BY <1>1, <2>1
<1>8. \A i \in 1..size : array'[Round(front + i)] = Ring[i]
  BY <1>1, <1>5, <1>6, RingIs DEF RingEnds
<1>9. array'[Round(front + (size + 1))] = Line(t)
  <2>1. Round(front + (size + 1)) = After(back)
    BY <1>2 DEF RingEnds
  <2> QED
    BY <1>1, <1>2, <2>1 DEF RingEnds
<1> QED
  <2>1. size \in Nat
    BY DEF RingEnds
  <2>2. Append(Ring, Line(t)) =
           [i \in 1..(size + 1) |-> IF i = size + 1 THEN Line(t) ELSE Ring[i]]
    BY <2>1, AppendIs DEF Ring
  <2>3. \A i \in 1..(size + 1) :
          array'[Round(front + i)] = IF i = size + 1 THEN Line(t) ELSE Ring[i]
    BY <1>8, <1>9, <2>1
  <2> QED
    BY <1>1, <1>4, <1>7, <2>2, <2>3
LEMMA PopTakesFirst ==
  ASSUME RingEnds, Pop
  PROVE  /\ RingEnds' /\ size' = size - 1 /\ size > 0
         /\ Ring # << >> /\ singleLog' = Head(Ring) /\ Ring' = Tail(Ring)
         /\ \A i \in 1..size' : Ring'[i] = Ring[i + 1]
         /\ singleLog' = Ring[1]
<1>1. /\ size' = size - 1 /\ size \in 1..MaxSize /\ front' = After(front) /\ back' = back
      /\ array' = array /\ singleLog' = array[After(front)]
  BY LoggerAssumption DEF Pop, RingEnds, Taken
<1>2. After(front) = Round(front + 1) /\ After(front) \in Slots
  BY AfterIs DEF RingEnds
<1>3. RingEnds'
  <2>1. After(back') = Round(front + size + 1)
    BY <1>1 DEF RingEnds
  <2>2. Round(front' + size' + 1) = Round(front + size + 1) /\ front' \in -1..(MaxSize - 1)
    BY <1>1, <1>2, LoggerAssumption DEF RingEnds, Slots, Round
  <2>3. size' \in 0..MaxSize
    BY <1>1, LoggerAssumption
  <2> QED
    BY <1>1, <2>1, <2>2, <2>3 DEF RingEnds
<1>4. Ring' = [i \in 1..(size - 1) |-> array[Round(front' + i)]]
  <2>1. Ring' = [i \in 1..size' |-> array'[Round(front' + i)]]
    BY <1>3, SlotIs DEF RingEnds, Ring
  <2> QED
    BY <1>1, <2>1
<1>5. \A i \in 1..(size - 1) : Round(front' + i) = Round(front + (i + 1))
  BY <1>1, <1>2, LoggerAssumption DEF Round, RingEnds
<1>6. \A i \in 1..(size - 1) : array[Round(front' + i)] = Ring[i + 1]
  <2>1. \A i \in 1..(size - 1) : i + 1 \in 1..size
    BY <1>1
  <2> QED
    BY <1>5, <2>1, RingIs
<1>7. singleLog' = Ring[1]
  <2>1. 1 \in 1..size
    BY <1>1
  <2> QED
    BY <1>1, <1>2, <2>1, RingIs
<1>8. size \in Nat \ {0} /\ Ring = [i \in 1..size |-> Ring[i]]
  BY <1>1 DEF Ring
<1>9. /\ Ring # << >> /\ Head(Ring) = Ring[1]
      /\ Tail(Ring) = [i \in 1..(size - 1) |-> Ring[i + 1]]
  BY <1>8, TailIs
<1>10. Ring' = [i \in 1..(size - 1) |-> Ring[i + 1]]
  BY <1>4, <1>6
<1> QED
  BY <1>1, <1>3, <1>7, <1>9, <1>10
LEMMA RingStays == ASSUME RingEnds, UNCHANGED ringVars PROVE RingEnds' /\ Ring' = Ring /\ size' = size
  BY DEF ringVars, RingEnds, Ring, After

-----------------------------------------------------------------------------
(* What LogLines sees of a state, and of a step.                           *)
absVars == <<Asked, Ring, singleLog, filed>>

LEMMA AbstractVars == Abstract!lvars = absVars
  BY DEF Abstract!lvars, absVars, Asked, Asking

(* One step of Logger keeps PlaceInv and is one of LogLines or none.       *)
Maps == PlaceInv' /\ (Abstract!Next \/ UNCHANGED absVars)

LEMMA CallerMaps ==
  ASSUME PlaceInv, SleepInv', NEW t \in Threads, CallerStep(t)
  PROVE  Maps
<1>1. SleepInv /\ RingEnds /\ Counted /\ LinesApart
  BY DEF PlaceInv
<1>2. Lines # {} => None \notin Lines
  BY <1>1, LineFacts
<1>3. CASE WriteLog(t)
  <2>1. /\ Asked' = Asked \union {Line(t)'} /\ Gone' = Gone
        /\ Counted' /\ Line(t)' \in Lines \ (Asked \union Gone)
    BY <1>1, <1>3, CallerComes
  <2>2. UNCHANGED <<ringVars, singleLog, filed, wpc>>
    BY <1>3 DEF WriteLog, writerVars
  <2>3. RingEnds' /\ Ring' = Ring /\ size' = size
    BY <1>1, <2>2, RingStays
  <2>4. LinesApart'
    BY <1>1, <2>1, <2>2, <2>3 DEF LinesApart
  <2>5. PICK l \in Lines : l = Line(t)' /\ l \notin Asked \union filed
    BY <1>1, <2>1 DEF LinesApart
  <2>6. Abstract!Ask(l)
    BY <2>1, <2>2, <2>3, <2>5 DEF Abstract!Ask, Asked, Asking
  <2> QED
    BY <1>1, <2>1, <2>3, <2>4, <2>6 DEF Maps, PlaceInv, Abstract!Next
<1>4. CASE LocalTime(t) \/ CopyTm(t) \/ Rotate(t) \/ Choose(t) \/ PushWaits(t)
  <2>1. UNCHANGED <<logged, ringVars, singleLog, filed, wpc>> /\ Asking' = Asking
    BY <1>1, <1>4 DEF LocalTime, CopyTm, Rotate, Choose, PushWaits, writerVars, Asking, Goto,
                      SleepInv
  <2>2. Asked' = Asked /\ Gone' = Gone /\ Counted'
    BY <1>1, <2>1, CallersStay
  <2>3. RingEnds' /\ Ring' = Ring /\ size' = size
    BY <1>1, <2>1, RingStays
  <2>4. LinesApart'
    BY <1>1, <2>1, <2>2, <2>3 DEF LinesApart
  <2> QED
    BY <1>1, <2>1, <2>2, <2>3, <2>4 DEF Maps, PlaceInv, absVars
<1>5. CASE Push(t)
  <2>1. UNCHANGED <<logged, singleLog, filed>> /\ Asking' = Asking \ {t} /\ t \in Asking
    BY <1>1, <1>5 DEF Push, Asking, Goto, SleepInv
  <2>2. /\ Asked' = Asked \ {Line(t)} /\ Gone' = Gone \union {Line(t)}
        /\ Counted' /\ Line(t) \in (Asked \intersect Lines) \ Gone
    BY <1>1, <2>1, CallerLeaves
  <2>3. RingEnds' /\ Ring' = Append(Ring, Line(t)) /\ size' = size + 1 /\ size \in Nat
    BY <1>1, <1>5, PushAppends DEF RingEnds
  <2>4. wpc' = "puts" <=> wpc = "puts"
    BY <1>5 DEF Push, NotifyEmpty
  <2>5. /\ \A i \in 1..size : Ring'[i] = Ring[i]
        /\ Ring'[size + 1] = Line(t)
    <3>1. Append(Ring, Line(t)) =
            [i \in 1..(size + 1) |-> IF i = size + 1 THEN Line(t) ELSE Ring[i]]
      BY <2>3, AppendIs DEF Ring
    <3> QED
      BY <2>3, <3>1
  <2>6. \A i \in 1..size' : i \in 1..size \/ i = size + 1
    BY <2>3
  <2>7. LinesApart'
    <3>1. \A i \in 1..size' : Ring'[i] \in Gone' \ filed' /\ Ring'[i] # singleLog'
      BY <1>1, <1>2, <2>1, <2>2, <2>5, <2>6 DEF LinesApart
    <3>2. \A i, j \in 1..size' : Ring'[i] = Ring'[j] => i = j
      BY <1>1, <2>2, <2>5, <2>6 DEF LinesApart
    <3> QED
      BY <1>1, <2>1, <2>2, <2>4, <3>1, <3>2 DEF LinesApart
  <2>8. PICK l \in Lines : l = Line(t) /\ l \in Asked
    BY <2>2
  <2>9. Len(Ring) < MaxSize
    BY <1>1, <1>5, LoggerAssumption, <2>3 DEF Push, IsFull, Ring, RingEnds
  <2>10. Abstract!Queue(l)
    BY <2>1, <2>2, <2>3, <2>8, <2>9 DEF Abstract!Queue, Asked, Asking
  <2> QED
    BY <1>1, <2>2, <2>3, <2>7, <2>10 DEF Maps, PlaceInv, Abstract!Next
<1>6. CASE Puts(t)
  <2>1. /\ UNCHANGED <<logged, singleLog, ringVars, wpc>> /\ filed' = filed \union {Line(t)}
        /\ Asking' = Asking \ {t} /\ t \in Asking
    BY <1>1, <1>6 DEF Puts, Asking, Goto, SleepInv, writerVars
  <2>2. /\ Asked' = Asked \ {Line(t)} /\ Gone' = Gone \union {Line(t)}
        /\ Counted' /\ Line(t) \in (Asked \intersect Lines) \ Gone
    BY <1>1, <2>1, CallerLeaves
  <2>3. RingEnds' /\ Ring' = Ring /\ size' = size
    BY <1>1, <2>1, RingStays
  <2>4. LinesApart'
    BY <1>1, <2>1, <2>2, <2>3 DEF LinesApart
  <2>5. PICK l \in Lines : l = Line(t) /\ l \in Asked
    BY <2>2
  <2>6. Abstract!FileDirectly(l)
    BY <2>1, <2>2, <2>3, <2>5 DEF Abstract!FileDirectly, Asked, Asking
  <2> QED
    BY <1>1, <2>2, <2>3, <2>4, <2>6 DEF Maps, PlaceInv, Abstract!Next
<1> QED
  BY <1>3, <1>4, <1>5, <1>6 DEF CallerStep

LEMMA OthersMap ==
  ASSUME PlaceInv, SleepInv', WriterStep \/ Spurious \/ Midnight \/ NullFile \/ UNCHANGED vars
  PROVE  Maps
<1>1. SleepInv /\ RingEnds /\ Counted /\ LinesApart
  BY DEF PlaceInv
<1>2. UNCHANGED logged /\ Asking' = Asking
  BY <1>1 DEF WriterStep, Pop, PopWaits, AsyncPuts, NotifyFull, Spurious, Goto, Midnight,
              NullFile, vars, callerVars, Asking, SleepInv
<1>3. Asked' = Asked /\ Gone' = Gone /\ Counted'
  BY <1>1, <1>2, CallersStay
<1>4. CASE Pop
  <2>1. /\ RingEnds' /\ size' = size - 1 /\ size > 0 /\ size \in Nat
        /\ Ring # << >> /\ singleLog' = Head(Ring) /\ Ring' = Tail(Ring)
        /\ \A i \in 1..size' : Ring'[i] = Ring[i + 1]
        /\ singleLog' = Ring[1]
    <3>1. RingEnds /\ Pop
      BY <1>1, <1>4
    <3>2. size \in Nat
      BY <1>1 DEF SleepInv
    <3> QED
      BY <3>1, <3>2, PopTakesFirst
  <2>2. UNCHANGED filed /\ wpc = "pop" /\ wpc' = "puts" /\ 1 \in 1..size
    <3>1. 1 \in 1..size
      BY <2>1
    <3> QED
      BY <1>4, <3>1, Zenon DEF Pop
  <2>3. singleLog = None /\ singleLog' \in Gone \ filed /\ singleLog' # None
    BY <1>1, <2>1, <2>2, LineFacts DEF LinesApart, Gone
  <2>4. \A i \in 1..size' : i + 1 \in 1..size /\ i + 1 # 1
    BY <2>1
  <2>5. LinesApart'
    <3>1. \A i \in 1..size' : Ring'[i] \in Gone' \ filed' /\ Ring'[i] # singleLog'
      BY <1>1, <1>3, <2>1, <2>2, <2>4 DEF LinesApart
    <3>2. \A i, j \in 1..size' : Ring'[i] = Ring'[j] => i = j
      <4> SUFFICES ASSUME NEW i \in 1..size', NEW j \in 1..size', Ring'[i] = Ring'[j]
                   PROVE  i = j
        OBVIOUS
      <4>1. i + 1 \in 1..size /\ j + 1 \in 1..size /\ Ring[i + 1] = Ring[j + 1]
        BY <2>1, <2>4
      <4>2. i + 1 = j + 1
        BY <1>1, <4>1 DEF LinesApart
      <4> QED
        BY <2>1, <4>2
    <3> QED
      BY <1>1, <1>3, <2>2, <2>3, <3>1, <3>2 DEF LinesApart
  <2>6. Abstract!Take
    BY <1>3, <2>1, <2>2, <2>3 DEF Abstract!Take, Asked, Asking
  <2> QED
    BY <1>3, <2>1, <2>5, <2>6 DEF Maps, PlaceInv, Abstract!Next
<1>5. CASE AsyncPuts
  <2>1. /\ UNCHANGED ringVars /\ wpc = "puts" /\ wpc' = "pop"
        /\ filed' = filed \union {singleLog} /\ singleLog' = None
    BY <1>5 DEF AsyncPuts
  <2>2. RingEnds' /\ Ring' = Ring /\ size' = size
    BY <1>1, <2>1, RingStays
  <2>3. singleLog # None /\ singleLog \in Gone \ filed
    BY <1>1, <2>1 DEF LinesApart
  <2>4. LinesApart'
    <3>1. \A i \in 1..size : Ring[i] # None
      BY <1>1, LineFacts DEF LinesApart, Gone
    <3> QED
      BY <1>1, <1>3, <2>1, <2>2, <2>3, <3>1 DEF LinesApart
  <2>5. Abstract!File
    BY <1>3, <2>1, <2>2, <2>3 DEF Abstract!File, Asked, Asking
  <2> QED
    BY <1>3, <2>2, <2>4, <2>5 DEF Maps, PlaceInv, Abstract!Next
<1>6. CASE PopWaits \/ Spurious \/ Midnight \/ NullFile \/ UNCHANGED vars
  <2>1. UNCHANGED <<ringVars, singleLog, filed>> /\ (wpc' = "puts" <=> wpc = "puts")
    BY <1>6 DEF PopWaits, Spurious, Midnight, NullFile, vars, writerVars
  <2>2. RingEnds' /\ Ring' = Ring /\ size' = size
    BY <1>1, <2>1, RingStays
  <2>3. LinesApart'
    BY <1>1, <1>3, <2>1, <2>2 DEF LinesApart
  <2> QED
    BY <1>3, <2>1, <2>2, <2>3 DEF Maps, PlaceInv, absVars
<1> QED
  BY <1>4, <1>5, <1>6 DEF WriterStep

LEMMA StepMaps == PlaceInv /\ [Next]_vars => PlaceInv' /\ [Abstract!Next]_(Abstract!lvars)
<1> SUFFICES ASSUME PlaceInv, [Next]_vars PROVE PlaceInv' /\ [Abstract!Next]_(Abstract!lvars)
  OBVIOUS
<1>1. SleepInv'
  BY SleepStep DEF PlaceInv
<1>2. Maps
  BY <1>1, CallerMaps, OthersMap DEF Next
<1>3. UNCHANGED absVars => UNCHANGED Abstract!lvars
  BY DEF absVars, Abstract!lvars, Asked, Asking
<1> QED
  BY <1>2, <1>3 DEF Maps

(* The ring, its two ends and the writing thread lose, repeat and reorder  *)
(* no line: Logger implements LogLines, whatever the number of callers and *)
(* slots.                                                                  *)
THEOREM RingImplementsLogLines == Spec => ImplementsLogLines
<1>1. Init => Abstract!Init
  <2> SUFFICES ASSUME Init PROVE Abstract!Init
    OBVIOUS
  <2>1. \A t \in Threads : pc[t] = "out"
    BY DEF Init
  <2>2. Ring = << >>
    BY DEF Init, Ring
  <2> QED
    BY <2>1, <2>2 DEF Init, Abstract!Init
<1> QED
  BY <1>1, PlaceInit, StepMaps, PTL DEF Spec, ImplementsLogLines, Abstract!Spec
=============================================================================
