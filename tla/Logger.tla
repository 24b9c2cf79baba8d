------------------------------- MODULE Logger -------------------------------
(***************************************************************************)
(* The log, bin/log: write_log, called by every thread; the ring of lines  *)
(* (block_queue) between the callers and the writing thread; and the files *)
(* it starts anew each day and every SplitLines lines.                     *)
(*                                                                         *)
(* A section of code between lock and unlock of lock_write, or under the   *)
(* queue's mutex, is one action: it waits for nothing inside, and what it  *)
(* touches (m_count, m_today, m_fp, m_buf; the ring) nobody touches        *)
(* without that lock.  The date is not under it: localtime keeps it in one *)
(* place for all threads, from where each copies it.                       *)
(*                                                                         *)
(* flush() and the text of a line are left out.  What a line says is not   *)
(* what its caller gave anyway: WriteLog hands write_log a va_list it has  *)
(* not started (log.h:48).                                                 *)
(***************************************************************************)
EXTENDS Integers, Sequences, FiniteSets

CONSTANTS Threads,      \* the event loop and the workers
          MaxSize,      \* slots of the ring
          SplitLines,   \* m_split_lines
          MaxLines,     \* bound: lines each thread logs
          MaxDay,       \* bound: days the run lasts
          MonthDays,    \* days of a month
          None

ASSUME LoggerAssumption ==
         /\ IsFiniteSet(Threads)
         /\ MaxSize \in Nat \ {0} /\ SplitLines \in Nat \ {0}
         /\ MaxLines \in Nat /\ MaxDay \in Nat /\ MonthDays \in Nat \ {0}
         /\ None \notin Threads \X (1..MaxLines)

VARIABLES isAsync,              \* m_is_async: is there a ring and a thread?
          day, tm,              \* what gettimeofday says, localtime's buffer
          count, today, fp,     \* m_count, m_today, the file m_fp is open on,
                                \* or None
          crashed,              \* a null m_fp was used
          array, front, back, size,      \* the ring
          pc, logged, stamp,    \* per thread: where it is in write_log, the
                                \* lines it has begun, the day in its now,
                                \* and then in its my_tm
          wpc, singleLog,       \* the writing thread and its single_log
          filed                 \* lines that fputs was called for

clockVars == <<day, tm>>
fileVars == <<count, today, fp, crashed>>
ringVars == <<array, front, back, size>>
callerVars == <<pc, logged, stamp>>
writerVars == <<wpc, singleLog>>
vars == <<isAsync, clockVars, fileVars, ringVars, callerVars, writerVars, filed>>

Slots == 0..(MaxSize - 1)

(* m_today is the day of the month only; the name of a file has the date.  *)
MDay(date) == date % MonthDays

(* init() opens the first file, and goes on when it cannot.                *)
Init == /\ isAsync \in BOOLEAN
        /\ day = 0 /\ tm = 0
        /\ count = 0 /\ today = MDay(0)
        /\ fp \in {[day |-> 0, part |-> 0], None} /\ crashed = FALSE
        /\ array = [i \in Slots |-> None]
        /\ front = -1 /\ back = -1 /\ size = 0
        /\ pc = [t \in Threads |-> "out"]
        /\ logged = [t \in Threads |-> 0]
        /\ stamp = [t \in Threads |-> 0]
        /\ wpc = IF isAsync THEN "pop" ELSE "none"
        /\ singleLog = None
        /\ filed = {}

Line(t) == <<t, logged[t]>>
Goto(t, l) == pc' = [pc EXCEPT ![t] = l]

-----------------------------------------------------------------------------
(***************************************************************************)
(* write_log, and block_queue's full() and push().                         *)
(***************************************************************************)
WriteLog(t) ==
  /\ pc[t] = "out" /\ logged[t] < MaxLines
  /\ Goto(t, "localtime")
  /\ logged' = [logged EXCEPT ![t] = @ + 1]
  /\ stamp' = [stamp EXCEPT ![t] = day]
  /\ UNCHANGED <<isAsync, clockVars, fileVars, ringVars, writerVars, filed>>

(* Another thread may get in between: my_tm is the date of who came last.  *)
LocalTime(t) ==
  /\ pc[t] = "localtime"
  /\ tm' = stamp[t]
  /\ Goto(t, "copy")
  /\ UNCHANGED <<isAsync, day, fileVars, ringVars, logged, stamp, writerVars, filed>>

CopyTm(t) ==
  /\ pc[t] = "copy"
  /\ stamp' = [stamp EXCEPT ![t] = tm]
  /\ Goto(t, "rotate")
  /\ UNCHANGED <<isAsync, clockVars, fileVars, ringVars, logged, writerVars, filed>>

(* The date of the caller, not the present one, decides; a new day starts  *)
(* the count again.  A file that cannot be opened leaves m_fp null.        *)
FaultyNewDay == count + 1                                  \* goes on counting
NewDay == 0

OtherDay(t) == today # MDay(stamp[t])
Reopens(t) == OtherDay(t) \/ (count + 1) % SplitLines = 0
NewLog(t) == [day |-> stamp[t],
              part |-> IF OtherDay(t) THEN 0 ELSE count' \div SplitLines]

Rotate(t) ==
  /\ pc[t] = "rotate"
  /\ today' = MDay(stamp[t])
  /\ count' = IF OtherDay(t) THEN NewDay ELSE count + 1
  /\ IF Reopens(t) THEN fp # None /\ fp' \in {NewLog(t), None} ELSE UNCHANGED fp
  /\ Goto(t, "choose")
  /\ UNCHANGED <<isAsync, clockVars, crashed, ringVars, logged, stamp, writerVars,
                 filed>>

IsFull == size >= MaxSize

(* full() is asked first and push() called later.                          *)
Choose(t) ==
  /\ pc[t] = "choose"
  /\ Goto(t, IF isAsync /\ ~IsFull THEN "push" ELSE "puts")
  /\ UNCHANGED <<isAsync, clockVars, fileVars, ringVars, logged, stamp, writerVars,
                 filed>>

After(i) == (i + 1) % MaxSize

FaultyNotifyEmpty == UNCHANGED wpc                         \* no notify_one
NotifyEmpty == wpc' = IF wpc = "asleep" THEN "pop" ELSE wpc

Push(t) ==
  /\ pc[t] = "push" /\ ~IsFull
  /\ back' = After(back)
  /\ array' = [array EXCEPT ![After(back)] = Line(t)]
  /\ size' = size + 1
  /\ NotifyEmpty
  /\ Goto(t, "out")
  /\ UNCHANGED <<isAsync, clockVars, fileVars, front, logged, stamp, singleLog, filed>>

PushWaits(t) ==
  /\ pc[t] = "push" /\ IsFull
  /\ Goto(t, "asleep")
  /\ UNCHANGED <<isAsync, clockVars, fileVars, ringVars, logged, stamp, writerVars,
                 filed>>

Puts(t) ==
  /\ pc[t] = "puts" /\ fp # None
  /\ filed' = filed \union {Line(t)}
  /\ Goto(t, "out")
  /\ UNCHANGED <<isAsync, clockVars, fileVars, ringVars, logged, stamp, writerVars>>

CallerStep(t) == \/ WriteLog(t)
                 \/ LocalTime(t)
                 \/ CopyTm(t)
                 \/ Rotate(t)
                 \/ Choose(t)
                 \/ Push(t)
                 \/ PushWaits(t)
                 \/ Puts(t)

-----------------------------------------------------------------------------
(***************************************************************************)
(* async_write_log, and block_queue's pop().                               *)
(***************************************************************************)
FaultyTaken == array[back]                                 \* the newest
Taken == array[After(front)]

FaultyNotifyFull == UNCHANGED pc                           \* no notify_all
NotifyFull == pc' = [t \in Threads |-> IF pc[t] = "asleep" THEN "push" ELSE pc[t]]

Pop ==
  /\ wpc = "pop" /\ size > 0
  /\ front' = After(front)
  /\ singleLog' = Taken
  /\ size' = size - 1
  /\ NotifyFull
  /\ wpc' = "puts"
  /\ UNCHANGED <<isAsync, clockVars, fileVars, array, back, logged, stamp, filed>>

PopWaits ==
  /\ wpc = "pop" /\ size = 0
  /\ wpc' = "asleep"
  /\ UNCHANGED <<isAsync, clockVars, fileVars, ringVars, callerVars, singleLog, filed>>

AsyncPuts ==
  /\ wpc = "puts" /\ fp # None
  /\ filed' = filed \union {singleLog}
  /\ singleLog' = None
  /\ wpc' = "pop"
  /\ UNCHANGED <<isAsync, clockVars, fileVars, ringVars, callerVars>>

WriterStep == Pop \/ PopWaits \/ AsyncPuts

-----------------------------------------------------------------------------
(* fclose and fputs of no file.                                            *)
NullFile ==
  /\ fp = None
  /\ \/ wpc = "puts"
     \/ \E t \in Threads : pc[t] = "puts" \/ (pc[t] = "rotate" /\ Reopens(t))
  /\ crashed' = TRUE
  /\ UNCHANGED <<isAsync, clockVars, count, today, fp, ringVars, callerVars, writerVars,
                 filed>>

(* A condition variable may wake a thread for no reason.                   *)
Spurious ==
  /\ \/ /\ wpc = "asleep" /\ wpc' = "pop"
        /\ UNCHANGED pc
     \/ /\ \E t \in Threads : pc[t] = "asleep" /\ Goto(t, "push")
        /\ UNCHANGED wpc
  /\ UNCHANGED <<isAsync, clockVars, fileVars, ringVars, logged, stamp, singleLog,
                 filed>>

Midnight == /\ day < MaxDay
            /\ day' = day + 1
            /\ UNCHANGED <<isAsync, tm, fileVars, ringVars, callerVars, writerVars,
                           filed>>

Next == /\ ~crashed
        /\ \/ \E t \in Threads : CallerStep(t)
           \/ WriterStep
           \/ Spurious
           \/ Midnight
           \/ NullFile

Spec == Init /\ [][Next]_vars

(* Every thread is scheduled, and one that is in write_log goes on; what   *)
(* nobody promises is that a thread logs, or is woken without a notify.    *)
Running(A) == ~crashed /\ A
FairSpec == /\ Spec
            /\ \A t \in Threads : WF_vars(Running(pc[t] # "out" /\ CallerStep(t)))
            /\ WF_vars(Running(WriterStep)) /\ WF_vars(Running(NullFile))

-----------------------------------------------------------------------------
Lines == Threads \X (1..MaxLines)

(* The open file is the one the day and the count call for, though a      *)
(* caller that was slow over midnight, or copied the date of one that was, *)
(* takes the log back to the old day and the next one forward again, and   *)
(* though a day of the same number a month later goes on in the old file.  *)
FileMatchesCount == fp # None => /\ MDay(fp.day) = today
                                 /\ fp.part = count \div SplitLines

(* No wake-up is lost between the two condition variables: a caller sleeps *)
(* only while the ring is full, the writing thread only while it is empty. *)
SleepsForAReason == /\ \A t \in Threads : pc[t] = "asleep" => IsFull
                    /\ wpc = "asleep" => size = 0

(* The lines in the ring, oldest first.                                    *)
Ring == [i \in 1..size |-> array[(front + i) % MaxSize]]

(* The ring, its two ends and the writing thread lose, repeat and reorder  *)
(* no line.                                                                *)
Abstract == INSTANCE LogLines WITH
  asked <- {Line(t) : t \in {u \in Threads : pc[u] # "out"}},
  queue <- Ring,
  hand <- singleLog
ImplementsLogLines == Abstract!Spec

(* A caller that found room and then has to wait for it is let go, and its *)
(* line reaches a file, if there is one.                                   *)
EveryLineFiled == \A l \in Lines : logged[l[1]] >= l[2] ~> (l \in filed \/ crashed)
=============================================================================
