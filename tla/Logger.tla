------------------------------- MODULE Logger -------------------------------
(***************************************************************************)
(* auto_logger_file and logger_writer (logging.hpp): which file a line of  *)
(* the log goes to, and which files are thrown away.                       *)
(*                                                                         *)
(* A file of the automatic mode is named by its date, and is the number of *)
(* that day here; the names sort like the days.  The local clock moves on  *)
(* between any two steps, and may be set back.  A thread holds the lock of *)
(* logger_writer from the time stamp of its line to the end of write.      *)
(***************************************************************************)
EXTENDS Integers, Sequences, FiniteSets

CONSTANTS
  Threads,        \* threads that log
  Main,           \* the one that opens the log
  MaxDay,         \* bound: days the clock goes through
  DaysPerMonth,   \* months have equal length here
  LogFileNum,     \* AVROUTER_LOG_FILE_NUM
  MaxLines        \* bound: lines logged, by all runs of the process

Nobody == "nobody"

ASSUME LoggerAssumption ==
  /\ Main \in Threads /\ Nobody \notin Threads
  /\ MaxDay \in Nat /\ MaxLines \in Nat
  /\ DaysPerMonth \in Nat \ {0} /\ LogFileNum \in Nat \ {0}

Day    == 0 .. MaxDay
NoDay  == -1           \* not_a_date_time
Plain  == -2           \* the file of a log opened without "*"
File   == Day \cup {Plain}

VARIABLES
  today,            \* what the local clock shows
  wentBack,         \* history: it was set back since the process started
  mode,             \* none (not opened), plain, auto (m_auto_mode)
  lock,             \* who holds lock_single
  pc,               \* where each thread is: idle, stamped, renaming, named
  line,             \* the line each thread writes, by its number
  fn,               \* the file name each thread got from make_filename
  m_last_day, m_last_filename,
  m_log_list,       \* the files kept
  opened,           \* those whose stream is open
  files,            \* lines in each file on disk
  stamps,           \* the day each line was stamped with
  stored            \* history: lines this process has written, where and when

clockVars == <<today, wentBack>>
nameVars  == <<m_last_day, m_last_filename>>
diskVars  == <<m_log_list, opened, files, stored>>
vars == <<clockVars, mode, lock, pc, line, fn, nameVars, diskVars, stamps>>

NoFile == [f \in File |-> <<>>]
day(d) == d % DaysPerMonth

Init ==
  /\ today \in Day /\ wentBack = FALSE
  /\ mode = "none" /\ lock = Nobody
  /\ pc = [t \in Threads |-> "idle"]
  /\ line = [t \in Threads |-> 0]
  /\ fn = [t \in Threads |-> NoDay]
  /\ m_last_day = NoDay /\ m_last_filename = NoDay
  /\ m_log_list = {} /\ opened = {}
  /\ files = NoFile /\ stamps = <<>> /\ stored = {}

-----------------------------------------------------------------------------
ClockMoves(d) ==
  /\ d # today
  /\ today' = d
  /\ wentBack' = (wentBack \/ d < today)
  /\ UNCHANGED <<mode, lock, pc, line, fn, nameVars, diskVars, stamps>>

(* Thread t has a line to write. *)
Stamp(t) ==
  /\ Len(stamps) < MaxLines
  /\ stamps' = Append(stamps, today)
  /\ line' = [line EXCEPT ![t] = Len(stamps) + 1]
  /\ pc' = [pc EXCEPT ![t] = "stamped"]

(* open, which writes the first line.  It takes no lock; main calls it      *)
(* before there is a second thread.                                         *)
Open ==
  /\ mode = "none"
  /\ lock' = Main
  /\ Stamp(Main)
  /\ \/ mode' = "auto" /\ UNCHANGED opened
     \/ mode' = "plain" /\ opened' \in {{}, {Plain}}
  /\ UNCHANGED <<clockVars, fn, nameVars, m_log_list, files, stored>>

(* The definitions whose names say what went wrong (..._TakesNoLock and the *)
(* like) are faulty variants of the one they precede; the runs use them to  *)
(* show that the properties would notice.                                   *)
logger_writer_TakesNoLock(t) ==
  /\ mode # "none" /\ pc[t] = "idle"
  /\ lock' = t
  /\ Stamp(t)
  /\ UNCHANGED <<clockVars, mode, fn, nameVars, diskVars>>

(* logger_writer up to write: the lock, then the time stamp.                *)
logger_writer(t) ==
  /\ mode # "none" /\ lock = Nobody
  /\ lock' = t
  /\ Stamp(t)
  /\ UNCHANGED <<clockVars, mode, fn, nameVars, diskVars>>

-----------------------------------------------------------------------------
SameDay == m_last_day # NoDay /\ day(m_last_day) = day(today)

make_filename_Same_SkipsTheDay(t) ==
  /\ pc[t] = "stamped" /\ mode = "auto"
  /\ m_last_day # NoDay
  /\ pc' = [pc EXCEPT ![t] = "named"]
  /\ fn' = [fn EXCEPT ![t] = m_last_filename]
  /\ UNCHANGED <<clockVars, mode, lock, line, nameVars, diskVars, stamps>>

(* make_filename on the day of the last name: its day of the month, that is. *)
make_filename_Same(t) ==
  /\ pc[t] = "stamped" /\ mode = "auto"
  /\ SameDay
  /\ pc' = [pc EXCEPT ![t] = "named"]
  /\ fn' = [fn EXCEPT ![t] = m_last_filename]
  /\ UNCHANGED <<clockVars, mode, lock, line, nameVars, diskVars, stamps>>

(* make_filename on another day, up to the second reading of the clock...   *)
make_filename_New(t) ==
  /\ pc[t] = "stamped" /\ mode = "auto"
  /\ ~SameDay
  /\ m_last_day' = today
  /\ pc' = [pc EXCEPT ![t] = "renaming"]
  /\ UNCHANGED <<clockVars, mode, lock, line, fn, m_last_filename, diskVars, stamps>>

(* ...which gives the name.                                                 *)
make_filename_Rename(t) ==
  /\ pc[t] = "renaming"
  /\ m_last_filename' = today
  /\ fn' = [fn EXCEPT ![t] = today]
  /\ pc' = [pc EXCEPT ![t] = "named"]
  /\ UNCHANGED <<clockVars, mode, lock, line, m_last_day, diskVars, stamps>>

-----------------------------------------------------------------------------
(* Thread t's line goes to file f if its stream is open, and logger_writer  *)
(* gives back the lock.                                                     *)
Put(t, f, isOpen, disk) ==
  /\ files' = IF isOpen THEN [disk EXCEPT ![f] = Append(@, line[t])] ELSE disk
  /\ stored' = stored \cup {[line |-> line[t], file |-> f, day |-> today]}
  /\ lock' = Nobody
  /\ pc' = [pc EXCEPT ![t] = "idle"]
  /\ line' = [line EXCEPT ![t] = 0]
  /\ fn' = [fn EXCEPT ![t] = NoDay]
  /\ UNCHANGED <<clockVars, mode, nameVars, stamps>>

(* write to the one file of a log without "*". *)
WritePlain(t) ==
  /\ pc[t] = "stamped" /\ mode = "plain"
  /\ Put(t, Plain, Plain \in opened, files)
  /\ UNCHANGED <<m_log_list, opened>>

(* write to a file that is in the list: one that could not be opened stays  *)
(* there, and is not tried again.                                           *)
WriteKept(t) ==
  /\ pc[t] = "named" /\ fn[t] \in m_log_list
  /\ Put(t, fn[t], fn[t] \in opened, files)
  /\ UNCHANGED <<m_log_list, opened>>

Excess_Nothing(list) == {}

Excess_LastName(list) ==
  IF Cardinality(list) > LogFileNum THEN {f \in list : \A g \in list : g <= f} ELSE {}

Excess_OfTheDirectory(list) ==
  LET there == list \cup {f \in Day : files[f] # <<>>} IN
  IF Cardinality(there) > LogFileNum THEN {f \in there : \A g \in there : f <= g} ELSE {}

(* What a list that has become too long loses: the smallest name. *)
Excess(list) ==
  IF Cardinality(list) > LogFileNum THEN {f \in list : \A g \in list : f <= g} ELSE {}

StillOpen(open, out) == open \ out

(* write to a file that is not in the list: it is opened, which may fail,   *)
(* and inserted; what is too much is closed and removed, which may fail.    *)
WriteNew(t, opens, removed) ==
  LET list == m_log_list \cup {fn[t]}
      out  == Excess(list)
      open == StillOpen(opened \cup (IF opens THEN {fn[t]} ELSE {}), out) IN
  /\ pc[t] = "named" /\ fn[t] \notin m_log_list
  /\ m_log_list' = list \ out
  /\ opened' = open
  /\ Put(t, fn[t], fn[t] \in open,
         [f \in File |-> IF f \in out /\ removed THEN <<>> ELSE files[f]])

(* The process ends, in the middle of anything, and is started again: what  *)
(* it flushed is on disk, what it knew of its files is gone.                *)
Restart ==
  /\ mode # "none"
  /\ mode' = "none" /\ lock' = Nobody /\ wentBack' = FALSE
  /\ pc' = [t \in Threads |-> "idle"]
  /\ line' = [t \in Threads |-> 0]
  /\ fn' = [t \in Threads |-> NoDay]
  /\ m_last_day' = NoDay /\ m_last_filename' = NoDay
  /\ m_log_list' = {} /\ opened' = {} /\ stored' = {}
  /\ UNCHANGED <<today, files, stamps>>

Next ==
  \/ Open \/ Restart
  \/ \E d \in Day : ClockMoves(d)
  \/ \E t \in Threads :
       \/ logger_writer(t)
       \/ make_filename_Same(t) \/ make_filename_New(t) \/ make_filename_Rename(t)
       \/ WritePlain(t) \/ WriteKept(t)
       \/ \E opens, removed \in BOOLEAN : WriteNew(t, opens, removed)

Spec == Init /\ [][Next]_vars

-----------------------------------------------------------------------------
(* Types of the logger's state.  No more than LogFileNum files are kept,    *)
(* and a name once handed out is that of m_last_filename until its line is  *)
(* written.                                                                 *)
TypeOK ==
  /\ today \in Day /\ wentBack \in BOOLEAN
  /\ mode \in {"none", "plain", "auto"}
  /\ lock \in Threads \cup {Nobody}
  /\ pc \in [Threads -> {"idle", "stamped", "renaming", "named"}]
  /\ line \in [Threads -> 0 .. MaxLines]
  /\ fn \in [Threads -> Day \cup {NoDay}]
  /\ \A t \in Threads : pc[t] = "named" => fn[t] = m_last_filename
  /\ m_last_day \in Day \cup {NoDay} /\ m_last_filename \in Day \cup {NoDay}
  /\ m_log_list \subseteq Day /\ Cardinality(m_log_list) <= LogFileNum
  /\ opened \subseteq m_log_list \cup {Plain}
  /\ files \in [File -> Seq(1 .. MaxLines)]
  /\ stamps \in Seq(Day)
  /\ stored \subseteq [line : 1 .. MaxLines, file : File, day : Day]

(* The lines of a file are in the order of their time stamps, whichever     *)
(* threads logged them, and none is there twice, over restarts too.         *)
LinesInOrder ==
  \A f \in File : \A i \in 1 .. Len(files[f]) - 1 : files[f][i] < files[f][i + 1]

(* Rotation loses nothing recent: if the clock was not set back, the last   *)
(* LogFileNum files this process has written to are kept, and every line it *)
(* wrote to one of them is there, unless the file could not be opened.      *)
LatestFilesAreWhole ==
  ~wentBack =>
    \A r \in stored :
      Cardinality({q.file : q \in {p \in stored : p.file > r.file}}) < LogFileNum =>
        /\ r.file # Plain => r.file \in m_log_list
        /\ r.file \in opened =>
             \E i \in 1 .. Len(files[r.file]) : files[r.file][i] = r.line

(* No line up to r came a month or more after the one before it.            *)
Unbroken(r) ==
  \A p, q \in stored :
    q.line < r.line /\ p.line = q.line + 1 => p.day - stamps[q.line] < DaysPerMonth

(* As long as there is a line every month and the clock is not set back, a  *)
(* line is in the file of a day between its time stamp and its writing,     *)
(* although make_filename compares days of the month and reads the clock    *)
(* twice.                                                                   *)
FileIsOfTheDayIfBusy ==
  ~wentBack =>
    \A r \in stored :
      r.file # Plain /\ Unbroken(r) => r.file \in stamps[r.line] .. r.day

(* A process removes only files it has itself opened, or tried to: what      *)
(* earlier runs left behind loses no line, however many runs there were.    *)
RemovesOnlyItsOwn ==
  [][\A f \in Day : Len(files'[f]) < Len(files[f]) =>
       \/ f \in m_log_list
       \/ \E t \in Threads : pc[t] = "named" /\ fn[t] = f]_vars

-----------------------------------------------------------------------------
(* "Log files named by date" (logging.hpp:45): a line is in the file of a   *)
(* day between its time stamp and its writing.                              *)
FileIsOfTheDay ==
  ~wentBack =>
    \A r \in stored : r.file # Plain => r.file \in stamps[r.line] .. r.day
=============================================================================
