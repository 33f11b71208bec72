---------------------------- MODULE LoggerProofs ----------------------------
(***************************************************************************)
(* Proofs about Logger, for any number of threads, days, files and lines.  *)
(*                                                                         *)
(* The inductive invariant IInv adds to the types who holds the lock and   *)
(* which line is his (Holder), which names go with which mode (Names), how *)
(* the names follow a clock that is not set back (Forward), which files    *)
(* the list holds then (Kept), and why a day of the month is enough to     *)
(* tell the day as long as there is a line every month (Days).             *)
(***************************************************************************)
EXTENDS Logger, NumberLemmas, FiniteSetTheorems, SequenceTheorems, TLAPS

(* Whoever is not idle holds the lock, and has the newest line. *)
Holder ==
  /\ mode = "none" => lock = Nobody
  /\ Len(stamps) \in 0 .. MaxLines
  /\ \A t \in Threads :
       IF lock = t THEN pc[t] # "idle" /\ line[t] = Len(stamps) /\ Len(stamps) >= 1
       ELSE pc[t] = "idle"

(* A name is handed out by an automatic log only, and from the day that was *)
(* noted with it.                                                           *)
Names ==
  /\ mode = "none" => stored = {} /\ opened = {}
  /\ mode # "auto" => m_last_day = NoDay /\ m_last_filename = NoDay /\ m_log_list = {}
  /\ mode = "auto" => \A r \in stored : r.file # Plain
  /\ \A t \in Threads :
       /\ pc[t] \in {"renaming", "named"} => mode = "auto" /\ m_last_day # NoDay
       /\ pc[t] = "named" => fn[t] \in Day
  /\ m_last_day # NoDay /\ m_last_filename = NoDay => \E t \in Threads : pc[t] = "renaming"

(* A line that is written is not the one being written. *)
Written ==
  /\ \A f \in File : \A i \in 1 .. Len(files[f]) :
       files[f][i] <= Len(stamps) /\ (lock # Nobody => files[f][i] < Len(stamps))
  /\ \A r \in stored : r.line <= Len(stamps) /\ (lock # Nobody => r.line < Len(stamps))

(* Time stamp, day of the name, name and clock follow each other. *)
Forward ==
  ~wentBack =>
    /\ m_last_day <= today /\ m_last_filename <= today
    /\ \A r \in stored : r.file <= m_last_filename
    /\ \A t \in Threads :
         /\ pc[t] = "stamped" => stamps[line[t]] <= today
         /\ pc[t] = "renaming" => stamps[line[t]] <= m_last_day
    /\ (\A t \in Threads : pc[t] # "renaming") => m_last_day <= m_last_filename

Holds(r) == \E i \in 1 .. Len(files[r.file]) : files[r.file][i] = r.line

(* The list holds the latest files written to, all of them or LogFileNum. *)
Kept ==
  /\ \A f \in m_log_list : \E r \in stored : r.file = f
  /\ ~wentBack =>
       \A r \in stored :
         /\ r.file \in opened => Holds(r)
         /\ r.file # Plain =>
              \/ r.file \in m_log_list
              \/ /\ Cardinality(m_log_list) = LogFileNum
                 /\ \A g \in m_log_list : r.file < g

Previous(n) == \E q \in stored : q.line = n - 1

(* When thread t asked for its file name, day d was the clock's, and looked *)
(* like the day of the last name.                                           *)
AskedOn(t, d) ==
  /\ day(d) = day(m_last_day) /\ m_last_day <= d /\ d <= today
  /\ stamps[line[t]] <= d
  /\ d = m_last_day \/ Previous(line[t])

Days ==
  /\ m_last_day # NoDay =>
       /\ lock = Nobody => Previous(Len(stamps) + 1)
       /\ \A t \in Threads : pc[t] = "stamped" => Previous(line[t])
  /\ ~wentBack =>
       /\ \A t \in Threads : pc[t] = "named" => \E d \in Day : AskedOn(t, d)
       /\ \A r \in stored : r.file # Plain /\ Unbroken(r) =>
            stamps[r.line] <= m_last_day /\ r.file \in stamps[r.line] .. r.day

IInv == TypeOK /\ Holder /\ Names /\ Written /\ LinesInOrder /\ Forward /\ Kept /\ Days

(* Two days that look the same are the same, or a month apart. *)
LEMMA SameDayOfMonth ==
  ASSUME NEW a \in Nat, NEW b \in Nat, a <= b, b < a + DaysPerMonth, day(a) = day(b)
  PROVE  a = b
<1> DEFINE M == DaysPerMonth
<1>1. M \in Nat \ {0}
  BY LoggerAssumption
<1>2. /\ a % M \in 0 .. M - 1 /\ a \div M \in Int /\ a = M * (a \div M) + (a % M)
      /\ b % M \in 0 .. M - 1 /\ b \div M \in Int /\ b = M * (b \div M) + (b % M)
  BY <1>1
<1>3. a % M = b % M
  BY DEF day
<1>4. PICK q \in Int, p \in Int, e \in 0 .. M - 1 : a = M * q + e /\ b = M * p + e
  BY <1>2, <1>3
<1> HIDE DEF M
<1>5. ASSUME NEW i \in Int, NEW j \in Int, i < j
      PROVE  M * i + M <= M * j
  <2>1. PICK k \in Nat : j = i + 1 + k
    BY <1>5
  <2>2. M * j = M * i + M + M * k
    BY <1>1, <2>1
  <2>3. M * k \in Nat
    BY <1>1
  <2>4. M * i \in Int /\ M \in Int
    BY <1>1
  <2>5. QED
    BY <2>2, <2>3, <2>4
<1>6. M * q \in Int /\ M * p \in Int
  BY <1>1
<1>7. b < a + M
  BY DEF M
<1>8. ~(q < p) /\ ~(p < q)
  BY <1>1, <1>4, <1>5, <1>6, <1>7
<1>9. QED
  BY <1>4, <1>8

(* The files of a log are finitely many. *)
LEMMA FewDays == ASSUME NEW S \in SUBSET Day PROVE IsFiniteSet(S) /\ Cardinality(S) \in Nat
<1>1. IsFiniteSet(Day)
  BY LoggerAssumption, FS_Interval DEF Day
<1>2. QED
  BY <1>1, FS_Subset, FS_CardinalityType

(* Only the holder of the lock is busy. *)
LEMMA Alone ==
  ASSUME TypeOK, Holder, NEW t \in Threads, pc[t] # "idle"
  PROVE  /\ lock = t /\ lock # Nobody /\ mode # "none"
         /\ line[t] = Len(stamps) /\ Len(stamps) \in 1 .. MaxLines
         /\ \A s \in Threads : s # t => pc[s] = "idle"
BY LoggerAssumption DEF Holder

(* Time stamps and what is stored are what they seem. *)
LEMMA Stamps ==
  ASSUME IInv
  PROVE  /\ \A i \in 1 .. Len(stamps) : stamps[i] \in Day /\ stamps[i] \in Int
         /\ \A t \in Threads : pc[t] # "idle" => stamps[line[t]] \in Day /\ stamps[line[t]] \in Int
         /\ \A r \in stored : /\ r.line \in 1 .. Len(stamps) /\ r.line \in Int
                              /\ stamps[r.line] \in Day /\ stamps[r.line] \in Int
                              /\ r.file \in File /\ r.file \in Int
                              /\ r.day \in Day /\ r.day \in Int
<1>1. ASSUME NEW i \in 1 .. Len(stamps) PROVE stamps[i] \in Day /\ stamps[i] \in Int
  <2>1. stamps \in Seq(Day)
    BY DEF IInv, TypeOK
  <2>2. stamps[i] \in Day
    BY <2>1, ElementOfSeq
  <2>3. QED
    BY <2>2 DEF Day
<1>2. ASSUME NEW t \in Threads, pc[t] # "idle" PROVE line[t] \in 1 .. Len(stamps)
  BY <1>2, Alone DEF IInv
<1>3. ASSUME NEW r \in stored
      PROVE  /\ r.line \in 1 .. Len(stamps) /\ r.line \in Int
             /\ r.file \in File /\ r.file \in Int /\ r.day \in Day /\ r.day \in Int
  <2>1. r.line \in 1 .. MaxLines /\ r.file \in File /\ r.day \in Day
    BY DEF IInv, TypeOK
  <2>2. r.line <= Len(stamps) /\ Len(stamps) \in Int
    BY DEF IInv, Written, Holder
  <2>3. QED
    BY <2>1, <2>2 DEF File, Day, Plain
<1>4. QED
  BY <1>1, <1>2, <1>3

(* A line in a file is a number of the range. *)
LEMMA Entries ==
  ASSUME IInv, NEW f \in File, NEW i \in 1 .. Len(files[f])
  PROVE  files[f][i] \in 1 .. MaxLines /\ files[f][i] \in Int
<1>1. files[f] \in Seq(1 .. MaxLines)
  BY DEF IInv, TypeOK
<1>2. files[f][i] \in 1 .. MaxLines
  BY <1>1, ElementOfSeq
<1>3. QED
  BY <1>2

(* Nothing is written yet, and nobody writes. *)
LEMMA InitEstablishes == Init => IInv
<1> SUFFICES ASSUME Init PROVE IInv
  OBVIOUS
<1>1. Cardinality({}) = 0 /\ <<>> \in Seq(1 .. MaxLines) /\ <<>> \in Seq(Day) /\ Len(<<>>) = 0
  BY FS_EmptySet, EmptySeq
<1>2. TypeOK
  <2>1. files \in [File -> Seq(1 .. MaxLines)] /\ stamps \in Seq(Day)
    BY <1>1 DEF Init, NoFile
  <2>2. line \in [Threads -> 0 .. MaxLines] /\ Cardinality(m_log_list) <= LogFileNum
    BY <1>1, LoggerAssumption DEF Init
  <2>3. /\ pc \in [Threads -> {"idle", "stamped", "renaming", "named"}]
        /\ fn \in [Threads -> Day \cup {NoDay}]
        /\ \A t \in Threads : pc[t] # "named"
    BY DEF Init
  <2>4. QED
    BY <2>1, <2>2, <2>3 DEF Init, TypeOK
<1>3. Holder /\ Names
  BY <1>1, LoggerAssumption DEF Init, Holder, Names
<1>4. \A f \in File : Len(files[f]) = 0
  BY <1>1 DEF Init, NoFile
<1>5. Written /\ LinesInOrder
  BY <1>4 DEF Init, Written, LinesInOrder
<1>6. Forward
  BY LoggerAssumption DEF Init, Forward, Day, NoDay
<1>7. Kept /\ Days
  BY DEF Init, Kept, Days
<1>8. QED
  BY <1>2, <1>3, <1>5, <1>6, <1>7 DEF IInv

(* The clock moves, and is set back or not. *)
LEMMA ClockMovesPreserves ==
  ASSUME IInv, NEW d \in Day, ClockMoves(d)
  PROVE  IInv'
<1>1. /\ today' = d /\ wentBack' = (wentBack \/ d < today)
      /\ UNCHANGED <<mode, lock, pc, line, fn, nameVars, diskVars, stamps>>
  BY DEF ClockMoves
<1>2. TypeOK'
  BY <1>1 DEF IInv, TypeOK, nameVars, diskVars
<1>3. Holder' /\ Names' /\ Written' /\ LinesInOrder'
  BY <1>1 DEF IInv, Holder, Names, Written, LinesInOrder, nameVars, diskVars
<1>4. ~wentBack' => ~wentBack /\ today <= today'
  <2>1. ~wentBack' => ~wentBack /\ ~(d < today)
    BY <1>1, Zenon
  <2>2. QED
    BY <1>1, <2>1, LoggerAssumption DEF IInv, TypeOK, Day
<1>5. Forward'
  <2> SUFFICES ASSUME ~wentBack' PROVE Forward'
    BY DEF Forward
  <2>1. today \in Int /\ today' \in Int /\ m_last_day \in Int /\ m_last_filename \in Int
    BY <1>1 DEF IInv, TypeOK, Day, NoDay
  <2>2. \A t \in Threads : pc[t] = "stamped" => stamps[line[t]] <= today'
    BY <1>4, <2>1, Stamps DEF IInv, Forward
  <2>3. QED
    BY <1>1, <1>4, <2>1, <2>2 DEF IInv, Forward, nameVars, diskVars
<1>6. Kept'
  BY <1>1, <1>4 DEF IInv, Kept, Holds, nameVars, diskVars
<1>7. Days'
  <2>1. ASSUME ~wentBack', NEW t \in Threads, pc[t] = "named"
        PROVE  \E e \in Day : AskedOn(t, e)'
    BY <1>1, <1>4, <2>1 DEF IInv, TypeOK, Days, AskedOn, Previous, nameVars, diskVars, Day
  <2>2. \A r : Unbroken(r)' <=> Unbroken(r)
    BY <1>1 DEF Unbroken, diskVars
  <2>3. QED
    BY <1>1, <1>4, <2>1, <2>2 DEF IInv, Days, Previous, nameVars, diskVars
<1>8. QED
  BY <1>2, <1>3, <1>5, <1>6, <1>7 DEF IInv

(* What a new line does to the time stamps and to its thread. *)
LEMMA StampEffect ==
  ASSUME IInv, NEW t \in Threads, Stamp(t), lock = Nobody
  PROVE  /\ stamps' \in Seq(Day) /\ Len(stamps) \in Nat
         /\ Len(stamps') = Len(stamps) + 1 /\ Len(stamps') \in 1 .. MaxLines
         /\ \A i \in 1 .. Len(stamps) : stamps'[i] = stamps[i]
         /\ stamps'[Len(stamps) + 1] = today
         /\ line' \in [Threads -> 0 .. MaxLines] /\ line'[t] = Len(stamps) + 1
         /\ pc' \in [Threads -> {"idle", "stamped", "renaming", "named"}] /\ pc'[t] = "stamped"
         /\ \A s \in Threads : pc[s] = "idle" /\ (s # t => pc'[s] = "idle")
<1>1. stamps \in Seq(Day) /\ today \in Day /\ Len(stamps) \in Nat /\ Len(stamps) < MaxLines
  BY DEF IInv, TypeOK, Holder, Stamp
<1>2. /\ stamps' \in Seq(Day) /\ Len(stamps') = Len(stamps) + 1
      /\ \A i \in 1 .. Len(stamps) : stamps'[i] = stamps[i]
      /\ stamps'[Len(stamps) + 1] = today
  BY <1>1, AppendProperties DEF Stamp
<1>3. Len(stamps) + 1 \in 1 .. MaxLines
  BY <1>1, LoggerAssumption
<1>4. \A s \in Threads : pc[s] = "idle"
  BY LoggerAssumption DEF IInv, Holder
<1>5. line' \in [Threads -> 0 .. MaxLines] /\ line'[t] = Len(stamps) + 1
  BY <1>3 DEF IInv, TypeOK, Stamp
<1>6. /\ pc' \in [Threads -> {"idle", "stamped", "renaming", "named"}] /\ pc'[t] = "stamped"
      /\ \A s \in Threads : s # t => pc'[s] = pc[s]
  BY DEF IInv, TypeOK, Stamp
<1>7. QED
  BY <1>1, <1>2, <1>3, <1>4, <1>5, <1>6

(* The first line of an opened log, and a later one. *)
LEMMA StampPreserves ==
  ASSUME IInv, NEW t \in Threads, Stamp(t), lock = Nobody, lock' = t,
         UNCHANGED <<clockVars, fn, nameVars, m_log_list, files, stored>>,
         \/ mode # "none" /\ mode' = mode /\ opened' = opened
         \/ mode = "none" /\ mode' = "auto" /\ opened' = opened
         \/ mode = "none" /\ mode' = "plain" /\ opened' \in {{}, {Plain}}
  PROVE  IInv'
<1>1. UNCHANGED <<today, wentBack, fn, m_last_day, m_last_filename, m_log_list, files, stored>>
  BY DEF clockVars, nameVars
<1>2. TypeOK'
  <2>1. opened' \subseteq m_log_list \cup {Plain} /\ mode' \in {"none", "plain", "auto"}
    BY DEF IInv, TypeOK
  <2>2. \A s \in Threads : pc'[s] # "named"
    BY StampEffect
  <2>3. QED
    BY <1>1, <2>1, <2>2, StampEffect DEF IInv, TypeOK
<1>3. Holder'
  <2>1. mode' # "none"
    OBVIOUS
  <2>2. Len(stamps') \in 0 .. MaxLines /\ Len(stamps') >= 1
    BY StampEffect
  <2>3. QED
    BY <2>1, <2>2, StampEffect DEF Holder
<1>4. Names'
  <2>1. \A s \in Threads : pc[s] # "renaming"
    BY StampEffect
  <2>2. \A s \in Threads : pc'[s] \notin {"renaming", "named"}
    BY StampEffect
  <2>3. QED
    BY <1>1, <2>1, <2>2 DEF IInv, Names
<1>5. Written'
  <2>1. ASSUME NEW f \in File, NEW i \in 1 .. Len(files[f])
        PROVE  files[f][i] < Len(stamps') /\ files[f][i] <= Len(stamps')
    <3>1. files[f][i] \in Int /\ files[f][i] <= Len(stamps)
      BY Entries DEF IInv, Written
    <3>2. QED
      BY <3>1, StampEffect
  <2>2. ASSUME NEW r \in stored PROVE r.line < Len(stamps')
    BY StampEffect, Stamps
  <2>3. \A r \in stored : r.line <= Len(stamps')
    BY <2>2, Stamps, StampEffect
  <2>4. QED
    BY <1>1, <2>1, <2>2, <2>3 DEF Written
<1>6. LinesInOrder'
  BY <1>1 DEF IInv, LinesInOrder
<1>7. Forward'
  <2> SUFFICES ASSUME ~wentBack' PROVE Forward'
    BY DEF Forward
  <2>1. \A s \in Threads : pc[s] # "renaming" /\ pc'[s] # "renaming"
    BY StampEffect
  <2>2. \A s \in Threads : pc'[s] = "stamped" => stamps'[line'[s]] = today
    BY StampEffect
  <2>3. today <= today
    BY DEF IInv, TypeOK, Day
  <2>4. QED
    BY <1>1, <2>1, <2>2, <2>3 DEF IInv, Forward
<1>8. Kept'
  <2>1. stored = {} \/ opened' = opened
    BY DEF IInv, Names
  <2>2. QED
    BY <1>1, <2>1 DEF IInv, Kept, Holds
<1>9. Days'
  <2>1. \A r \in stored : stamps'[r.line] = stamps[r.line]
    BY Stamps, StampEffect
  <2>2. \A r : Unbroken(r)' <=> Unbroken(r)
    BY <1>1, <2>1 DEF Unbroken
  <2>3. \A s \in Threads : pc'[s] # "named"
    BY StampEffect
  <2>4. ASSUME m_last_day # NoDay, NEW s \in Threads, pc'[s] = "stamped" PROVE Previous(line[s])'
    <3>1. Previous(Len(stamps) + 1)
      BY <2>4 DEF IInv, Days
    <3>2. s = t /\ line'[s] = Len(stamps) + 1
      BY <2>4, StampEffect
    <3>3. QED
      BY <1>1, <3>1, <3>2 DEF Previous
  <2>5. lock' # Nobody
    BY LoggerAssumption
  <2>6. QED
    BY <1>1, <2>1, <2>2, <2>3, <2>4, <2>5 DEF IInv, Days
<1>10. QED
  BY <1>2, <1>3, <1>4, <1>5, <1>6, <1>7, <1>8, <1>9 DEF IInv

LEMMA OpenPreserves == IInv /\ Open => IInv'
<1> SUFFICES ASSUME IInv, Open PROVE IInv'
  OBVIOUS
<1>1. lock = Nobody /\ Main \in Threads
  BY LoggerAssumption DEF IInv, Holder, Open
<1>2. QED
  BY <1>1, StampPreserves DEF Open

LEMMA LoggerWriterPreserves ==
  ASSUME IInv, NEW t \in Threads, logger_writer(t)
  PROVE  IInv'
BY StampPreserves DEF logger_writer, diskVars

(* While a thread asks for its file name the lines and the list stay as     *)
(* they are, and nobody else does anything.                                 *)
LEMMA NamingKeeps ==
  ASSUME IInv, NEW t \in Threads, pc[t] # "idle", NEW where \in {"renaming", "named"},
         pc' = [pc EXCEPT ![t] = where],
         UNCHANGED <<clockVars, mode, lock, line, diskVars, stamps>>
  PROVE  /\ UNCHANGED <<today, wentBack, mode, lock, line, m_log_list, opened, files, stored, stamps>>
         /\ pc' \in [Threads -> {"idle", "stamped", "renaming", "named"}] /\ pc'[t] = where
         /\ \A s \in Threads : s # t => pc'[s] = "idle" /\ pc[s] = "idle"
         /\ lock = t /\ lock # Nobody /\ line[t] = Len(stamps)
         /\ Holder' /\ Written' /\ LinesInOrder' /\ Kept'
         /\ \A r : Unbroken(r)' <=> Unbroken(r)
         /\ \A n : Previous(n)' <=> Previous(n)
<1>1. UNCHANGED <<today, wentBack, mode, lock, line, m_log_list, opened, files, stored, stamps>>
  BY DEF clockVars, diskVars
<1>2. /\ pc' \in [Threads -> {"idle", "stamped", "renaming", "named"}] /\ pc'[t] = where
      /\ \A s \in Threads : s # t => pc'[s] = pc[s]
  BY DEF IInv, TypeOK
<1>3. /\ lock = t /\ lock # Nobody /\ line[t] = Len(stamps)
      /\ \A s \in Threads : s # t => pc[s] = "idle"
  BY Alone DEF IInv
<1>4. Holder'
  <2>1. \A s \in Threads : lock = s => pc'[s] # "idle"
    BY <1>2, <1>3
  <2>2. \A s \in Threads : lock # s => pc'[s] = "idle"
    BY <1>2, <1>3
  <2>3. QED
    BY <1>1, <2>1, <2>2 DEF IInv, Holder
<1>5. Written' /\ LinesInOrder' /\ Kept'
  BY <1>1 DEF IInv, Written, LinesInOrder, Kept, Holds
<1>6. (\A r : Unbroken(r)' <=> Unbroken(r)) /\ (\A n : Previous(n)' <=> Previous(n))
  BY <1>1 DEF Unbroken, Previous
<1>7. QED
  BY <1>1, <1>2, <1>3, <1>4, <1>5, <1>6

(* On the day of the last name: that day of the month is today's. *)
LEMMA SamePreserves ==
  ASSUME IInv, NEW t \in Threads, make_filename_Same(t)
  PROVE  IInv'
<1>1. /\ pc[t] = "stamped" /\ mode = "auto" /\ m_last_day # NoDay
      /\ day(m_last_day) = day(today)
      /\ pc' = [pc EXCEPT ![t] = "named"] /\ fn' = [fn EXCEPT ![t] = m_last_filename]
      /\ UNCHANGED <<clockVars, mode, lock, line, diskVars, stamps>>
      /\ UNCHANGED <<m_last_day, m_last_filename>>
  BY DEF make_filename_Same, SameDay, nameVars
<1>2. /\ UNCHANGED <<today, wentBack, mode, lock, line, m_log_list, opened, files, stored, stamps>>
      /\ pc' \in [Threads -> {"idle", "stamped", "renaming", "named"}] /\ pc'[t] = "named"
      /\ \A s \in Threads : s # t => pc'[s] = "idle" /\ pc[s] = "idle"
      /\ lock = t /\ lock # Nobody /\ line[t] = Len(stamps)
      /\ Holder' /\ Written' /\ LinesInOrder' /\ Kept'
      /\ \A r : Unbroken(r)' <=> Unbroken(r)
      /\ \A n : Previous(n)' <=> Previous(n)
  BY <1>1, NamingKeeps
<1>3. /\ \A s \in Threads : pc[s] # "renaming"
      /\ \A s \in Threads : pc'[s] \notin {"stamped", "renaming"}
  BY <1>1, <1>2
<1>4. m_last_filename \in Day /\ m_last_day \in Day
  BY <1>1, <1>3 DEF IInv, TypeOK, Names
<1>5. fn' \in [Threads -> Day \cup {NoDay}] /\ fn'[t] = m_last_filename
  BY <1>1, <1>4 DEF IInv, TypeOK
<1>6. TypeOK'
  <2>1. \A s \in Threads : pc'[s] = "named" => fn'[s] = m_last_filename
    BY <1>2, <1>5
  <2>2. QED
    BY <1>1, <1>2, <1>5, <2>1 DEF IInv, TypeOK
<1>7. Names'
  <2>1. \A s \in Threads : pc'[s] \in {"renaming", "named"} => s = t
    BY <1>2
  <2>2. QED
    BY <1>1, <1>2, <1>3, <1>4, <1>5, <2>1 DEF IInv, Names
<1>8. Forward'
  BY <1>1, <1>2, <1>3 DEF IInv, Forward
<1>9. Days'
  <2>1. ASSUME ~wentBack PROVE AskedOn(t, today)'
    <3>1. m_last_day <= today /\ stamps[line[t]] <= today
      BY <1>1, <2>1 DEF IInv, Forward
    <3>2. Previous(line[t])
      BY <1>1 DEF IInv, Days
    <3>3. today <= today
      BY DEF IInv, TypeOK, Day
    <3>4. QED
      BY <1>1, <1>2, <3>1, <3>2, <3>3 DEF AskedOn
  <2>2. today \in Day
    BY DEF IInv, TypeOK
  <2>3. ~wentBack => \A s \in Threads : pc'[s] = "named" => \E d \in Day : AskedOn(s, d)'
    BY <1>2, <2>1, <2>2
  <2>4. QED
    BY <1>1, <1>2, <1>3, <2>3 DEF IInv, Days
<1>10. QED
  BY <1>2, <1>6, <1>7, <1>8, <1>9 DEF IInv

(* On another day: it is noted, and the name comes next. *)
LEMMA NewPreserves ==
  ASSUME IInv, NEW t \in Threads, make_filename_New(t)
  PROVE  IInv'
<1>1. /\ pc[t] = "stamped" /\ mode = "auto"
      /\ pc' = [pc EXCEPT ![t] = "renaming"] /\ m_last_day' = today
      /\ UNCHANGED <<clockVars, mode, lock, line, diskVars, stamps>>
      /\ UNCHANGED <<fn, m_last_filename>>
  BY DEF make_filename_New
<1>2. /\ UNCHANGED <<today, wentBack, mode, lock, line, m_log_list, opened, files, stored, stamps>>
      /\ pc' \in [Threads -> {"idle", "stamped", "renaming", "named"}] /\ pc'[t] = "renaming"
      /\ \A s \in Threads : s # t => pc'[s] = "idle" /\ pc[s] = "idle"
      /\ lock = t /\ lock # Nobody /\ line[t] = Len(stamps)
      /\ Holder' /\ Written' /\ LinesInOrder' /\ Kept'
      /\ \A r : Unbroken(r)' <=> Unbroken(r)
      /\ \A n : Previous(n)' <=> Previous(n)
  BY <1>1, NamingKeeps
<1>3. /\ \A s \in Threads : pc'[s] \notin {"stamped", "named"}
      /\ \A s \in Threads : pc'[s] = "renaming" => s = t
  BY <1>1, <1>2
<1>4. today \in Day /\ today \in Int /\ today # NoDay
  BY DEF IInv, TypeOK, Day, NoDay
<1>5. TypeOK'
  BY <1>1, <1>2, <1>3, <1>4 DEF IInv, TypeOK
<1>6. Names'
  BY <1>1, <1>2, <1>3, <1>4 DEF IInv, Names
<1>7. Forward'
  <2>1. ~wentBack => stamps[line[t]] <= today
    BY <1>1 DEF IInv, Forward
  <2>2. today <= today
    BY <1>4
  <2>3. QED
    BY <1>1, <1>2, <1>3, <2>1, <2>2 DEF IInv, Forward
<1>8. Days'
  <2>1. ASSUME ~wentBack, NEW r \in stored, r.file # Plain, Unbroken(r)
        PROVE  stamps[r.line] <= today /\ r.file \in stamps[r.line] .. r.day
    <3>1. stamps[r.line] <= m_last_day /\ r.file \in stamps[r.line] .. r.day
      BY <2>1 DEF IInv, Days
    <3>2. m_last_day <= today /\ m_last_day \in Int
      BY <2>1 DEF IInv, Forward, TypeOK, Day, NoDay
    <3>3. QED
      BY <1>4, <3>1, <3>2, Stamps
  <2>2. QED
    BY <1>1, <1>2, <1>3, <2>1 DEF IInv, Days
<1>9. QED
  BY <1>2, <1>5, <1>6, <1>7, <1>8 DEF IInv

(* The name is that of a day on or after the one noted. *)
LEMMA RenamePreserves ==
  ASSUME IInv, NEW t \in Threads, make_filename_Rename(t)
  PROVE  IInv'
<1>1. /\ pc[t] = "renaming" /\ m_last_filename' = today
      /\ fn' = [fn EXCEPT ![t] = today] /\ pc' = [pc EXCEPT ![t] = "named"]
      /\ UNCHANGED <<clockVars, mode, lock, line, diskVars, stamps>>
      /\ m_last_day' = m_last_day
  BY DEF make_filename_Rename
<1>2. /\ UNCHANGED <<today, wentBack, mode, lock, line, m_log_list, opened, files, stored, stamps>>
      /\ pc' \in [Threads -> {"idle", "stamped", "renaming", "named"}] /\ pc'[t] = "named"
      /\ \A s \in Threads : s # t => pc'[s] = "idle" /\ pc[s] = "idle"
      /\ lock = t /\ lock # Nobody /\ line[t] = Len(stamps)
      /\ Holder' /\ Written' /\ LinesInOrder' /\ Kept'
      /\ \A r : Unbroken(r)' <=> Unbroken(r)
      /\ \A n : Previous(n)' <=> Previous(n)
  BY <1>1, NamingKeeps
<1>3. /\ \A s \in Threads : pc'[s] \notin {"stamped", "renaming"}
      /\ \A s \in Threads : pc'[s] = "named" => s = t
  BY <1>1, <1>2
<1>4. today \in Day /\ today \in Int /\ today # NoDay
  BY DEF IInv, TypeOK, Day, NoDay
<1>5. fn' \in [Threads -> Day \cup {NoDay}] /\ fn'[t] = today
  BY <1>1, <1>4 DEF IInv, TypeOK
<1>6. TypeOK'
  BY <1>1, <1>2, <1>3, <1>4, <1>5 DEF IInv, TypeOK
<1>7. mode = "auto" /\ m_last_day # NoDay /\ m_last_day \in Day /\ m_last_day \in Int
  BY <1>1 DEF IInv, Names, TypeOK, Day, NoDay
<1>8. Names'
  BY <1>1, <1>2, <1>3, <1>4, <1>5, <1>7 DEF IInv, Names
<1>9. Forward'
  <2> SUFFICES ASSUME ~wentBack' PROVE Forward'
    BY DEF Forward
  <2>1. m_last_day <= today /\ m_last_filename <= today /\ today <= today
    BY <1>2, <1>4 DEF IInv, Forward
  <2>2. \A r \in stored : r.file <= today
    <3> TAKE r \in stored
    <3>1. r.file <= m_last_filename /\ r.file \in Int
      BY <1>2, Stamps DEF IInv, Forward
    <3>2. m_last_filename \in Int
      BY DEF IInv, TypeOK, Day, NoDay
    <3>3. QED
      BY <1>4, <2>1, <3>1, <3>2
  <2>3. QED
    BY <1>1, <1>2, <1>3, <2>1, <2>2 DEF Forward
<1>10. Days'
  <2>1. ASSUME ~wentBack PROVE AskedOn(t, m_last_day)'
    <3>1. m_last_day <= today /\ stamps[line[t]] <= m_last_day
      BY <1>1, <2>1 DEF IInv, Forward
    <3>2. m_last_day <= m_last_day
      BY <1>7
    <3>3. QED
      BY <1>1, <1>2, <3>1, <3>2 DEF AskedOn
  <2>2. ~wentBack => \A s \in Threads : pc'[s] = "named" => \E d \in Day : AskedOn(s, d)'
    BY <1>1, <1>3, <1>7, <2>1
  <2>3. QED
    BY <1>1, <1>2, <1>3, <2>2 DEF IInv, Days
<1>11. QED
  BY <1>2, <1>6, <1>8, <1>9, <1>10 DEF IInv

(* The record of the line thread t writes now. *)
Record(t, f) == [line |-> line[t], file |-> f, day |-> today]

(* A file that the write found gone or left alone. *)
LeavesOrEmpties(disk) ==
  /\ disk \in [File -> Seq(1 .. MaxLines)]
  /\ \A g \in File : disk[g] = files[g] \/ disk[g] = <<>>

(* What a write does to the lines of every file. *)
LEMMA PutFiles ==
  ASSUME IInv, NEW t \in Threads, pc[t] # "idle", NEW f \in File, NEW isOpen \in BOOLEAN,
         NEW disk, LeavesOrEmpties(disk), Put(t, f, isOpen, disk)
  PROVE  /\ files' \in [File -> Seq(1 .. MaxLines)]
         /\ \A g \in File : g # f \/ ~isOpen => files'[g] = disk[g]
         /\ isOpen => /\ Len(files'[f]) = Len(disk[f]) + 1
                      /\ \A i \in 1 .. Len(disk[f]) : files'[f][i] = disk[f][i]
                      /\ files'[f][Len(disk[f]) + 1] = line[t]
<1>1. line[t] \in 1 .. MaxLines
  BY Alone DEF IInv
<1>2. disk[f] \in Seq(1 .. MaxLines)
  BY DEF LeavesOrEmpties
<1>3. CASE isOpen
  <2>1. files' = [disk EXCEPT ![f] = Append(disk[f], line[t])]
    BY <1>3 DEF Put
  <2>2. /\ Append(disk[f], line[t]) \in Seq(1 .. MaxLines)
        /\ Len(Append(disk[f], line[t])) = Len(disk[f]) + 1
        /\ \A i \in 1 .. Len(disk[f]) : Append(disk[f], line[t])[i] = disk[f][i]
        /\ Append(disk[f], line[t])[Len(disk[f]) + 1] = line[t]
    BY <1>1, <1>2, AppendProperties
  <2>3. files' \in [File -> Seq(1 .. MaxLines)] /\ files'[f] = Append(disk[f], line[t])
    BY <2>1, <2>2 DEF LeavesOrEmpties
  <2>4. \A g \in File : g # f => files'[g] = disk[g]
    BY <2>1 DEF LeavesOrEmpties
  <2>5. QED
    BY <1>3, <2>2, <2>3, <2>4
<1>4. CASE ~isOpen
  <2>1. files' = disk
    BY <1>4 DEF Put
  <2>2. QED
    BY <1>4, <2>1 DEF LeavesOrEmpties
<1>5. QED
  BY <1>3, <1>4

(* The lines of a file stay in order, since the newest is the last.         *)
LEMMA PutLines ==
  ASSUME IInv, NEW t \in Threads, pc[t] # "idle", NEW f \in File, NEW isOpen \in BOOLEAN,
         NEW disk, LeavesOrEmpties(disk), Put(t, f, isOpen, disk)
  PROVE  /\ \A g \in File : \A i \in 1 .. Len(files'[g]) : files'[g][i] <= Len(stamps)
         /\ LinesInOrder'
<1>0. /\ \A g \in File : g # f \/ ~isOpen => files'[g] = disk[g]
      /\ isOpen => /\ Len(files'[f]) = Len(disk[f]) + 1
                   /\ \A i \in 1 .. Len(disk[f]) : files'[f][i] = disk[f][i]
                   /\ files'[f][Len(disk[f]) + 1] = line[t]
  BY PutFiles
<1>1. line[t] = Len(stamps) /\ Len(stamps) \in Nat /\ lock # Nobody
  BY Alone DEF IInv
<1>2. ASSUME NEW g \in File, NEW i \in 1 .. Len(disk[g])
      PROVE  /\ disk[g][i] \in Int /\ disk[g][i] < Len(stamps) /\ disk[g][i] <= Len(stamps)
             /\ i + 1 \in 1 .. Len(disk[g]) => disk[g][i] < disk[g][i + 1]
  <2>1. disk[g] = files[g] /\ disk[g] \in Seq(1 .. MaxLines) /\ Len(disk[g]) \in Nat
    <3>1. Len(<<>>) = 0
      BY EmptySeq
    <3>2. disk[g] # <<>>
      BY <1>2, <3>1
    <3>3. QED
      BY <3>2 DEF LeavesOrEmpties
  <2>2. disk[g][i] \in Int /\ disk[g][i] < Len(stamps)
    BY <1>1, <1>2, <2>1, Entries DEF IInv, Written
  <2>3. ASSUME i + 1 \in 1 .. Len(disk[g]) PROVE disk[g][i] < disk[g][i + 1]
    <3>1. i \in 1 .. Len(disk[g]) - 1
      BY <1>2, <2>1, <2>3
    <3>2. QED
      BY <2>1, <3>1 DEF IInv, LinesInOrder
  <2>4. QED
    BY <1>1, <2>2, <2>3
<1>3. ASSUME NEW g \in File
      PROVE  /\ \A i \in 1 .. Len(files'[g]) : files'[g][i] <= Len(stamps)
             /\ \A i \in 1 .. Len(files'[g]) - 1 : files'[g][i] < files'[g][i + 1]
  <2>1. disk[g] \in Seq(1 .. MaxLines) /\ Len(disk[g]) \in Nat
    BY DEF LeavesOrEmpties
  <2>2. CASE g # f \/ ~isOpen
    <3>1. files'[g] = disk[g]
      BY <2>2, <1>0
    <3>2. \A i \in 1 .. Len(disk[g]) - 1 : i \in 1 .. Len(disk[g]) /\ i + 1 \in 1 .. Len(disk[g])
      BY <2>1
    <3>3. QED
      BY <1>2, <3>1, <3>2
  <2>3. CASE g = f /\ isOpen
    <3> DEFINE n == Len(disk[g])
    <3>1. /\ Len(files'[g]) = n + 1
          /\ \A i \in 1 .. n : files'[g][i] = disk[g][i]
          /\ files'[g][n + 1] = Len(stamps)
      <4>1. /\ Len(files'[f]) = Len(disk[f]) + 1
            /\ \A i \in 1 .. Len(disk[f]) : files'[f][i] = disk[f][i]
            /\ files'[f][Len(disk[f]) + 1] = line[t]
        BY <2>3, <1>0
      <4>2. QED
        BY <1>1, <2>3, <4>1
    <3>2. ASSUME NEW i \in 1 .. n + 1 PROVE files'[g][i] <= Len(stamps)
      <4>1. CASE i \in 1 .. n
        BY <1>2, <3>1, <4>1
      <4>2. CASE i = n + 1
        BY <1>1, <3>1, <4>2
      <4>3. QED
        BY <2>1, <4>1, <4>2
    <3>3. ASSUME NEW i \in 1 .. n PROVE files'[g][i] < files'[g][i + 1]
      <4>1. CASE i + 1 \in 1 .. n
        BY <1>2, <3>1, <4>1
      <4>2. CASE i = n
        BY <1>2, <3>1, <4>2
      <4>3. QED
        BY <2>1, <4>1, <4>2
    <3>4. 1 .. (n + 1) - 1 = 1 .. n
      BY <2>1
    <3>5. QED
      BY <3>1, <3>2, <3>3, <3>4
  <2>4. QED
    BY <2>2, <2>3
<1>4. QED
  BY <1>3 DEF LinesInOrder

(* Where the line goes: the plain file, or the one that was named. *)
GoesTo(t, f) ==
  \/ pc[t] = "stamped" /\ mode = "plain" /\ f = Plain
  \/ pc[t] = "named" /\ mode = "auto" /\ f = fn[t]

(* Everything a write changes besides the files and the list.              *)
LEMMA PutEffect ==
  ASSUME IInv, NEW t \in Threads, NEW f \in File, GoesTo(t, f), NEW isOpen \in BOOLEAN,
         NEW disk, Put(t, f, isOpen, disk)
  PROVE  /\ UNCHANGED <<today, wentBack, mode, m_last_day, m_last_filename, stamps>>
         /\ pc[t] # "idle" /\ line[t] = Len(stamps) /\ lock = t /\ lock # Nobody
         /\ stored' = stored \cup {Record(t, f)}
         /\ Record(t, f) \in [line : 1 .. MaxLines, file : File, day : Day]
         /\ Record(t, f).line = Len(stamps) /\ Record(t, f).file = f /\ Record(t, f).day = today
         /\ lock' = Nobody
         /\ pc' \in [Threads -> {"idle", "stamped", "renaming", "named"}]
         /\ line' \in [Threads -> 0 .. MaxLines] /\ fn' \in [Threads -> Day \cup {NoDay}]
         /\ \A s \in Threads : pc'[s] = "idle" /\ (s # t => pc[s] = "idle")
         /\ Len(stamps) \in 1 .. MaxLines
         /\ f # Plain => f = m_last_filename /\ mode = "auto" /\ pc[t] = "named"
         /\ f = Plain => mode = "plain"
<1>1. UNCHANGED <<today, wentBack, mode, m_last_day, m_last_filename, stamps>>
  BY DEF Put, clockVars, nameVars
<1>2. pc[t] # "idle"
  BY DEF GoesTo
<1>3. /\ line[t] = Len(stamps) /\ Len(stamps) \in 1 .. MaxLines /\ lock = t /\ lock # Nobody
      /\ \A s \in Threads : s # t => pc[s] = "idle"
  BY <1>2, Alone DEF IInv
<1>4. /\ stored' = stored \cup {Record(t, f)} /\ lock' = Nobody
      /\ Record(t, f) \in [line : 1 .. MaxLines, file : File, day : Day]
      /\ Record(t, f).line = Len(stamps) /\ Record(t, f).file = f /\ Record(t, f).day = today
  BY <1>3 DEF Put, Record, IInv, TypeOK
<1>5. pc' \in [Threads -> {"idle", "stamped", "renaming", "named"}] /\ \A s \in Threads : pc'[s] = "idle"
  BY <1>3 DEF Put, IInv, TypeOK
<1>6. line' \in [Threads -> 0 .. MaxLines] /\ fn' \in [Threads -> Day \cup {NoDay}]
  BY LoggerAssumption DEF Put, IInv, TypeOK
<1>7. /\ f # Plain => f = m_last_filename /\ mode = "auto" /\ pc[t] = "named"
      /\ f = Plain => mode = "plain"
  <2>1. pc[t] = "named" => fn[t] = m_last_filename /\ fn[t] \in Day
    BY DEF IInv, TypeOK, Names
  <2>2. Plain \notin Day
    BY DEF Plain, Day
  <2>3. QED
    BY <2>1, <2>2 DEF GoesTo
<1>8. QED
  BY <1>1, <1>2, <1>3, <1>4, <1>5, <1>6, <1>7

(* Whether the lines up to r came often enough does not change any more.   *)
LEMMA PutUnbroken ==
  ASSUME IInv, NEW t \in Threads, NEW f \in File, GoesTo(t, f), NEW isOpen \in BOOLEAN,
         NEW disk, Put(t, f, isOpen, disk)
  PROVE  /\ \A r \in stored : Unbroken(r)' => Unbroken(r)
         /\ \A new : new = Record(t, f) /\ Unbroken(new)' =>
              \A q \in stored : q.line = Len(stamps) - 1 =>
                Unbroken(q) /\ today - stamps[q.line] < DaysPerMonth
<1>1. stored' = stored \cup {Record(t, f)} /\ stamps' = stamps
  BY PutEffect
<1>2. \A r \in stored : Unbroken(r)' => Unbroken(r)
  BY <1>1 DEF Unbroken
<1>3. ASSUME NEW new, new = Record(t, f), Unbroken(new)', NEW q \in stored, q.line = Len(stamps) - 1
      PROVE  Unbroken(q) /\ today - stamps[q.line] < DaysPerMonth
  <2>1. new.line = Len(stamps) /\ new.day = today /\ Len(stamps) \in Int
    BY <1>3, PutEffect
  <2>2. \A p, o \in stored' : o.line < Len(stamps) /\ p.line = o.line + 1
          => p.day - stamps[o.line] < DaysPerMonth
    BY <1>1, <1>3, <2>1 DEF Unbroken
  <2>3. q.line < Len(stamps) /\ Len(stamps) = q.line + 1 /\ q.line \in Int
    BY <1>3, <2>1
  <2>4. today - stamps[q.line] < DaysPerMonth
    BY <1>1, <1>3, <2>1, <2>2, <2>3
  <2>5. ASSUME NEW p \in stored, NEW o \in stored, o.line < q.line, p.line = o.line + 1
        PROVE  p.day - stamps[o.line] < DaysPerMonth
    <3>1. o.line \in Int
      BY Stamps
    <3>2. o.line < Len(stamps)
      BY <2>3, <2>5, <3>1
    <3>3. QED
      BY <1>1, <2>2, <2>5, <3>2
  <2>6. QED
    BY <2>4, <2>5 DEF Unbroken
<1>4. QED
  BY <1>2, <1>3

(* If the lines came often enough, the thread asked on the very day of the  *)
(* last name, and its file is that of a day from the time stamp to now.     *)
LEMMA NameFits ==
  ASSUME IInv, NEW t \in Threads, NEW f \in File, GoesTo(t, f), NEW isOpen \in BOOLEAN,
         NEW disk, Put(t, f, isOpen, disk), ~wentBack, f # Plain,
         NEW new, new = Record(t, f), Unbroken(new)'
  PROVE  stamps[line[t]] <= m_last_day /\ f \in stamps[line[t]] .. today
<1>1. /\ f = m_last_filename /\ mode = "auto" /\ pc[t] = "named" /\ line[t] = Len(stamps)
      /\ \A s \in Threads : pc[s] # "renaming"
  BY PutEffect
<1>2. PICK d \in Day : AskedOn(t, d)
  BY <1>1 DEF IInv, Days
<1>3. /\ m_last_day \in Day /\ m_last_day \in Nat /\ d \in Nat /\ today \in Int
      /\ m_last_filename \in Int /\ stamps[line[t]] \in Int
  <2>1. m_last_day \in Day /\ today \in Day /\ m_last_filename \in Day \cup {NoDay}
    BY <1>1 DEF IInv, TypeOK, Names
  <2>2. stamps[line[t]] \in Int
    BY <1>1, Stamps
  <2>3. QED
    BY <2>1, <2>2 DEF Day, NoDay
<1>4. d = m_last_day
  <2>1. CASE Previous(line[t])
    <3>1. PICK q \in stored : q.line = Len(stamps) - 1
      BY <1>1, <2>1 DEF Previous
    <3>2. Unbroken(q) /\ today - stamps[q.line] < DaysPerMonth
      BY <3>1, PutUnbroken
    <3>3. q.file # Plain
      BY <1>1 DEF IInv, Names
    <3>4. stamps[q.line] <= m_last_day /\ stamps[q.line] \in Int
      BY <3>2, <3>3, Stamps DEF IInv, Days
    <3>5. m_last_day <= d /\ d <= today /\ day(d) = day(m_last_day)
      BY <1>2 DEF AskedOn
    <3>6. DaysPerMonth \in Int
      BY LoggerAssumption
    <3>7. d < m_last_day + DaysPerMonth
      BY <1>3, <3>2, <3>4, <3>5, <3>6
    <3>8. QED
      BY <1>3, <3>5, <3>7, SameDayOfMonth
  <2>2. CASE ~Previous(line[t])
    BY <1>2, <2>2 DEF AskedOn
  <2>3. QED
    BY <2>1, <2>2
<1>5. stamps[line[t]] <= m_last_day
  BY <1>2, <1>4 DEF AskedOn
<1>6. m_last_day <= m_last_filename /\ m_last_filename <= today
  BY <1>1 DEF IInv, Forward
<1>7. QED
  BY <1>1, <1>3, <1>5, <1>6

(* What every write preserves, wherever its line goes.                      *)
LEMMA PutKeeps ==
  ASSUME IInv, NEW t \in Threads, NEW f \in File, GoesTo(t, f), NEW isOpen \in BOOLEAN,
         NEW disk, LeavesOrEmpties(disk), Put(t, f, isOpen, disk)
  PROVE  Holder' /\ Written' /\ LinesInOrder' /\ Forward' /\ Days'
<1>1. PICK new : new = Record(t, f)
  OBVIOUS
<1>2. /\ stored' = stored \cup {new} /\ new.line = Len(stamps) /\ new.file = f /\ new.day = today
      /\ line[t] = Len(stamps) /\ Len(stamps) \in 1 .. MaxLines /\ lock' = Nobody
      /\ UNCHANGED <<today, wentBack, mode, m_last_day, m_last_filename, stamps>>
  BY <1>1, PutEffect
<1>3. /\ \A s \in Threads : pc[s] # "renaming" /\ pc'[s] = "idle"
      /\ f # Plain => f = m_last_filename
      /\ f = Plain => mode = "plain"
  <2>1. /\ \A s \in Threads : pc'[s] = "idle" /\ (s # t => pc[s] = "idle")
        /\ f # Plain => f = m_last_filename
        /\ f = Plain => mode = "plain"
    BY PutEffect
  <2>2. pc[t] # "renaming"
    BY DEF GoesTo
  <2>3. QED
    BY <2>1, <2>2
<1>4. Holder'
  <2>1. Len(stamps) \in 0 .. MaxLines
    BY <1>2
  <2>2. QED
    BY <1>2, <1>3, <2>1, LoggerAssumption DEF Holder
<1>5. Written' /\ LinesInOrder'
  <2>1. /\ \A g \in File : \A i \in 1 .. Len(files'[g]) : files'[g][i] <= Len(stamps)
        /\ LinesInOrder'
    BY PutLines, PutEffect
  <2>2. \A r \in stored' : r.line <= Len(stamps)
    BY <1>2 DEF IInv, Written
  <2>3. QED
    BY <1>2, <2>1, <2>2 DEF Written
<1>6. Forward'
  <2>1. f <= m_last_filename
    <3>1. m_last_filename \in Int /\ Plain <= m_last_filename
      BY DEF IInv, TypeOK, Day, NoDay, Plain
    <3>2. QED
      BY <1>3, <3>1
  <2>2. QED
    BY <1>2, <1>3, <2>1 DEF IInv, Forward
<1>7. Days'
  <2>1. Previous(Len(stamps) + 1)'
    <3>1. new \in stored' /\ new.line = (Len(stamps) + 1) - 1
      BY <1>2
    <3>2. QED
      BY <1>2, <3>1 DEF Previous
  <2>2. ASSUME ~wentBack', NEW r \in stored', r.file # Plain, Unbroken(r)'
        PROVE  stamps[r.line] <= m_last_day /\ r.file \in stamps[r.line] .. r.day
    <3>1. CASE r \in stored
      <4>1. Unbroken(r)
        BY <2>2, <3>1, PutUnbroken
      <4>2. QED
        BY <1>2, <2>2, <3>1, <4>1 DEF IInv, Days
    <3>2. CASE r = new
      <4>1. stamps[line[t]] <= m_last_day /\ f \in stamps[line[t]] .. today
        BY <1>1, <1>2, <2>2, <3>2, NameFits
      <4>2. QED
        BY <1>2, <3>2, <4>1
    <3>3. QED
      BY <1>2, <3>1, <3>2
  <2>3. QED
    BY <1>2, <1>3, <2>1, <2>2 DEF Days
<1>8. QED
  BY <1>4, <1>5, <1>6, <1>7

(* A line written to a file whose stream is open is there.                  *)
LEMMA PutHolds ==
  ASSUME IInv, NEW t \in Threads, NEW f \in File, GoesTo(t, f), NEW isOpen \in BOOLEAN,
         NEW disk, LeavesOrEmpties(disk), Put(t, f, isOpen, disk), NEW r \in stored',
         \/ r \in stored /\ Holds(r) /\ disk[r.file] = files[r.file]
         \/ r = Record(t, f) /\ isOpen
  PROVE  Holds(r)'
<1>1. /\ stored' = stored \cup {Record(t, f)} /\ line[t] = Len(stamps) /\ pc[t] # "idle"
      /\ Record(t, f).line = Len(stamps) /\ Record(t, f).file = f
  BY PutEffect
<1>2. /\ \A g \in File : g # f \/ ~isOpen => files'[g] = disk[g]
      /\ isOpen => /\ Len(files'[f]) = Len(disk[f]) + 1
                   /\ \A i \in 1 .. Len(disk[f]) : files'[f][i] = disk[f][i]
                   /\ files'[f][Len(disk[f]) + 1] = line[t]
  BY <1>1, PutFiles
<1>3. disk[f] \in Seq(1 .. MaxLines) /\ Len(disk[f]) \in Nat
  BY DEF LeavesOrEmpties
<1>4. CASE r \in stored /\ Holds(r) /\ disk[r.file] = files[r.file]
  <2>1. PICK i \in 1 .. Len(files[r.file]) : files[r.file][i] = r.line
    BY <1>4 DEF Holds
  <2>2. CASE r.file # f \/ ~isOpen
    <3>1. files'[r.file] = files[r.file]
      BY <1>2, <1>4, <2>2, Stamps
    <3>2. QED
      BY <2>1, <3>1 DEF Holds
  <2>3. CASE r.file = f /\ isOpen
    <3>1. i \in 1 .. Len(files'[r.file]) /\ files'[r.file][i] = r.line
      BY <1>2, <1>3, <1>4, <2>1, <2>3
    <3>2. QED
      BY <3>1 DEF Holds
  <2>4. QED
    BY <2>2, <2>3
<1>5. CASE r = Record(t, f) /\ isOpen
  <2>1. r.file = f /\ r.line = Len(stamps)
    BY <1>1, <1>5
  <2>2. Len(disk[f]) + 1 \in 1 .. Len(files'[f]) /\ files'[f][Len(disk[f]) + 1] = line[t]
    BY <1>2, <1>3, <1>5
  <2>3. QED
    BY <1>1, <2>1, <2>2 DEF Holds
<1>6. QED
  BY <1>4, <1>5

(* A write to the plain file, or to a file that is kept. *)
LEMMA WriteToKnownPreserves ==
  ASSUME IInv, NEW t \in Threads, NEW f \in File, GoesTo(t, f), f # Plain => f \in m_log_list,
         Put(t, f, f \in opened, files), UNCHANGED <<m_log_list, opened>>
  PROVE  IInv'
<1>0. PICK isOpen \in BOOLEAN : (isOpen <=> f \in opened) /\ Put(t, f, isOpen, files)
  <2> WITNESS (f \in opened) \in BOOLEAN
  <2> QED
    OBVIOUS
<1>1. PICK new : new = Record(t, f)
  OBVIOUS
<1>2. /\ stored' = stored \cup {new} /\ new.file = f
      /\ new \in [line : 1 .. MaxLines, file : File, day : Day]
      /\ UNCHANGED <<today, wentBack, mode, m_last_day, m_last_filename, stamps>>
      /\ pc' \in [Threads -> {"idle", "stamped", "renaming", "named"}] /\ lock' = Nobody
      /\ line' \in [Threads -> 0 .. MaxLines] /\ fn' \in [Threads -> Day \cup {NoDay}]
      /\ \A s \in Threads : pc'[s] = "idle"
      /\ f # Plain => mode = "auto"
      /\ f = Plain => mode = "plain"
      /\ pc[t] # "idle" /\ \A s \in Threads : pc[s] # "renaming"
  BY <1>0, <1>1, PutEffect DEF GoesTo
<1>3. LeavesOrEmpties(files)
  BY DEF LeavesOrEmpties, IInv, TypeOK
<1>4. Holder' /\ Written' /\ LinesInOrder' /\ Forward' /\ Days'
  BY <1>0, <1>3, PutKeeps
<1>5. files' \in [File -> Seq(1 .. MaxLines)]
  BY <1>0, <1>2, <1>3, PutFiles
<1>6. TypeOK'
  BY <1>2, <1>5 DEF IInv, TypeOK
<1>7. Names'
  BY <1>2 DEF IInv, Names
<1>8. Kept'
  <2>1. \A g \in m_log_list : \E r \in stored' : r.file = g
    BY <1>2 DEF IInv, Kept
  <2>2. ASSUME ~wentBack', NEW r \in stored'
        PROVE  /\ r.file \in opened => Holds(r)'
               /\ r.file # Plain =>
                    \/ r.file \in m_log_list
                    \/ /\ Cardinality(m_log_list) = LogFileNum
                       /\ \A g \in m_log_list : r.file < g
    <3>1. CASE r \in stored
      <4>1. /\ r.file \in opened => Holds(r)
            /\ r.file # Plain =>
                 \/ r.file \in m_log_list
                 \/ /\ Cardinality(m_log_list) = LogFileNum
                    /\ \A g \in m_log_list : r.file < g
        BY <1>2, <2>2, <3>1 DEF IInv, Kept
      <4>2. Holds(r) => Holds(r)'
        BY <1>0, <1>3, <3>1, PutHolds
      <4>3. QED
        BY <4>1, <4>2
    <3>2. CASE r = new
      <4>1. isOpen => Holds(r)'
        BY <1>0, <1>1, <1>3, <3>2, PutHolds
      <4>2. QED
        BY <1>0, <1>2, <3>2, <4>1
    <3>3. QED
      BY <1>2, <3>1, <3>2
  <2>3. QED
    BY <2>1, <2>2 DEF Kept
<1>9. QED
  BY <1>4, <1>6, <1>7, <1>8 DEF IInv

LEMMA WritePlainPreserves ==
  ASSUME IInv, NEW t \in Threads, WritePlain(t)
  PROVE  IInv'
BY WriteToKnownPreserves DEF WritePlain, GoesTo, File

LEMMA WriteKeptPreserves ==
  ASSUME IInv, NEW t \in Threads, WriteKept(t)
  PROVE  IInv'
<1>1. fn[t] \in File /\ mode = "auto"
  BY DEF WriteKept, IInv, Names, File
<1>2. QED
  BY <1>1, WriteToKnownPreserves DEF WriteKept, GoesTo

(* The list with a new file, and what it loses: nothing, or the first file. *)
With(f) == m_log_list \cup {f}

LosesFirst(list, out) ==
  \E m \in list : /\ out = {m} /\ \A g \in list : m <= g
                  /\ Cardinality(list \ out) = LogFileNum /\ m_log_list # {}

LosesNothing(out) == out = {} /\ Cardinality(m_log_list) < LogFileNum

LEMMA Eviction ==
  ASSUME IInv, NEW f \in Day, f \notin m_log_list,
         NEW list, list = With(f), NEW out, out = Excess(list)
  PROVE  /\ list \in SUBSET Day /\ out \in SUBSET list /\ Cardinality(list \ out) <= LogFileNum
         /\ LosesNothing(out) \/ LosesFirst(list, out)
<1>0. list = m_log_list \cup {f}
  BY DEF With
<1>1. /\ m_log_list \in SUBSET Day /\ list \in SUBSET Day /\ Cardinality(m_log_list) <= LogFileNum
      /\ LogFileNum \in Nat \ {0}
  BY <1>0, LoggerAssumption DEF IInv, TypeOK
<1>2. /\ IsFiniteSet(m_log_list) /\ Cardinality(m_log_list) \in Nat /\ IsFiniteSet(list)
  BY <1>1, FewDays
<1>3. Cardinality(list) = Cardinality(m_log_list) + 1
  BY <1>0, <1>2, FS_AddElement
<1>4. CASE Cardinality(list) <= LogFileNum
  <2>1. ~(Cardinality(list) > LogFileNum)
    BY <1>1, <1>2, <1>3, <1>4
  <2>2. out = {}
    BY <2>1 DEF Excess
  <2>3. list \ out = list
    BY <2>2
  <2>4. Cardinality(m_log_list) < LogFileNum
    BY <1>1, <1>2, <1>3, <1>4
  <2>5. QED
    BY <1>1, <1>4, <2>2, <2>3, <2>4 DEF LosesNothing
<1>5. CASE Cardinality(list) > LogFileNum
  <2>1. Cardinality(m_log_list) = LogFileNum
    BY <1>1, <1>2, <1>3, <1>5
  <2>2. \A g \in list : g \in Nat
    BY <1>1 DEF Day
  <2>3. PICK m \in list : \A g \in list : ~(g < m)
    <3>1. list \in SUBSET Nat /\ list # {}
      BY <1>0, <2>2
    <3>2. QED
      BY <3>1, LeastElement
  <2>4. \A g \in list : m <= g
    BY <2>2, <2>3
  <2>5. out = {m}
    <3>1. out = {e \in list : \A g \in list : e <= g}
      BY <1>5 DEF Excess
    <3>2. \A e \in list : (\A g \in list : e <= g) => e = m
      BY <2>2, <2>4
    <3>3. QED
      BY <2>4, <3>1, <3>2
  <2>6. Cardinality(list \ out) = LogFileNum
    <3>1. Cardinality(list \ {m}) = Cardinality(list) - 1
      BY <1>2, FS_RemoveElement
    <3>2. QED
      BY <1>1, <1>3, <2>1, <2>5, <3>1
  <2>7. m_log_list # {}
    BY <1>1, <2>1, FS_EmptySet
  <2>8. out # {} /\ out \in SUBSET list /\ m \in list
    BY <2>5
  <2>9. Cardinality(list \ out) <= LogFileNum
    BY <1>1, <2>6
  <2>10. LosesFirst(list, out)
    BY <2>4, <2>5, <2>6, <2>7 DEF LosesFirst
  <2>11. QED
    BY <1>1, <2>8, <2>9, <2>10
<1>6. Cardinality(list) <= LogFileNum \/ Cardinality(list) > LogFileNum
  BY <1>1, <1>2, <1>3
<1>7. QED
  BY <1>4, <1>5, <1>6

(* Under a clock that is not set back a name that is not in the list is new, *)
(* and behind all the others.                                               *)
LEMMA FreshName ==
  ASSUME IInv, ~wentBack, NEW r \in stored, r.file # Plain, m_last_filename \notin m_log_list
  PROVE  r.file < m_last_filename
<1>1. r.file <= m_last_filename /\ r.file \in Int /\ m_last_filename \in Int
  BY Stamps DEF IInv, Forward, TypeOK, Day, NoDay
<1>2. ASSUME r.file = m_last_filename PROVE FALSE
  <2>1. Cardinality(m_log_list) = LogFileNum /\ \A g \in m_log_list : r.file < g
    BY <1>2 DEF IInv, Kept
  <2>2. m_log_list # {}
    BY <2>1, LoggerAssumption, FS_EmptySet
  <2>3. PICK g \in m_log_list : r.file < g
    BY <2>1, <2>2
  <2>4. PICK q \in stored : q.file = g
    BY DEF IInv, Kept
  <2>5. g <= m_last_filename /\ g \in Int
    BY <2>4, Stamps DEF IInv, Forward
  <2>6. QED
    BY <1>1, <1>2, <2>3, <2>5
<1>3. QED
  BY <1>1, <1>2

(* A write to a file that is not in the list. *)
LEMMA WriteNewPreserves ==
  ASSUME IInv, NEW t \in Threads, NEW opens \in BOOLEAN, NEW removed \in BOOLEAN,
         WriteNew(t, opens, removed)
  PROVE  IInv'
<1>f. PICK f : f = fn[t]
  OBVIOUS
<1>l. PICK list : list = m_log_list \cup {f}
  OBVIOUS
<1>w. list = With(f)
  BY <1>l DEF With
<1>o. PICK out : out = Excess(list)
  OBVIOUS
<1>d. PICK disk : disk = [g \in File |-> IF g \in out /\ removed THEN <<>> ELSE files[g]]
  OBVIOUS
<1>1. /\ pc[t] = "named" /\ f \notin m_log_list /\ m_log_list' = list \ out
      /\ opened' = (opened \cup (IF opens THEN {f} ELSE {})) \ out
  BY <1>f, <1>l, <1>o DEF WriteNew, StillOpen
<1>2. PICK isOpen \in BOOLEAN : (isOpen <=> f \in opened') /\ Put(t, f, isOpen, disk)
  <2>1. Put(t, f, f \in opened', disk)
    BY <1>1, <1>f, <1>l, <1>o, <1>d DEF WriteNew, StillOpen
  <2>2. \E isOpen \in BOOLEAN : (isOpen <=> f \in opened') /\ Put(t, f, isOpen, disk)
    <3> WITNESS (f \in opened') \in BOOLEAN
    <3> QED
      BY <2>1
  <2>3. QED
    BY <2>2
<1>3. f \in Day /\ f \in File /\ GoesTo(t, f) /\ f # Plain
  BY <1>1, <1>f DEF IInv, Names, GoesTo, File, Day, Plain
<1>4. LeavesOrEmpties(disk) /\ \A g \in File : g \notin out => disk[g] = files[g]
  BY <1>d, EmptySeq DEF LeavesOrEmpties, IInv, TypeOK
<1>5. PICK new : new = Record(t, f)
  OBVIOUS
<1>6. /\ stored' = stored \cup {new} /\ new.file = f
      /\ new \in [line : 1 .. MaxLines, file : File, day : Day]
      /\ UNCHANGED <<today, wentBack, mode, m_last_day, m_last_filename, stamps>>
      /\ pc' \in [Threads -> {"idle", "stamped", "renaming", "named"}] /\ lock' = Nobody
      /\ line' \in [Threads -> 0 .. MaxLines] /\ fn' \in [Threads -> Day \cup {NoDay}]
      /\ \A s \in Threads : pc'[s] = "idle"
      /\ f = m_last_filename /\ mode = "auto"
      /\ pc[t] # "idle" /\ \A s \in Threads : pc[s] # "renaming"
  BY <1>1, <1>2, <1>3, <1>5, PutEffect
<1>7. Holder' /\ Written' /\ LinesInOrder' /\ Forward' /\ Days'
  BY <1>2, <1>3, <1>4, PutKeeps
<1>8. files' \in [File -> Seq(1 .. MaxLines)]
  BY <1>2, <1>3, <1>4, <1>6, PutFiles
<1>9. /\ list \in SUBSET Day /\ out \in SUBSET list /\ Cardinality(list \ out) <= LogFileNum
      /\ LosesNothing(out) \/ LosesFirst(list, out)
  <2>1. f \in Day /\ f \notin m_log_list
    BY <1>1, <1>3
  <2>2. QED
    BY <2>1, <1>w, <1>o, Eviction
<1>10. TypeOK'
  <2>1. opened' \subseteq m_log_list' \cup {Plain}
    <3>1. opened \subseteq m_log_list \cup {Plain}
      BY DEF IInv, TypeOK
    <3>2. ASSUME NEW g \in opened' PROVE g \in m_log_list' \cup {Plain}
      <4>1. (g \in opened \/ g = f) /\ g \notin out
        BY <1>1, <3>2
      <4>2. g \in list \/ g = Plain
        BY <1>l, <3>1, <4>1
      <4>3. QED
        BY <1>1, <4>1, <4>2
    <3>3. QED
      BY <3>2
  <2>2. m_log_list' \subseteq Day /\ Cardinality(m_log_list') <= LogFileNum
    BY <1>1, <1>9
  <2>3. QED
    BY <1>6, <1>8, <2>1, <2>2 DEF IInv, TypeOK
<1>11. Names'
  BY <1>3, <1>6 DEF IInv, Names
<1>12. \A r \in stored : r.file # Plain
  BY <1>6 DEF IInv, Names
<1>13. ASSUME ~wentBack' PROVE \A r \in stored : r.file < f
  BY <1>1, <1>6, <1>12, <1>13, FreshName
<1>14. ASSUME ~wentBack', NEW r \in stored, r.file \in opened' PROVE Holds(r)'
  <2>1. r.file \in File /\ r.file \in Int
    BY Stamps
  <2>2. r.file # f
    BY <1>13, <1>14, <2>1
  <2>3. r.file \in opened /\ r.file \notin out
    BY <1>1, <1>14, <2>2
  <2>4. Holds(r) /\ disk[r.file] = files[r.file]
    BY <1>4, <1>6, <1>14, <2>1, <2>3 DEF IInv, Kept
  <2>5. QED
    BY <1>2, <1>3, <1>4, <1>6, <2>4, PutHolds
<1>15. ASSUME ~wentBack', NEW r \in stored
       PROVE  \/ r.file \in list \ out
              \/ /\ Cardinality(list \ out) = LogFileNum
                 /\ \A g \in list \ out : r.file < g
  <2>1. \/ r.file \in m_log_list
        \/ /\ Cardinality(m_log_list) = LogFileNum
           /\ \A g \in m_log_list : r.file < g
    BY <1>6, <1>12, <1>15 DEF IInv, Kept
  <2>2. LogFileNum \in Int /\ r.file \in Int /\ \A g \in list : g \in Int
    BY <1>9, LoggerAssumption, Stamps DEF Day
  <2>3. CASE LosesNothing(out)
    <3>1. list \ out = list /\ Cardinality(m_log_list) < LogFileNum
      BY <2>3 DEF LosesNothing
    <3>2. r.file \in m_log_list
      BY <2>1, <2>2, <3>1
    <3>3. QED
      BY <1>l, <3>1, <3>2
  <2>4. CASE LosesFirst(list, out)
    <3>1. PICK m \in list : /\ out = {m} /\ \A g \in list : m <= g
                            /\ Cardinality(list \ out) = LogFileNum
      BY <2>4 DEF LosesFirst
    <3>2. r.file < f
      BY <1>13, <1>15
    <3>3. ASSUME r.file \notin list \ out, NEW g \in list \ out PROVE r.file < g
      <4>1. CASE r.file = m
        BY <2>2, <3>1, <3>3, <4>1
      <4>2. CASE r.file # m
        BY <2>1, <3>1, <3>2, <3>3, <4>2, <1>l
      <4>3. QED
        BY <4>1, <4>2
    <3>4. QED
      BY <3>1, <3>3
  <2>5. QED
    BY <1>9, <2>3, <2>4
<1>16. ASSUME ~wentBack' PROVE f \in list \ out
  <2>1. CASE LosesNothing(out)
    BY <1>l, <2>1 DEF LosesNothing
  <2>2. CASE LosesFirst(list, out)
    <3>1. PICK m \in list : /\ out = {m} /\ \A g \in list : m <= g
                            /\ m_log_list # {}
      BY <2>2 DEF LosesFirst
    <3>2. PICK g \in m_log_list : TRUE
      BY <3>1
    <3>3. PICK q \in stored : q.file = g
      BY DEF IInv, Kept
    <3>4. g < f /\ m <= g /\ g \in Int /\ m \in Int /\ f \in Int
      <4>1. g < f
        BY <1>13, <1>16, <3>3
      <4>2. g \in list /\ m \in Day /\ g \in Day
        BY <1>l, <1>9
      <4>3. QED
        BY <1>3, <3>1, <4>1, <4>2 DEF Day
    <3>5. f \in list /\ f # m
      BY <1>l, <3>4
    <3>6. QED
      BY <3>1, <3>5
  <2>3. QED
    BY <1>9, <2>1, <2>2
<1>17. Kept'
  <2>1. \A g \in list \ out : \E r \in stored' : r.file = g
    BY <1>6, <1>l DEF IInv, Kept
  <2>2. ASSUME ~wentBack' PROVE f \in opened' => Holds(new)'
    BY <1>2, <1>3, <1>4, <1>5, <1>6, PutHolds
  <2>3. ASSUME ~wentBack', NEW r \in stored'
        PROVE  /\ r.file \in opened' => Holds(r)'
               /\ \/ r.file \in list \ out
                  \/ /\ Cardinality(list \ out) = LogFileNum
                     /\ \A g \in list \ out : r.file < g
    <3>1. CASE r \in stored
      BY <1>14, <1>15, <2>3, <3>1
    <3>2. CASE r = new
      BY <1>6, <1>16, <2>2, <2>3, <3>2
    <3>3. QED
      BY <1>6, <3>1, <3>2
  <2>4. QED
    BY <1>1, <2>1, <2>3 DEF Kept
<1>18. QED
  BY <1>7, <1>10, <1>11, <1>17 DEF IInv

(* A process that starts knows of no file and has written no line. *)
LEMMA RestartPreserves == IInv /\ Restart => IInv'
<1> SUFFICES ASSUME IInv, Restart PROVE IInv'
  OBVIOUS
<1>1. /\ mode' = "none" /\ lock' = Nobody /\ wentBack' = FALSE
      /\ pc' = [t \in Threads |-> "idle"] /\ line' = [t \in Threads |-> 0]
      /\ fn' = [t \in Threads |-> NoDay]
      /\ m_last_day' = NoDay /\ m_last_filename' = NoDay
      /\ m_log_list' = {} /\ opened' = {} /\ stored' = {}
      /\ today' = today /\ files' = files /\ stamps' = stamps
  BY DEF Restart
<1>2. /\ \A t \in Threads : pc'[t] = "idle"
      /\ pc' \in [Threads -> {"idle", "stamped", "renaming", "named"}]
      /\ fn' \in [Threads -> Day \cup {NoDay}]
      /\ line' \in [Threads -> 0 .. MaxLines]
  BY <1>1, LoggerAssumption
<1>3. Cardinality({}) = 0 /\ 0 <= LogFileNum
  BY FS_EmptySet, LoggerAssumption
<1>4. TypeOK'
  BY <1>1, <1>2, <1>3 DEF IInv, TypeOK
<1>5. Holder' /\ Names'
  BY <1>1, <1>2, LoggerAssumption DEF IInv, Holder, Names
<1>6. Written' /\ LinesInOrder'
  BY <1>1 DEF IInv, Written, LinesInOrder
<1>7. Forward' /\ Kept' /\ Days'
  <2>1. NoDay <= today /\ NoDay <= NoDay
    BY DEF IInv, TypeOK, Day, NoDay
  <2>2. QED
    BY <1>1, <1>2, <2>1 DEF Forward, Kept, Days
<1>8. QED
  BY <1>4, <1>5, <1>6, <1>7 DEF IInv

(* The inductive invariant holds in every reachable state. *)
THEOREM Invariance == Spec => []IInv
<1>1. IInv /\ [Next]_vars => IInv'
  <2> SUFFICES ASSUME IInv, [Next]_vars PROVE IInv'
    OBVIOUS
  <2>1. CASE Open \/ Restart
    BY <2>1, OpenPreserves, RestartPreserves
  <2>2. CASE \E d \in Day : ClockMoves(d)
    BY <2>2, ClockMovesPreserves
  <2>3. ASSUME NEW t \in Threads, logger_writer(t) PROVE IInv'
    BY <2>3, LoggerWriterPreserves
  <2>4. ASSUME NEW t \in Threads,
               make_filename_Same(t) \/ make_filename_New(t) \/ make_filename_Rename(t)
        PROVE  IInv'
    BY <2>4, SamePreserves, NewPreserves, RenamePreserves
  <2>5. ASSUME NEW t \in Threads, WritePlain(t) \/ WriteKept(t) PROVE IInv'
    BY <2>5, WritePlainPreserves, WriteKeptPreserves
  <2>6. ASSUME NEW t \in Threads, NEW opens \in BOOLEAN, NEW removed \in BOOLEAN,
               WriteNew(t, opens, removed)
        PROVE  IInv'
    BY <2>6, WriteNewPreserves
  <2>7. CASE UNCHANGED vars
    <3>1. UNCHANGED <<today, wentBack, mode, lock, pc, line, fn, m_last_day, m_last_filename,
                      m_log_list, opened, files, stored, stamps>>
      BY <2>7 DEF vars, clockVars, nameVars, diskVars
    <3>2. TypeOK' /\ Holder' /\ Names'
      BY <3>1 DEF IInv, TypeOK, Holder, Names
    <3>3. Written' /\ LinesInOrder' /\ Forward'
      BY <3>1 DEF IInv, Written, LinesInOrder, Forward
    <3>4. Kept' /\ Days'
      BY <3>1 DEF IInv, Kept, Holds, Days, Previous, AskedOn, Unbroken
    <3>5. QED
      BY <3>2, <3>3, <3>4 DEF IInv
  <2>8. QED
    BY <2>1, <2>2, <2>3, <2>4, <2>5, <2>6, <2>7 DEF Next
<1>2. QED
  BY <1>1, InitEstablishes, PTL DEF Spec

(* The logger's variables keep their types: no more than LogFileNum files   *)
(* are kept, and a name once handed out stays that of its line.             *)
THEOREM TypeCorrect == Spec => []TypeOK
<1>1. IInv => TypeOK
  BY DEF IInv
<1>2. QED
  BY <1>1, Invariance, PTL

(* The lines of a file are in the order of their time stamps, each once,    *)
(* for any number of threads, files and runs of the process.                *)
THEOREM LinesStayInOrder == Spec => []LinesInOrder
<1>1. IInv => LinesInOrder
  BY DEF IInv
<1>2. QED
  BY <1>1, Invariance, PTL

(* Rotation keeps the last files written to, with all their lines, as long  *)
(* as the clock is not set back.                                            *)
THEOREM RotationKeepsTheLatest == Spec => []LatestFilesAreWhole
<1>1. ASSUME IInv, ~wentBack, NEW r \in stored,
             Cardinality({q.file : q \in {p \in stored : p.file > r.file}}) < LogFileNum
      PROVE  /\ r.file # Plain => r.file \in m_log_list
             /\ r.file \in opened => Holds(r)
  <2> DEFINE later == {q.file : q \in {p \in stored : p.file > r.file}}
  <2>1. r.file \in opened => Holds(r)
    BY <1>1 DEF IInv, Kept
  <2>2. ASSUME r.file # Plain, r.file \notin m_log_list PROVE FALSE
    <3>1. Cardinality(m_log_list) = LogFileNum /\ \A g \in m_log_list : r.file < g
      BY <1>1, <2>2 DEF IInv, Kept
    <3>2. \A g \in m_log_list : g \in later
      <4> TAKE g \in m_log_list
      <4>1. PICK q \in stored : q.file = g
        BY <1>1 DEF IInv, Kept
      <4>2. q.file > r.file
        BY <1>1, <3>1, <4>1, Stamps
      <4>3. QED
        BY <4>1, <4>2
    <3>3. IsFiniteSet(later) /\ Cardinality(later) \in Nat
      <4>1. IsFiniteSet(Day)
        BY FewDays
      <4>2. IsFiniteSet(File)
        BY <4>1, FS_AddElement DEF File
      <4>3. later \in SUBSET File
        BY <1>1, Stamps
      <4>4. QED
        BY <4>2, <4>3, FS_Subset, FS_CardinalityType
    <3> HIDE DEF later
    <3>4. Cardinality(m_log_list) <= Cardinality(later)
      BY <3>2, <3>3, FS_Subset
    <3>5. LogFileNum \in Int /\ Cardinality(later) < LogFileNum
      BY <1>1, LoggerAssumption DEF later
    <3>6. QED
      BY <3>1, <3>3, <3>4, <3>5
  <2>3. QED
    BY <2>1, <2>2
<1>2. IInv => LatestFilesAreWhole
  BY <1>1 DEF LatestFilesAreWhole, Holds
<1>3. QED
  BY <1>2, Invariance, PTL

(* A log that is written to every month, under a clock that is not set      *)
(* back, has every line in the file of a day between stamp and writing.     *)
THEOREM FilesAreOfTheDayIfBusy == Spec => []FileIsOfTheDayIfBusy
<1>1. IInv => FileIsOfTheDayIfBusy
  BY DEF IInv, Days, FileIsOfTheDayIfBusy
<1>2. QED
  BY <1>1, Invariance, PTL

(* No step takes a line from a file that this process has not opened.       *)
THEOREM OnlyOwnFilesAreRemoved == Spec => RemovesOnlyItsOwn
<1> DEFINE Own(f) == f \in m_log_list \/ \E t \in Threads : pc[t] = "named" /\ fn[t] = f
           Shrinks(f) == Len(files'[f]) < Len(files[f])
<1>1. ASSUME IInv, [Next]_vars, NEW f \in Day, Shrinks(f) PROVE Own(f)
  <2>1. files[f] \in Seq(1 .. MaxLines) /\ Len(files[f]) \in Nat
    BY <1>1 DEF IInv, TypeOK, File
  <2>2. files' # files
    BY <1>1, <2>1
  <2>3. CASE UNCHANGED files
    BY <2>2, <2>3
  <2>4. ASSUME NEW t \in Threads, WritePlain(t) \/ WriteKept(t) PROVE FALSE
    <3>1. PICK g \in File, isOpen \in BOOLEAN : Put(t, g, isOpen, files) /\ pc[t] # "idle"
      <4>1. fn[t] \in File \/ WritePlain(t)
        BY <1>1, <2>4 DEF WriteKept, IInv, Names, File
      <4>2. Plain \in File
        BY DEF File
      <4>3. (Plain \in opened) \in BOOLEAN /\ (fn[t] \in opened) \in BOOLEAN
        OBVIOUS
      <4>4. QED
        BY <2>4, <4>1, <4>2, <4>3 DEF WritePlain, WriteKept
    <3>2. LeavesOrEmpties(files)
      BY <1>1 DEF LeavesOrEmpties, IInv, TypeOK
    <3>3. files'[f] = files[f] \/ Len(files'[f]) = Len(files[f]) + 1
      <4>1. /\ \A h \in File : h # g \/ ~isOpen => files'[h] = files[h]
            /\ isOpen => Len(files'[g]) = Len(files[g]) + 1
        BY <1>1, <3>1, <3>2, PutFiles
      <4>2. f \in File
        BY DEF File
      <4>3. QED
        BY <4>1, <4>2
    <3>4. QED
      BY <1>1, <2>1, <3>3
  <2>5. ASSUME NEW t \in Threads, NEW opens \in BOOLEAN, NEW removed \in BOOLEAN,
               WriteNew(t, opens, removed)
        PROVE  Own(f)
    <3> SUFFICES ASSUME f \notin m_log_list, f # fn[t] PROVE FALSE
      BY <2>5 DEF WriteNew
    <3>1. f \notin Excess(m_log_list \cup {fn[t]})
      BY DEF Excess
    <3>2. PICK isOpen : Put(t, fn[t], isOpen, [g \in File |->
            IF g \in Excess(m_log_list \cup {fn[t]}) /\ removed THEN <<>> ELSE files[g]])
      BY <2>5 DEF WriteNew
    <3>3. files'[f] = files[f]
      BY <3>1, <3>2 DEF Put, File
    <3>4. QED
      BY <1>1, <2>1, <3>3
  <2>6. QED
    <3>1. \/ UNCHANGED files
          \/ \E t \in Threads : \/ WritePlain(t) \/ WriteKept(t)
                                \/ \E opens, removed \in BOOLEAN : WriteNew(t, opens, removed)
      BY <1>1 DEF Next, Open, Restart, ClockMoves, logger_writer, make_filename_Same,
           make_filename_New, make_filename_Rename, diskVars, vars
    <3>2. QED
      BY <2>3, <2>4, <2>5, <3>1
<1>2. IInv /\ [Next]_vars =>
        [\A f \in Day : Len(files'[f]) < Len(files[f]) =>
           \/ f \in m_log_list
           \/ \E t \in Threads : pc[t] = "named" /\ fn[t] = f]_vars
  BY <1>1
<1>3. QED
  BY <1>2, Invariance, PTL DEF Spec, RemovesOnlyItsOwn
=============================================================================
