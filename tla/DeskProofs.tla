------------------------------ MODULE DeskProofs ------------------------------
(***************************************************************************)
(* What nine components around the desk keep, proved of MCDesk for every    *)
(* value of their constants: each one has a section with its inductive      *)
(* invariant; the last section composes them.  The tenth, the blending of   *)
(* sleeves, is only checked by TLC.                                         *)
(***************************************************************************)
EXTENDS MCDesk, DataLemmas, SequenceTheorems

-----------------------------------------------------------------------------
(* The results of research runs.                                               *)

FileNames == {"params", "metrics", "trades", "curve", "log", "weights", "sleeves"}

\* A directory with all of its files.
Whole(n) == n \in DOMAIN dirs /\ dirs[n] = FilesOf(n[1])

\* Rows stand for whole directories wherever they are: on a board, and in the memory of
\* a job that is about to write a board back.
ListsWhole(rowseq) == \A n \in ToSet(rowseq) \ {Heading} : Whole(n)

JobRecords == [Jobs -> [at : Steps, name : Names \cup {NoName}, read : Rows, heading : BOOLEAN]]

FilesInv ==
    /\ dirs \in [DOMAIN dirs -> Seq(FileNames)] /\ writers \in [DOMAIN dirs -> SUBSET Jobs]
    /\ \A n \in DOMAIN dirs : n \in Names /\ IsPrefix(dirs[n], FilesOf(n[1]))
    /\ \A n \in DOMAIN dirs : \A i, j \in writers[n] : i = j

BoardInv ==
    /\ board \in [Kinds -> Boards]
    /\ \A k \in Kinds : /\ ListsWhole(board[k].rows)
                        /\ board[k].heading = "row" => board[k].rows # <<>>

WriterInv(j) ==
    /\ ListsWhole(job[j].read)
    /\ job[j].at \in {"files", "board", "truncated", "check", "append"} =>
          job[j].name \in DOMAIN dirs /\ job[j].name[1] = KindOf(j)
    /\ job[j].at \in {"board", "truncated", "check", "append"} => Whole(job[j].name)
    /\ job[j].at \in {"board", "truncated"} => KindOf(j) = "run"

RunsInv ==
    /\ second \in 0..LastSecond /\ kills \in 0..MaxKills /\ dropped \subseteq Names \cup {Heading}
    /\ FilesInv /\ BoardInv
    /\ job \in JobRecords
    /\ \A j \in Jobs : WriterInv(j)

LEMMA FilesAreSeq == \A k : FilesOf(k) \in Seq(FileNames)
<1>1. RunFiles \in Seq(FileNames)
  BY DEF RunFiles, FileNames
<1>2. PortfolioFiles \in Seq(FileNames)
  BY DEF PortfolioFiles, FileNames
<1> QED
  BY <1>1, <1>2 DEF FilesOf

LEMMA AppendedElements ==
    ASSUME NEW S, NEW s \in Seq(S), NEW e \in S
    PROVE  Append(s, e) \in Seq(S) /\ Append(s, e) # <<>> /\ ToSet(Append(s, e)) = ToSet(s) \cup {e}
<1>1. /\ Append(s, e) \in Seq(S) /\ Len(Append(s, e)) = Len(s) + 1 /\ Len(s) \in Nat
      /\ Append(s, e)[Len(s) + 1] = e /\ \A i \in 1..Len(s) : Append(s, e)[i] = s[i]
  OBVIOUS
<1>2. DOMAIN s = 1..Len(s) /\ DOMAIN Append(s, e) = 1..(Len(s) + 1)
  OBVIOUS
<1>3. 1..(Len(s) + 1) = (1..Len(s)) \cup {Len(s) + 1}
  BY <1>1
<1>4. Append(s, e) # <<>>
  BY <1>1
<1> QED
  BY <1>1, <1>2, <1>3, <1>4 DEF ToSet

LEMMA PrefixGrows ==
    ASSUME NEW s \in Seq(FileNames), NEW t \in Seq(FileNames), IsPrefix(s, t), s # t
    PROVE  /\ Len(s) + 1 \in DOMAIN t /\ t[Len(s) + 1] \in FileNames
           /\ Append(s, t[Len(s) + 1]) \in Seq(FileNames) /\ IsPrefix(Append(s, t[Len(s) + 1]), t)
<1> DEFINE n == Len(s)
           e == t[n + 1]
           a == Append(s, e)
<1>1. n \in Nat /\ Len(t) \in Nat /\ n <= Len(t) /\ SubSeq(s, 1, n) = SubSeq(t, 1, n)
  BY DEF IsPrefix
<1>2. SubSeq(s, 1, n) = s /\ SubSeq(t, 1, Len(t)) = t
  BY SubSeqFull
<1>3. n # Len(t)
  BY <1>1, <1>2
<1>4. n + 1 \in 1..Len(t) /\ e \in FileNames
  BY <1>1, <1>3
<1>5. a \in Seq(FileNames) /\ Len(a) = n + 1
  BY <1>4
<1>6. SubSeq(a, 1, n + 1) = a
  BY <1>5, SubSeqFull
<1>7. SubSeq(t, 1, n + 1) = SubSeq(t, 1, n) \o <<e>>
  <2>1. 1 \in 1..Len(t) /\ n + 1 \in 1..Len(t)
    BY <1>4
  <2>2. SubSeq(t, 1, n + 1) = SubSeq(t, 1, (n + 1) - 1) \o <<t[n + 1]>>
    BY <2>1, SubSeqRecursiveSecond
  <2>3. (n + 1) - 1 = n
    BY <1>1
  <2> QED
    BY <2>2, <2>3
<1>8. a = s \o <<e>>
  BY <1>4
<1>9. SubSeq(a, 1, Len(a)) = SubSeq(t, 1, Len(a))
  BY <1>1, <1>2, <1>5, <1>6, <1>7, <1>8
<1> QED
  BY <1>1, <1>4, <1>5, <1>9 DEF IsPrefix

LEMMA NameHasKind ==
    ASSUME NEW j \in Jobs, NEW s \in 0..LastSecond
    PROVE  Name(j, s) \in Names /\ Name(j, s)[1] = KindOf(j) /\ KindOf(j) \in Kinds
  BY DEF Name, Names, Kinds

LEMMA RowsOf ==
    ASSUME NEW rowseq \in Rows
    PROVE  /\ ToSet(<<>>) = {} /\ <<>> \in Rows
           /\ ToSet(rowseq) \subseteq Names \cup {Heading}
           /\ rowseq # <<>> => Tail(rowseq) \in Rows /\ ToSet(Tail(rowseq)) \subseteq ToSet(rowseq)
<1>1. ToSet(<<>>) = {} /\ <<>> \in Rows
  BY DEF ToSet, Rows
<1>2. ToSet(rowseq) \subseteq Names \cup {Heading}
  BY DEF ToSet, Rows
<1>3. ASSUME rowseq # <<>>
      PROVE  Tail(rowseq) \in Rows /\ ToSet(Tail(rowseq)) \subseteq ToSet(rowseq)
  <2>1. /\ Tail(rowseq) \in Rows /\ Len(Tail(rowseq)) = Len(rowseq) - 1 /\ Len(rowseq) \in Nat
        /\ \A i \in 1..Len(Tail(rowseq)) : Tail(rowseq)[i] = rowseq[i + 1]
    BY <1>3, HeadTailProperties DEF Rows
  <2>2. \A i \in 1..Len(Tail(rowseq)) : i + 1 \in DOMAIN rowseq
    BY <2>1 DEF Rows
  <2>3. DOMAIN Tail(rowseq) = 1..Len(Tail(rowseq))
    BY <2>1 DEF Rows
  <2> QED
    BY <2>1, <2>2, <2>3 DEF ToSet
<1> QED
  BY <1>1, <1>2, <1>3

LEMMA RowAppended ==
    ASSUME NEW s \in Rows, NEW e \in Names \cup {Heading}
    PROVE  Append(s, e) \in Rows /\ Append(s, e) # <<>> /\ ToSet(Append(s, e)) = ToSet(s) \cup {e}
<1> DEFINE Lines == Names \cup {Heading}
<1>1. s \in Seq(Lines) /\ e \in Lines
  BY DEF Rows
<1> HIDE DEF Lines
<1>2. Append(s, e) \in Seq(Lines) /\ Append(s, e) # <<>> /\ ToSet(Append(s, e)) = ToSet(s) \cup {e}
  BY <1>1, AppendedElements
<1> QED
  BY <1>2 DEF Rows, Lines

LEMMA AppendedRows ==
    ASSUME NEW b \in Boards, NEW heading \in BOOLEAN, NEW name \in Names
    PROVE  /\ Appended(b, heading, name) \in Boards
           /\ Appended(b, heading, name).rows # <<>>
           /\ ToSet(Appended(b, heading, name).rows) \subseteq ToSet(b.rows) \cup {Heading, name}
<1>1. <<name>> \in Rows /\ ToSet(<<name>>) = {name}
  BY DEF Rows, ToSet
<1>2. CASE b.heading \in {"absent", "nothing"}
  BY <1>1, <1>2 DEF Appended, Boards
<1>3. CASE b.heading \notin {"absent", "nothing"}
  <2>1. b.rows \in Rows
    BY DEF Boards
  <2>2. PICK before \in Rows : /\ ToSet(before) \subseteq ToSet(b.rows) \cup {Heading}
                               /\ before = b.rows \o (IF heading THEN <<Heading>> ELSE <<>>)
    <3>1. CASE heading
      <4>1. Append(b.rows, Heading) = b.rows \o <<Heading>>
        BY <2>1 DEF Rows
      <4> QED
        BY <2>1, <3>1, <4>1, RowAppended
    <3>2. CASE ~heading
      <4>1. b.rows = b.rows \o <<>>
        BY <2>1 DEF Rows
      <4> QED
        BY <2>1, <3>2, <4>1
    <3> QED
      BY <3>1, <3>2
  <2>3. PICK after \in Rows : /\ after # <<>> /\ ToSet(after) = ToSet(before) \cup {name}
                              /\ after = before \o <<name>>
    <3>1. Append(before, name) = before \o <<name>>
      BY DEF Rows
    <3> QED
      BY <3>1, RowAppended
  <2>5. Appended(b, heading, name) = [b EXCEPT !.rows = after]
    BY <1>3, <2>2, <2>3 DEF Appended
  <2>6. [b EXCEPT !.rows = after] \in Boards /\ [b EXCEPT !.rows = after].rows = after
    BY DEF Boards
  <2> QED
    BY <2>2, <2>3, <2>5, <2>6
<1> QED
  BY <1>2, <1>3

\* Directories only become whole, so what lists whole ones goes on to.
LEMMA WholeStays ==
    ASSUME RunsInv, \A n : Whole(n) => Whole(n)'
    PROVE  /\ \A rowseq : ListsWhole(rowseq) => ListsWhole(rowseq)'
           /\ UNCHANGED board => BoardInv'
  BY DEF RunsInv, BoardInv, ListsWhole

LEMMA JobMoves ==
    ASSUME RunsInv, UNCHANGED <<second, dirs, writers, board, dropped>>, kills' \in 0..MaxKills,
           NEW j \in Jobs, \A i \in Jobs \ {j} : job'[i] = job[i], job' \in JobRecords, WriterInv(j)'
    PROVE  RunsInv'
<1>1. \A n : Whole(n) => Whole(n)'
  BY DEF Whole
<1>2. \A i \in Jobs \ {j} : WriterInv(i)'
  BY <1>1, WholeStays DEF RunsInv, WriterInv
<1> QED
  BY <1>1, <1>2, WholeStays DEF RunsInv, FilesInv

LEMMA RunsStepInv ==
    ASSUME RunsInv, RunsNext
    PROVE  RunsInv'
<1> USE RunsAssumption
<1>1. ASSUME NEW j \in Jobs, MakeDirectory(j) PROVE RunsInv'
  <2> DEFINE name == Name(j, second)
  <2>0. name \in Names /\ name[1] = KindOf(j) /\ name # NoName
    BY NameHasKind DEF RunsInv, Name, NoName
  <2>1. CASE name \in DOMAIN dirs
    <3>1. /\ job' = [job EXCEPT ![j].at = "failed"]
          /\ UNCHANGED <<second, dirs, writers, board, kills, dropped>>
      BY <1>1, <2>1 DEF MakeDirectory, Goto
    <3>2. job' \in JobRecords /\ job'[j] = [job[j] EXCEPT !.at = "failed"]
      BY <3>1 DEF RunsInv, JobRecords, Steps
    <3>3. job'[j].at = "failed" /\ job'[j].read = job[j].read
      BY <3>2 DEF RunsInv, JobRecords
    <3>4. WriterInv(j)'
      BY <3>1, <3>3 DEF RunsInv, WriterInv, ListsWhole, Whole
    <3> QED
      BY <3>1, <3>2, <3>4, JobMoves DEF RunsInv, JobRecords
  <2>2. CASE name \notin DOMAIN dirs
    <3>1. /\ dirs' = [n \in DOMAIN dirs \cup {name} |-> IF n = name THEN <<>> ELSE dirs[n]]
          /\ writers' = [n \in DOMAIN dirs \cup {name} |-> IF n = name THEN {j} ELSE writers[n]]
          /\ job' = [job EXCEPT ![j].at = "files", ![j].name = name]
          /\ UNCHANGED <<second, board, kills, dropped>>
      BY <1>1, <2>2 DEF MakeDirectory
    <3> HIDE DEF name
    <3>2. \A n : Whole(n) => Whole(n)'
      BY <2>2, <3>1 DEF Whole
    <3>3. IsPrefix(<<>>, FilesOf(name[1])) /\ <<>> \in Seq(FileNames)
      <4>1. FilesOf(name[1]) \in Seq(FileNames)
        BY FilesAreSeq
      <4> QED
        BY <4>1 DEF IsPrefix
    <3>4. FilesInv'
      BY <2>0, <2>2, <3>1, <3>3 DEF FilesInv, RunsInv
    <3>5. job' \in JobRecords
      BY <2>0, <3>1 DEF RunsInv, JobRecords, Steps
    <3>6. \A i \in Jobs : WriterInv(i)'
      <4>1. \A i \in Jobs \ {j} : job'[i] = job[i]
        BY <3>1 DEF RunsInv, JobRecords
      <4>2. job'[j].at = "files" /\ job'[j].read = job[j].read /\ job'[j].name = name
        BY <3>1 DEF RunsInv, JobRecords
      <4> QED
        <5>0. \A rowseq : ListsWhole(rowseq) => ListsWhole(rowseq)'
          BY <3>2, WholeStays
        <5>1. \A i \in Jobs \ {j} : WriterInv(i)'
          <6> SUFFICES ASSUME NEW i \in Jobs \ {j} PROVE WriterInv(i)'
            OBVIOUS
          <6>1. WriterInv(i) /\ job'[i] = job[i] /\ DOMAIN dirs \subseteq DOMAIN dirs'
            BY <3>1, <4>1 DEF RunsInv
          <6>2. ListsWhole(job[i].read)' /\ (Whole(job[i].name) => Whole(job[i].name)')
            BY <3>2, <5>0, <6>1 DEF WriterInv
          <6> QED
            BY <6>1, <6>2 DEF WriterInv
        <5>2. ListsWhole(job[j].read)'
          BY <3>2, <4>2 DEF RunsInv, WriterInv, ListsWhole
        <5>3. WriterInv(j)'
          BY <2>0, <3>1, <4>2, <5>2 DEF WriterInv
        <5> QED
          BY <5>1, <5>3
    <3> QED
      BY <3>1, <3>2, <3>4, <3>5, <3>6, WholeStays DEF RunsInv
  <2> QED
    BY <2>1, <2>2
<1>2. ASSUME NEW j \in Jobs, WriteFile(j) PROVE RunsInv'
  <2> DEFINE name == job[j].name
             todo == FilesOf(name[1])
             made == todo[Len(dirs[name]) + 1]
  <2>1. /\ dirs' = [dirs EXCEPT ![name] = Append(@, made)]
        /\ UNCHANGED <<second, writers, board, job, kills, dropped>>
        /\ dirs[name] # todo /\ name \in DOMAIN dirs
    BY <1>2 DEF WriteFile, RunsInv, WriterInv
  <2>2. dirs[name] \in Seq(FileNames) /\ todo \in Seq(FileNames) /\ IsPrefix(dirs[name], todo)
    BY <2>1, FilesAreSeq DEF RunsInv, FilesInv
  <2>3. made \in FileNames /\ IsPrefix(Append(dirs[name], made), todo)
        /\ Append(dirs[name], made) \in Seq(FileNames)
    BY <2>1, <2>2, PrefixGrows
  <2>4. \A n : Whole(n) => Whole(n)'
    BY <2>1 DEF Whole
  <2> HIDE DEF made
  <2>5. FilesInv'
    BY <2>1, <2>3 DEF FilesInv, RunsInv
  <2>6. \A i \in Jobs : WriterInv(i)'
    BY <2>1, <2>4, WholeStays DEF RunsInv, WriterInv
  <2> QED
    BY <2>1, <2>4, <2>5, <2>6, WholeStays DEF RunsInv
<1>3. ASSUME NEW j \in Jobs, FilesWritten(j) PROVE RunsInv'
  <2>1. /\ job' = [job EXCEPT ![j].at = IF KindOf(j) = "run" THEN "board" ELSE "check"]
        /\ UNCHANGED <<second, dirs, writers, board, kills, dropped>>
        /\ job[j].at = "files" /\ dirs[job[j].name] = FilesOf(KindOf(j))
    BY <1>3 DEF FilesWritten, Goto
  <2>2. Whole(job[j].name)
    BY <2>1 DEF RunsInv, WriterInv, Whole
  <2>3. job' \in JobRecords
    BY <2>1 DEF RunsInv, JobRecords, Steps
  <2>4. /\ job'[j].at = IF KindOf(j) = "run" THEN "board" ELSE "check"
        /\ job'[j].read = job[j].read /\ job'[j].name = job[j].name
    BY <2>1 DEF RunsInv, JobRecords
  <2>5. WriterInv(j)'
    BY <2>1, <2>2, <2>4 DEF RunsInv, WriterInv, ListsWhole, Whole
  <2> QED
    BY <2>1, <2>3, <2>5, JobMoves DEF RunsInv, JobRecords
<1>4. ASSUME NEW j \in Jobs, ReadBoard(j) PROVE RunsInv'
  <2> DEFINE b == board["run"]
             read == IF b.heading = "old" THEN b.rows ELSE Tail(b.rows)
  <2>0. job[j].at = "board" /\ "run" \in Kinds /\ b \in Boards
    BY <1>4 DEF ReadBoard, RunsInv, BoardInv, WriterInv, Kinds
  <2>1. CASE b.heading \in {"old", "row"}
    <3>1. /\ job' = [job EXCEPT ![j].at = "truncated", ![j].read = read,
                                ![j].heading = b.heading = "old"]
          /\ board' = [board EXCEPT !["run"] = [heading |-> "nothing", rows |-> <<>>]]
          /\ dropped' = dropped \cup ToSet(b.rows)
          /\ UNCHANGED <<second, dirs, writers, kills>>
      BY <1>4, <2>1 DEF ReadBoard
    <3>2. /\ read \in Rows /\ ToSet(read) \subseteq ToSet(b.rows)
          /\ ToSet(b.rows) \subseteq Names \cup {Heading}
          /\ <<>> \in Rows /\ ToSet(<<>>) = {}
      BY <2>0, <2>1, RowsOf DEF RunsInv, BoardInv, Boards
    <3> HIDE DEF read
    <3>3. \A n : Whole(n) => Whole(n)'
      BY <3>1 DEF Whole
    <3>4. ListsWhole(read) /\ ListsWhole(<<>>)
      BY <2>0, <3>2 DEF RunsInv, BoardInv, ListsWhole
    <3>8. \A rowseq : ListsWhole(rowseq) => ListsWhole(rowseq)'
      BY <3>3, WholeStays
    <3>5. BoardInv'
      <4>1. [heading |-> "nothing", rows |-> <<>>] \in Boards
        BY <3>2 DEF Boards
      <4>2. \A k \in Kinds : board'[k] = IF k = "run" THEN [heading |-> "nothing", rows |-> <<>>]
                                                    ELSE board[k]
        BY <3>1 DEF RunsInv, BoardInv
      <4>3. \A k \in Kinds : ListsWhole(board'[k].rows)
        BY <3>4, <4>2 DEF RunsInv, BoardInv
      <4>4. \A k \in Kinds : ListsWhole(board[k].rows)'
        BY <3>8, <4>3
      <4>5. board' \in [Kinds -> Boards]
        BY <2>0, <3>1, <4>1 DEF RunsInv, BoardInv
      <4>6. \A k \in Kinds : board'[k].heading = "row" => board'[k].rows # <<>>
        BY <4>2 DEF RunsInv, BoardInv
      <4> QED
        BY <4>4, <4>5, <4>6 DEF BoardInv
    <3>6. job' \in JobRecords
      <4> DEFINE old == b.heading = "old"
      <4>1. old \in BOOLEAN /\ job' = [job EXCEPT ![j].at = "truncated", ![j].read = read,
                                               ![j].heading = old]
        BY <3>1
      <4> HIDE DEF old
      <4>2. read \in Rows
        BY <3>2
      <4> DEFINE Record == [at : Steps, name : Names \cup {NoName}, read : Rows, heading : BOOLEAN]
                 new == [job[j] EXCEPT !.at = "truncated", !.read = read, !.heading = old]
      <4>3. job[j] \in Record
        BY DEF RunsInv, JobRecords
      <4>4. new \in Record
        BY <4>1, <4>2, <4>3 DEF Steps
      <4>5. job' = [job EXCEPT ![j] = new]
        BY <4>1
      <4> HIDE DEF new
      <4> QED
        BY <4>4, <4>5 DEF RunsInv, JobRecords
    <3>7. \A i \in Jobs : WriterInv(i)'
      <4>1. \A i \in Jobs \ {j} : job'[i] = job[i]
        BY <3>1 DEF RunsInv, JobRecords
      <4>2. /\ job'[j].at = "truncated" /\ job'[j].read = read /\ job'[j].name = job[j].name
        BY <3>1 DEF RunsInv, JobRecords
      <4> QED
        BY <2>0, <3>1, <3>3, <3>4, <3>8, <4>1, <4>2 DEF RunsInv, WriterInv
    <3> QED
      BY <3>1, <3>2, <3>5, <3>6, <3>7 DEF RunsInv, FilesInv
  <2>2. CASE b.heading \notin {"old", "row"}
    <3>1. /\ job' = [job EXCEPT ![j].at = "check"]
          /\ UNCHANGED <<second, dirs, writers, board, kills, dropped>>
      BY <1>4, <2>2 DEF ReadBoard, Goto
    <3>2. job' \in JobRecords
      BY <3>1 DEF RunsInv, JobRecords, Steps
    <3>3. job'[j].at = "check" /\ job'[j].read = job[j].read /\ job'[j].name = job[j].name
      BY <3>1 DEF RunsInv, JobRecords
    <3>4. WriterInv(j)'
      BY <2>0, <3>1, <3>3 DEF RunsInv, WriterInv, ListsWhole, Whole
    <3> QED
      BY <3>1, <3>2, <3>4, JobMoves DEF RunsInv, JobRecords
  <2> QED
    BY <2>1, <2>2
<1>5. ASSUME NEW j \in Jobs, WriteBack(j) PROVE RunsInv'
  <2> DEFINE legible == job[j].heading \/ job[j].read = <<>>
             kept == IF legible THEN job[j].read ELSE <<>>
             step == IF legible THEN "check" ELSE "failed"
  <2>1. /\ board' = [board EXCEPT !["run"] = [heading |-> "current", rows |-> kept]]
        /\ dropped' = (dropped \cup ToSet(board["run"].rows)) \ ToSet(kept)
        /\ job' = [job EXCEPT ![j].at = step, ![j].read = <<>>]
        /\ UNCHANGED <<second, dirs, writers, kills>>
        /\ job[j].at = "truncated"
    BY <1>5 DEF WriteBack
  <2>2. "run" \in Kinds /\ board["run"] \in Boards
    BY <2>1 DEF RunsInv, BoardInv, WriterInv, Kinds
  <2>3. <<>> \in Rows /\ ToSet(<<>>) = {} /\ ToSet(board["run"].rows) \subseteq Names \cup {Heading}
    BY <2>2, RowsOf DEF Boards
  <2>4. kept \in Rows /\ ListsWhole(kept) /\ ListsWhole(<<>>)
    BY <2>3 DEF RunsInv, JobRecords, WriterInv, ListsWhole
  <2>5. step \in {"check", "failed"}
    OBVIOUS
  <2> HIDE DEF kept, step
  <2>6. \A n : Whole(n) => Whole(n)'
    BY <2>1 DEF Whole
  <2>7. \A rowseq : ListsWhole(rowseq) => ListsWhole(rowseq)'
    BY <2>6, WholeStays
  <2>8. BoardInv'
    <3>1. [heading |-> "current", rows |-> kept] \in Boards
      BY <2>4 DEF Boards
    <3>2. \A k \in Kinds : board'[k] = IF k = "run" THEN [heading |-> "current", rows |-> kept]
                                                  ELSE board[k]
      BY <2>1 DEF RunsInv, BoardInv
    <3>3. \A k \in Kinds : ListsWhole(board'[k].rows)
      BY <2>4, <3>2 DEF RunsInv, BoardInv
    <3>4. \A k \in Kinds : ListsWhole(board[k].rows)'
      BY <2>7, <3>3
    <3>5. board' \in [Kinds -> Boards]
      BY <2>1, <2>2, <3>1 DEF RunsInv, BoardInv
    <3>6. \A k \in Kinds : board'[k].heading = "row" => board'[k].rows # <<>>
      BY <3>2 DEF RunsInv, BoardInv
    <3> QED
      BY <3>4, <3>5, <3>6 DEF BoardInv
  <2>9. job' \in JobRecords
    BY <2>1, <2>3, <2>5 DEF RunsInv, JobRecords, Steps
  <2>10. \A i \in Jobs : WriterInv(i)'
    <3>1. \A i \in Jobs \ {j} : job'[i] = job[i]
      BY <2>1 DEF RunsInv, JobRecords
    <3>2. job'[j].at = step /\ job'[j].read = <<>> /\ job'[j].name = job[j].name
      BY <2>1 DEF RunsInv, JobRecords
    <3> QED
      BY <2>1, <2>4, <2>5, <2>6, <2>7, <3>1, <3>2 DEF RunsInv, WriterInv
  <2> QED
    BY <2>1, <2>3, <2>8, <2>9, <2>10 DEF RunsInv, FilesInv
<1>6. ASSUME NEW j \in Jobs, CheckBoard(j) PROVE RunsInv'
  <2>1. /\ job' = [job EXCEPT ![j].at = "append", ![j].heading = board[KindOf(j)].heading = "absent"]
        /\ UNCHANGED <<second, dirs, writers, board, kills, dropped>> /\ job[j].at = "check"
    BY <1>6 DEF CheckBoard
  <2>2. job' \in JobRecords
    <3> DEFINE absent == board[KindOf(j)].heading = "absent"
    <3>1. absent \in BOOLEAN
          /\ job' = [job EXCEPT ![j].at = "append", ![j].heading = absent]
      BY <2>1
    <3> HIDE DEF absent
    <3> QED
      BY <3>1 DEF RunsInv, JobRecords, Steps
  <2>3. job'[j].at = "append" /\ job'[j].read = job[j].read /\ job'[j].name = job[j].name
    BY <2>1 DEF RunsInv, JobRecords
  <2>4. WriterInv(j)'
    BY <2>1, <2>3 DEF RunsInv, WriterInv, ListsWhole, Whole
  <2> QED
    BY <2>1, <2>2, <2>4, JobMoves DEF RunsInv, JobRecords
<1>7. ASSUME NEW j \in Jobs, AppendRow(j) PROVE RunsInv'
  <2> DEFINE k == KindOf(j)
             new == Appended(board[k], job[j].heading, job[j].name)
  <2>1. /\ board' = [board EXCEPT ![k] = new] /\ job' = [job EXCEPT ![j].at = "done"]
        /\ UNCHANGED <<second, dirs, writers, kills, dropped>> /\ job[j].at = "append"
    BY <1>7 DEF AppendRow, Goto, RunsInv, BoardInv, Kinds
  <2>2. /\ k \in Kinds /\ board[k] \in Boards /\ job[j].heading \in BOOLEAN
        /\ Whole(job[j].name) /\ job[j].name \in Names
    BY <2>1 DEF RunsInv, BoardInv, WriterInv, FilesInv, Kinds, JobRecords
  <2>3. new \in Boards /\ new.rows # <<>>
        /\ ToSet(new.rows) \subseteq ToSet(board[k].rows) \cup {Heading, job[j].name}
    <3> DEFINE before == board[k]
               heading == job[j].heading
               name == job[j].name
    <3>1. before \in Boards /\ heading \in BOOLEAN /\ name \in Names
      BY <2>2
    <3> HIDE DEF before, heading, name
    <3>2. /\ Appended(before, heading, name) \in Boards
          /\ Appended(before, heading, name).rows # <<>>
          /\ ToSet(Appended(before, heading, name).rows) \subseteq ToSet(before.rows) \cup {Heading, name}
      BY <3>1, AppendedRows
    <3> QED
      BY <3>2 DEF before, heading, name
  <2>4. ListsWhole(new.rows)
    BY <2>2, <2>3 DEF ListsWhole, RunsInv, BoardInv
  <2> HIDE DEF new
  <2>5. \A n : Whole(n) => Whole(n)'
    BY <2>1 DEF Whole
  <2>6. BoardInv'
    <3>1. \A i \in Kinds : board'[i] = IF i = k THEN new ELSE board[i]
      BY <2>1 DEF RunsInv, BoardInv
    <3>2. \A i \in Kinds : ListsWhole(board[i].rows)
      BY DEF RunsInv, BoardInv
    <3>3. \A i \in Kinds : ListsWhole(board'[i].rows)
      BY <2>4, <3>1, <3>2
    <3>4. \A rowseq : ListsWhole(rowseq)' <=> ListsWhole(rowseq)
      BY <2>1 DEF ListsWhole, Whole
    <3> QED
      BY <2>1, <2>3, <3>1, <3>3, <3>4 DEF RunsInv, BoardInv
  <2>7. job' \in JobRecords
    BY <2>1 DEF RunsInv, JobRecords, Steps
  <2>8. \A i \in Jobs : WriterInv(i)'
    BY <2>1, <2>5, WholeStays DEF RunsInv, WriterInv
  <2> QED
    BY <2>1, <2>6, <2>7, <2>8 DEF RunsInv, FilesInv
<1>8. ASSUME NEW j \in Jobs, Kill(j) PROVE RunsInv'
  <2> DEFINE gone == [Resting(j) EXCEPT !.at = "failed"]
  <2>1. /\ job' = [job EXCEPT ![j] = gone] /\ kills' = kills + 1 /\ kills < MaxKills
        /\ UNCHANGED <<second, dirs, writers, board, dropped>>
    BY <1>8 DEF Kill
  <2>2. <<>> \in Rows /\ ToSet(<<>>) = {}
    BY DEF Rows, ToSet
  <2>3. kills' \in 0..MaxKills
    BY <2>1 DEF RunsInv
  <2>4. gone \in [at : Steps, name : Names \cup {NoName}, read : Rows, heading : BOOLEAN]
        /\ gone.at = "failed" /\ gone.read = <<>>
    <3> DEFINE none == <<>>
               nobody == NoName
    <3>1. none \in Rows /\ nobody \in Names \cup {NoName}
      BY <2>2
    <3>2. gone = [[at |-> "idle", name |-> nobody, read |-> none, heading |-> FALSE] EXCEPT !.at = "failed"]
      BY DEF Resting
    <3> HIDE DEF none, nobody, gone
    <3>3. /\ gone \in [at : Steps, name : Names \cup {NoName}, read : Rows, heading : BOOLEAN]
          /\ gone.at = "failed" /\ gone.read = none
      BY <3>1, <3>2 DEF Steps
    <3> QED
      BY <3>3 DEF none
  <2> HIDE DEF gone
  <2>5. job' \in JobRecords /\ job'[j].at = "failed" /\ job'[j].read = <<>>
        /\ \A i \in Jobs \ {j} : job'[i] = job[i]
    BY <2>1, <2>4 DEF RunsInv, JobRecords
  <2>6. WriterInv(j)'
    BY <2>2, <2>5 DEF WriterInv, ListsWhole
  <2> QED
    BY <2>1, <2>3, <2>5, <2>6, JobMoves DEF RunsInv, JobRecords
<1>9. ASSUME TickSecond PROVE RunsInv'
  BY <1>9 DEF TickSecond, RunsInv, FilesInv, BoardInv, WriterInv, ListsWhole, Whole
<1> QED
  BY <1>1, <1>2, <1>3, <1>4, <1>5, <1>6, <1>7, <1>8, <1>9 DEF RunsNext

\* A board has lost its heading only while a job is about to write it, or after a kill.
Rewritten == \E j \in Jobs : job[j].at = "truncated"
Headless(k) == board[k].heading \in {"nothing", "row"}
NamesKept == \A k \in Kinds : Headless(k) => k = "run" /\ (kills > 0 \/ Rewritten)

LEMMA NamesStay ==
    ASSUME RunsInv, NamesKept, RunsNext
    PROVE  NamesKept'
<1>0. board \in [Kinds -> Boards] /\ job \in JobRecords /\ kills \in Nat
  BY DEF RunsInv, BoardInv
\* A job that rewrites no board goes on, and no board loses its heading.
<1>1. ASSUME NEW j \in Jobs, job[j].at # "truncated", kills' = kills,
             \A i \in Jobs \ {j} : job'[i] = job[i],
             \A k \in Kinds : Headless(k)' => Headless(k)
      PROVE  NamesKept'
  <2>1. Rewritten => Rewritten'
    BY <1>1 DEF Rewritten
  <2> QED
    BY <1>1, <2>1 DEF NamesKept
<1>2. ASSUME NEW j \in Jobs, MakeDirectory(j) PROVE NamesKept'
  <2>1. UNCHANGED <<kills, board>> /\ job[j].at # "truncated"
        /\ \A i \in Jobs \ {j} : job'[i] = job[i]
    BY <1>0, <1>2 DEF MakeDirectory, Goto, JobRecords
  <2> QED
    BY <1>1, <2>1 DEF Headless
<1>3. ASSUME NEW j \in Jobs, WriteFile(j) PROVE NamesKept'
  BY <1>3 DEF WriteFile, NamesKept, Headless, Rewritten
<1>4. ASSUME NEW j \in Jobs, FilesWritten(j) PROVE NamesKept'
  <2>1. UNCHANGED <<kills, board>> /\ job[j].at # "truncated"
        /\ \A i \in Jobs \ {j} : job'[i] = job[i]
    BY <1>0, <1>4 DEF FilesWritten, Goto, JobRecords
  <2> QED
    BY <1>1, <2>1 DEF Headless
<1>5. ASSUME NEW j \in Jobs, ReadBoard(j) PROVE NamesKept'
  <2>1. CASE board["run"].heading \in {"old", "row"}
    <3>1. job'[j].at = "truncated" /\ \A k \in Kinds \ {"run"} : board'[k] = board[k]
      BY <1>0, <1>5, <2>1 DEF ReadBoard, JobRecords
    <3> QED
      BY <3>1 DEF NamesKept, Headless, Rewritten
  <2>2. CASE board["run"].heading \notin {"old", "row"}
    <3>1. UNCHANGED <<kills, board>> /\ job[j].at # "truncated"
          /\ \A i \in Jobs \ {j} : job'[i] = job[i]
      BY <1>0, <1>5, <2>2 DEF ReadBoard, Goto, JobRecords
    <3> QED
      BY <1>1, <3>1 DEF Headless
  <2> QED
    BY <2>1, <2>2
<1>6. ASSUME NEW j \in Jobs, WriteBack(j) PROVE NamesKept'
  <2> DEFINE kept == IF job[j].heading \/ job[j].read = <<>> THEN job[j].read ELSE <<>>
             whole == [heading |-> "current", rows |-> kept]
  <2>1. board' = [board EXCEPT !["run"] = whole] /\ whole.heading = "current"
    BY <1>6 DEF WriteBack
  <2> HIDE DEF whole
  <2>2. \A k \in Kinds : IF k = "run" THEN board'[k].heading = "current" ELSE board'[k] = board[k]
    BY <1>0, <2>1
  <2> QED
    BY <2>2 DEF NamesKept, Headless
<1>7. ASSUME NEW j \in Jobs, CheckBoard(j) PROVE NamesKept'
  <2>1. UNCHANGED <<kills, board>> /\ job[j].at # "truncated"
        /\ \A i \in Jobs \ {j} : job'[i] = job[i]
    BY <1>0, <1>7 DEF CheckBoard, JobRecords
  <2> QED
    BY <1>1, <2>1 DEF Headless
<1>8. ASSUME NEW j \in Jobs, AppendRow(j) PROVE NamesKept'
  <2> DEFINE k == KindOf(j)
             new == Appended(board[k], job[j].heading, job[j].name)
  <2>1. board' = [board EXCEPT ![k] = new] /\ kills' = kills /\ job[j].at # "truncated"
        /\ \A i \in Jobs \ {j} : job'[i] = job[i]
    BY <1>0, <1>8 DEF AppendRow, Goto, JobRecords
  <2>2. new.heading \in {"nothing", "row"} => Headless(k)
    BY <1>0 DEF Appended, Headless, Boards, Kinds
  <2> HIDE DEF new
  <2>3. \A i \in Kinds : Headless(i)' => Headless(i)
    BY <1>0, <2>1, <2>2 DEF Headless
  <2> QED
    BY <1>1, <2>1, <2>3
<1>9. ASSUME NEW j \in Jobs, Kill(j) PROVE NamesKept'
  <2>1. kills' > 0 /\ board' = board
    BY <1>0, <1>9 DEF Kill
  <2> QED
    BY <2>1 DEF NamesKept, Headless
<1>10. ASSUME TickSecond PROVE NamesKept'
  BY <1>10 DEF TickSecond, NamesKept, Headless, Rewritten
<1> QED
  BY <1>2, <1>3, <1>4, <1>5, <1>6, <1>7, <1>8, <1>9, <1>10 DEF RunsNext

LEMMA NamesQuiet == NamesKept /\ UNCHANGED runsVars => NamesKept'
  BY DEF runsVars, NamesKept, Headless, Rewritten

LEMMA NamesStart == RunsInit => NamesKept
  BY DEF RunsInit, NamesKept, Headless

LEMMA RunsInitInv ==
    ASSUME RunsInit
    PROVE  RunsInv
<1> USE RunsAssumption DEF RunsInit
<1>1. Archived \in Names /\ Archived[1] = "run" /\ ToSet(<<Archived>>) = {Archived} /\ ToSet(<<>>) = {}
  BY DEF Names, Archived, ToSet
<1>2. <<>> \in Rows /\ <<Archived>> \in Rows
  BY <1>1 DEF Rows
<1>3. FilesInv
  <2>1. FilesOf("run") \in Seq(FileNames)
    BY FilesAreSeq
  <2>2. IsPrefix(FilesOf("run"), FilesOf("run"))
    BY <2>1 DEF IsPrefix
  <2> QED
    BY <1>1, <2>1, <2>2 DEF FilesInv
<1>4. Whole(Archived)
  BY <1>1 DEF Whole
<1>5. BoardInv
  BY <1>1, <1>2, <1>4 DEF BoardInv, Boards, ListsWhole
<1>6. \A j \in Jobs : job[j] = [at |-> "idle", name |-> NoName, read |-> <<>>, heading |-> FALSE]
  BY DEF Resting
<1>7. job \in JobRecords
  <2>1. job = [j \in Jobs |-> Resting(j)]
    OBVIOUS
  <2> QED
    BY <1>2, <2>1 DEF Steps, JobRecords, Resting
<1>8. \A j \in Jobs : WriterInv(j)
  BY <1>1, <1>6 DEF WriterInv, ListsWhole
<1> QED
  BY <1>3, <1>5, <1>7, <1>8 DEF RunsInv

LEMMA RunsQuietInv ==
    ASSUME RunsInv, UNCHANGED runsVars
    PROVE  RunsInv'
  BY DEF runsVars, RunsInv, FilesInv, BoardInv, WriterInv, ListsWhole, Whole

LEMMA RunsInvHolds ==
    ASSUME RunsInv, NamesKept
    PROVE  RunsTypeOK /\ ListedIsServed
<1>1. RunsTypeOK
  <2>1. \A j \in Jobs : /\ job[j].at \in Steps /\ job[j].name \in Names \cup {NoName}
                        /\ job[j].read \in Rows /\ job[j].heading \in BOOLEAN
    BY DEF RunsInv, JobRecords
  <2>2. DOMAIN writers = DOMAIN dirs /\ \A n \in DOMAIN writers : writers[n] \subseteq Jobs
    BY DEF RunsInv, FilesInv
  <2> QED
    BY <2>1, <2>2 DEF RunsInv, RunsTypeOK, FilesInv, BoardInv
<1>2. ASSUME NEW n, Whole(n) PROVE Served(n) = "whole"
  <2>1. CASE n[1] = "run"
    <3>1. ToSet(dirs[n]) = {"params", "metrics", "trades", "curve", "log"}
      <4>1. dirs[n] = <<"params", "metrics", "trades", "curve", "log">>
        BY <1>2, <2>1 DEF Whole, FilesOf, RunFiles
      <4> QED
        BY <4>1 DEF ToSet
    <3> QED
      BY <1>2, <2>1, <3>1 DEF Served, Whole
  <2>2. CASE n[1] # "run"
    <3>1. ToSet(dirs[n]) = {"metrics", "curve", "weights", "sleeves"}
      <4>1. dirs[n] = <<"metrics", "curve", "weights", "sleeves">>
        BY <1>2, <2>2 DEF Whole, FilesOf, PortfolioFiles
      <4> QED
        BY <4>1 DEF ToSet
    <3> QED
      BY <1>2, <2>2, <3>1 DEF Served, Whole
  <2> QED
    BY <2>1, <2>2
<1>3. NoName \notin Names \cup {Heading}
  BY DEF NoName, Heading, Names, Name, Archived
<1>4. ASSUME NEW k \in Kinds
      PROVE  /\ \A n \in ToSet(Shown(k)) \ {Heading, NoName} : Whole(n)
             /\ NoName \in ToSet(Shown(k)) => Headless(k)
  <2>1. board[k].rows \in Rows /\ ListsWhole(board[k].rows)
    BY DEF RunsInv, BoardInv, Boards
  <2>2. CASE board[k].heading = "row"
    <3>1. ToSet(Shown(k)) \subseteq {NoName}
      BY <2>2 DEF Shown, ToSet
    <3> QED
      BY <2>2, <3>1 DEF Headless
  <2>3. CASE board[k].heading # "row"
    <3>1. Shown(k) = board[k].rows
      BY <2>3 DEF Shown
    <3>2. NoName \notin ToSet(Shown(k))
      BY <1>3, <2>1, <3>1, RowsOf
    <3> QED
      BY <2>1, <3>1, <3>2 DEF ListsWhole
  <2> QED
    BY <2>2, <2>3
<1>5. \A k \in Kinds : \A n \in ToSet(Shown(k)) \ {Heading, NoName} : Served(n) = "whole"
  BY <1>2, <1>4
<1>6. \A k \in Kinds : NoName \in ToSet(Shown(k)) =>
         kills > 0 \/ \E j \in Jobs : job[j].at = "truncated"
  BY <1>4 DEF NamesKept, Rewritten
<1> QED
  BY <1>1, <1>5, <1>6 DEF ListedIsServed, RunsInv, FilesInv

-----------------------------------------------------------------------------
(* The fundamentals.                                                          *)

Final == Cardinality(Quarters)

LEMMA QuartersAre ==
    /\ Final \in Nat /\ Final >= 4 /\ Quarters = 1..Final /\ LastQuarter = Final /\ Days = 1..Final
<1>0. IsFiniteSet(Quarters) /\ Quarters = 1..Final /\ Final >= 4
  BY FundamentalsAssumption, Zenon DEF Final
<1>1. Final \in Nat /\ Final >= 4 /\ Quarters = 1..Final
  <2>1. Cardinality(Quarters) \in Nat
    BY <1>0, FS_CardinalityType, Zenon
  <2> QED
    BY <1>0, <2>1, Zenon DEF Final
<1>2. Max(Quarters) \in Quarters /\ \A d \in Quarters : d <= Max(Quarters)
  <2>1. Quarters \subseteq 0..Final /\ Quarters # {}
    <3>1. 1..Final \subseteq 0..Final /\ 1 \in 1..Final
      BY <1>1
    <3> QED
      BY <1>1, <3>1, Zenon
  <2> QED
    BY <1>1, <2>1, GreatestIsMax
<1>3. Max(Quarters) = Final
  BY <1>1, <1>2
<1> QED
  BY <1>1, <1>3 DEF LastQuarter, Days

\* A row is what the table keeps of a filing, its date that of the filing.
Row == [date : Days, version : Versions]

FilingsInv ==
    /\ filed \in [Quarters -> Seq(Days)]
    /\ \A q \in Quarters : filed[q] # <<>> => q <= today
    /\ \A q \in Quarters : Len(filed[q]) <= 1 \/ (Len(filed[q]) = 2 /\ MaxCorrections >= 1)
TableInv ==
    /\ DOMAIN table = Quarters
    /\ \A q \in Quarters : table[q] # NoRow =>
          /\ table[q] \in Row /\ table[q].version \in 1..Len(filed[q])
          /\ filed[q][table[q].version] = table[q].date
FundInv ==
    /\ edgar \in BOOLEAN /\ today \in Days /\ lost \in 0..MaxLost /\ tags \in Tags
    /\ FilingsInv /\ TableInv

LEMMA FundInitInv == ASSUME FundInit PROVE FundInv
<1>1. today \in Days /\ <<1>> \in Seq(Days) /\ Len(<<1>>) = 1 /\ <<>> \in Seq(Days) /\ Len(<<>>) = 0
  BY QuartersAre DEF FundInit
<1>2. FilingsInv
  BY <1>1 DEF FundInit, FilingsInv
<1>3. TableInv
  BY DEF FundInit, TableInv
<1> QED
  BY <1>1, <1>2, <1>3, FundamentalsAssumption DEF FundInit, FundInv

LEMMA FetchedIsRow ==
    ASSUME FundInv, NEW q \in Quarters, filed[q] # <<>>
    PROVE  /\ Fetched(q) \in Row /\ Fetched(q).version \in 1..Len(filed[q])
           /\ filed[q][Fetched(q).version] = Fetched(q).date
<1>1. filed[q] \in Seq(Days) /\ Len(filed[q]) \in Nat /\ Len(filed[q]) >= 1
  BY EmptySeq DEF FundInv, FilingsInv
<1>2. Last(filed[q]) = filed[q][Len(filed[q])] /\ filed[q][Len(filed[q])] \in Days
  BY <1>1 DEF Last
<1>3. Len(filed[q]) \in Versions
  <2>1. Len(filed[q]) <= 1 \/ (Len(filed[q]) = 2 /\ MaxCorrections >= 1)
    BY DEF FundInv, FilingsInv
  <2>2. MaxCorrections \in Nat
    BY FundamentalsAssumption
  <2> DEFINE n == Len(filed[q])
             m == MaxCorrections
  <2>3. n \in Nat /\ n >= 1 /\ m \in Nat /\ (n <= 1 \/ (n = 2 /\ m >= 1))
    BY <1>1, <2>1, <2>2
  <2>4. n \in 1..(m + 1)
    <3> HIDE DEF n, m
    <3> QED
      BY ONLY <2>3
  <2> QED
    BY <2>4 DEF Versions
<1> QED
  BY <1>1, <1>2, <1>3 DEF Fetched, Row

LEMMA FundStepInv == ASSUME FundInv, FundNext PROVE FundInv'
<1>0. /\ FilingsInv /\ TableInv /\ today \in Nat /\ filed \in [Quarters -> Seq(Days)]
      /\ \A q \in Quarters : Len(filed[q]) \in Nat
  BY QuartersAre DEF FundInv, FilingsInv
<1>a. ASSUME NEW q \in Quarters, NEW day \in Days, filed' = [filed EXCEPT ![q] = Append(@, day)],
             table' = table
      PROVE  /\ TableInv' /\ filed' \in [Quarters -> Seq(Days)] /\ Len(filed'[q]) = Len(filed[q]) + 1
             /\ filed'[q] # <<>> /\ \A p \in Quarters \ {q} : filed'[p] = filed[p]
  <2> DEFINE longer == Append(filed[q], day)
  <2>1. /\ longer \in Seq(Days) /\ Len(longer) = Len(filed[q]) + 1
        /\ \A i \in 1..Len(filed[q]) : longer[i] = filed[q][i]
    BY <1>0
  <2>2. filed' = [filed EXCEPT ![q] = longer]
    BY <1>a
  <2> HIDE DEF longer
  <2>3. filed' \in [Quarters -> Seq(Days)] /\ filed'[q] = longer
        /\ \A p \in Quarters \ {q} : filed'[p] = filed[p]
    BY <1>0, <2>1, <2>2
  <2>4. longer # <<>>
    BY <1>0, <2>1
  <2>5. ASSUME NEW p \in Quarters, table[p] # NoRow
        PROVE  table[p].version \in 1..Len(filed'[p]) /\ filed'[p][table[p].version] = table[p].date
    <3>1. table[p].version \in 1..Len(filed[p]) /\ filed[p][table[p].version] = table[p].date
      BY <1>0, <2>5 DEF TableInv
    <3>2. CASE p = q
      BY <1>0, <2>1, <2>3, <3>1, <3>2
    <3>3. CASE p # q
      BY <2>3, <3>1, <3>3
    <3> QED
      BY <3>2, <3>3
  <2>6. TableInv'
    BY <1>0, <1>a, <2>5 DEF TableInv
  <2> QED
    BY <2>1, <2>3, <2>4, <2>6
<1>1. CASE FileReport
  <2>0. /\ today + 1 \in Quarters /\ today + 1 \in Days /\ today' = today + 1
        /\ filed' = [filed EXCEPT ![today + 1] = Append(@, today + 1)] /\ table' = table
    BY <1>0, <1>1, QuartersAre DEF FileReport
  <2> DEFINE next == today + 1
  <2>1. /\ TableInv' /\ filed' \in [Quarters -> Seq(Days)] /\ Len(filed'[next]) = Len(filed[next]) + 1
        /\ filed'[next] # <<>> /\ \A p \in Quarters \ {next} : filed'[p] = filed[p]
    BY <1>a, <2>0
  <2>2. filed[next] = <<>>
    BY <1>0, <2>0 DEF FilingsInv
  <2>3. Len(filed'[next]) = 1
    BY <2>1, <2>2
  <2>4. FilingsInv'
    <3>1. ASSUME NEW q \in Quarters
          PROVE  /\ filed'[q] # <<>> => q <= today'
                 /\ Len(filed'[q]) <= 1 \/ (Len(filed'[q]) = 2 /\ MaxCorrections >= 1)
      <4>1. CASE q = next
        BY <1>0, <2>0, <2>3, <4>1
      <4>2. CASE q # next
        <5>1. filed'[q] = filed[q]
          BY <2>1, <4>2
        <5>2. q \in Nat
          BY QuartersAre
        <5> QED
          BY <1>0, <2>0, <5>1, <5>2 DEF FilingsInv
      <4> QED
        BY <4>1, <4>2
    <3> QED
      BY <2>1, <3>1 DEF FilingsInv
  <2> QED
    BY <1>1, <2>0, <2>1, <2>4 DEF FundInv, FileReport
<1>2. ASSUME NEW q \in Quarters, CorrectReport(q) PROVE FundInv'
  <2>0. /\ filed' = [filed EXCEPT ![q] = Append(@, today)] /\ table' = table /\ today' = today
        /\ Len(filed[q]) = 1 /\ filed[q] # <<>>
        /\ Cardinality({p \in Quarters : Len(filed[p]) > 1}) < MaxCorrections
    BY <1>2 DEF CorrectReport
  <2>1. /\ TableInv' /\ filed' \in [Quarters -> Seq(Days)] /\ Len(filed'[q]) = Len(filed[q]) + 1
        /\ filed'[q] # <<>> /\ \A p \in Quarters \ {q} : filed'[p] = filed[p]
    <3>1. today \in Days
      BY DEF FundInv
    <3> QED
      BY <1>a, <2>0, <3>1
  <2>2. MaxCorrections >= 1
    <3> DEFINE corrected == {p \in Quarters : Len(filed[p]) > 1}
    <3>1. IsFiniteSet(corrected)
      BY FundamentalsAssumption, FS_Subset
    <3>2. Cardinality(corrected) \in Nat
      BY <3>1, FS_CardinalityType
    <3> HIDE DEF corrected
    <3>3. MaxCorrections \in Nat
      BY FundamentalsAssumption
    <3>4. Cardinality(corrected) < MaxCorrections
      BY <2>0 DEF corrected
    <3> QED
      BY ONLY <3>2, <3>3, <3>4
  <2>4. FilingsInv'
    <3>1. ASSUME NEW p \in Quarters
          PROVE  /\ filed'[p] # <<>> => p <= today'
                 /\ Len(filed'[p]) <= 1 \/ (Len(filed'[p]) = 2 /\ MaxCorrections >= 1)
      <4>1. CASE p = q
        BY <1>0, <2>0, <2>1, <2>2, <4>1 DEF FilingsInv
      <4>2. CASE p # q
        <5>1. filed'[p] = filed[p]
          BY <2>1, <4>2
        <5> QED
          BY <1>0, <2>0, <5>1 DEF FilingsInv
      <4> QED
        BY <4>1, <4>2
    <3> QED
      BY <2>1, <3>1 DEF FilingsInv
  <2> QED
    BY <1>2, <2>1, <2>4 DEF FundInv, CorrectReport
<1>3. ASSUME NEW refused \in SUBSET {q \in Quarters : filed[q] # <<>>}, LoadReports(refused)
      PROVE  FundInv'
  <2>0. /\ table' = [q \in Quarters |-> IF filed[q] = <<>> \/ q \in refused THEN table[q] ELSE Stored(q)]
        /\ lost' = lost + Cardinality(refused) /\ lost + Cardinality(refused) <= MaxLost
        /\ edgar' = edgar /\ today' = today /\ filed' = filed /\ tags' = tags
    BY <1>3 DEF LoadReports
  <2>1. lost' \in 0..MaxLost
    <3>1. IsFiniteSet(refused)
      BY FundamentalsAssumption, FS_Subset
    <3>2. Cardinality(refused) \in Nat
      BY <3>1, FS_CardinalityType
    <3>3. MaxLost \in Nat /\ lost \in 0..MaxLost
      BY FundamentalsAssumption DEF FundInv
    <3> DEFINE n == Cardinality(refused)
    <3> HIDE DEF n
    <3>4. lost' = lost + n /\ lost + n <= MaxLost /\ n \in Nat
      BY <2>0, <3>2 DEF n
    <3> QED
      BY ONLY <3>3, <3>4
  <2>2. ASSUME NEW q \in Quarters, table'[q] # NoRow
        PROVE  /\ table'[q] \in Row /\ table'[q].version \in 1..Len(filed[q])
               /\ filed[q][table'[q].version] = table'[q].date
    <3>1. table'[q] = table[q] \/ (filed[q] # <<>> /\ table'[q] = Fetched(q))
      BY <2>0 DEF Stored
    <3>2. CASE table'[q] = table[q]
      BY <1>0, <2>2, <3>2 DEF TableInv
    <3>3. CASE filed[q] # <<>> /\ table'[q] = Fetched(q)
      BY <3>3, FetchedIsRow
    <3> QED
      BY <3>1, <3>2, <3>3
  <2>3. TableInv'
    BY <2>0, <2>2 DEF TableInv
  <2>4. FilingsInv'
    BY <1>0, <2>0 DEF FilingsInv
  <2> QED
    BY <2>0, <2>1, <2>3, <2>4 DEF FundInv
<1> QED
  BY <1>1, <1>2, <1>3 DEF FundNext

LEMMA FundQuietInv == ASSUME FundInv, UNCHANGED fundVars PROVE FundInv'
  BY DEF FundInv, fundVars, FilingsInv, TableInv

-----------------------------------------------------------------------------
(* What a factor reads.                                                        *)

\* A row covers its own quarter.
LEMMA FlowHasOwn ==
    ASSUME NEW q \in Quarters, ~edgar
    PROVE  q \in Flow(q) /\ Flow(q) \subseteq 1..q
<1>1. q \in Nat /\ q >= 1
  BY QuartersAre
<1>2. CASE Annual(q)
  <2>1. 4 * YearOf(q) + 1 <= q /\ 4 * YearOf(q) + 1 >= 1 /\ YearOf(q) \in Nat
    BY <1>1 DEF YearOf
  <2> QED
    BY <1>1, <1>2, <2>1 DEF Flow, YearUpTo
<1>3. CASE ~Annual(q)
  BY <1>1, <1>3 DEF Flow
<1> QED
  BY <1>2, <1>3

LEMMA GreatestQuarter ==
    ASSUME NEW S, S \subseteq Quarters, S # {}
    PROVE  Max(S) \in S /\ \A q \in S : q <= Max(S)
<1>1. S \subseteq 0..Final /\ Final \in Nat
  <2>1. Final \in Nat /\ Quarters = 1..Final
    BY QuartersAre
  <2>2. 1..Final \subseteq 0..Final
    BY <2>1
  <2> QED
    BY <2>1, <2>2, Zenon
<1> QED
  BY <1>1, GreatestIsMax

\* No quarter is counted that no row covers.
LEMMA TtmIsCovered ==
    ASSUME NEW W, W \subseteq Quarters, ~edgar
    PROVE  ReconstructTtm(W) \subseteq UNION {Flow(q) : q \in W}
<1> DEFINE interims == {q \in W : ~Annual(q)}
           annuals == {q \in W : Annual(q)}
           derived == {q \in annuals : YearUpTo(q - 1) \subseteq interims}
           quarters == interims \union derived
           last(n) == {q \in quarters : Cardinality({p \in quarters : p > q}) < n}
           U == UNION {Flow(q) : q \in W}
<1>1. quarters \subseteq U
  <2>1. \A q \in quarters : q \in W
    OBVIOUS
  <2> HIDE DEF quarters
  <2>2. \A q \in W : q \in Flow(q)
    BY FlowHasOwn
  <2> QED
    BY <2>1, <2>2
<1>2. last(4) \subseteq U
  <2>1. last(4) \subseteq quarters
    OBVIOUS
  <2> HIDE DEF quarters, U, last
  <2> QED
    BY <1>1, <2>1
<1>3. ASSUME annuals # {} PROVE YearUpTo(Max(annuals)) \subseteq U
  <2>1. annuals \subseteq Quarters
    OBVIOUS
  <2> DEFINE a == Max(annuals)
  <2>2. a \in annuals
    <3> HIDE DEF annuals
    <3> QED
      BY <1>3, <2>1, GreatestQuarter
  <2> HIDE DEF a
  <2>3. a \in W /\ Annual(a)
    BY <2>2
  <2>4. Flow(a) = YearUpTo(a)
    BY <2>3 DEF Flow
  <2>5. YearUpTo(a) \subseteq U
    BY <2>3, <2>4
  <2> QED
    BY <2>5 DEF a
<1>4. ReconstructTtm(W) = IF Cardinality(quarters) >= 4 /\ (annuals = {} \/ Max(quarters) >= Max(annuals)) THEN last(4)
                          ELSE IF annuals # {} THEN YearUpTo(Max(annuals)) ELSE last(4)
  BY DEF ReconstructTtm
<1> HIDE DEF annuals, quarters, last, U
<1>5. ReconstructTtm(W) \subseteq U
  BY <1>2, <1>3, <1>4
<1> QED
  BY <1>5 DEF U

\* Rows that follow each other in time are the newest from the end.
LEMMA NewestAreLast ==
    ASSUME NEW m \in Nat, NEW R, R = 1..m, \A q \in R : table[q].date \in Nat,
           \A p, q \in R : p < q => ~Newer(p, q), NEW k \in Nat
    PROVE  Newest(R, k) = {q \in R : q > m - k}
<1>1. ASSUME NEW p \in R, NEW q \in R
      PROVE  Newer(p, q) <=> p > q
  <2>1. p \in Nat /\ q \in Nat /\ table[p].date \in Nat /\ table[q].date \in Nat
    OBVIOUS
  <2>2. CASE p > q
    <3>1. ~Newer(q, p)
      BY <2>1, <2>2
    <3> QED
      BY <2>1, <2>2, <3>1 DEF Newer
  <2>3. CASE p < q
    BY <2>1, <2>3
  <2>4. CASE p = q
    BY <2>1, <2>4 DEF Newer
  <2> QED
    BY <2>1, <2>2, <2>3, <2>4
<1>2. ASSUME NEW q \in R
      PROVE  Cardinality({p \in R : Newer(p, q)}) = m - q
  <2>0. q \in Nat /\ q <= m /\ q >= 1
    OBVIOUS
  <2>1. {p \in R : Newer(p, q)} = {p \in R : p > q}
    BY <1>1
  <2>2. {p \in R : p > q} = (q + 1)..m
    BY <2>0
  <2>3. Cardinality((q + 1)..m) = IF q + 1 > m THEN 0 ELSE m - (q + 1) + 1
    BY <2>0, FS_Interval
  <2> DEFINE c == Cardinality((q + 1)..m)
  <2>4. Cardinality({p \in R : Newer(p, q)}) = c
    BY <2>1, <2>2
  <2>5. c = IF q + 1 > m THEN 0 ELSE m - (q + 1) + 1
    BY <2>3
  <2> HIDE DEF c
  <2>6. c = m - q
    BY <2>0, <2>5
  <2> QED
    BY <2>4, <2>6
<1>3. ASSUME NEW q \in R PROVE q \in Newest(R, k) <=> q > m - k
  <2>1. q \in Newest(R, k) <=> Cardinality({p \in R : Newer(p, q)}) < k
    BY DEF Newest
  <2>2. q \in Nat
    OBVIOUS
  <2>3. q \in Newest(R, k) <=> m - q < k
    BY <1>2, <2>1
  <2> QED
    BY <2>2, <2>3
<1>4. Newest(R, k) \subseteq R
  BY DEF Newest
<1> HIDE DEF Newest
<1> QED
  BY <1>3, <1>4

\* With a figure for each of its quarters, a year of EDGAR's is booked quarter by quarter.
LEMMA BookedIsOwn ==
    ASSUME \A p \in 1..4 : tags[p] # "none", NEW q \in Quarters
    PROVE  Booked(q) = {q}
<1>0. q \in Nat /\ q >= 1
  BY QuartersAre
<1> DEFINE Body(booked) == booked = [p \in 0..4 |->
                IF p = 0 \/ p \notin Tagged THEN {}
                ELSE IF tags[p] = "discrete" THEN {p}
                ELSE (1..p) \ UNION {booked[e] : e \in 0..(p - 1)}]
           own == [p \in 0..4 |-> IF p = 0 THEN {} ELSE {p}]
           f == CHOOSE booked : Body(booked)
<1>1. Tagged = 1..4
  BY DEF Tagged
<1>2. Body(own)
  <2>1. ASSUME NEW p \in 1..4
        PROVE  (1..p) \ UNION {own[e] : e \in 0..(p - 1)} = {p}
    <3>1. \A e \in 0..(p - 1) : own[e] = IF e = 0 THEN {} ELSE {e}
      OBVIOUS
    <3> HIDE DEF own
    <3>2. ASSUME NEW x \in 1..p
          PROVE  (\E e \in 0..(p - 1) : x \in own[e]) <=> x # p
      <4>1. ASSUME NEW e \in 0..(p - 1), x \in own[e] PROVE x # p
        <5>1. x = e
          BY <3>1, <4>1
        <5> QED
          BY <5>1
      <4>2. ASSUME x # p PROVE x \in 0..(p - 1) /\ x \in own[x]
        <5>1. x \in 0..(p - 1) /\ x # 0
          BY <4>2
        <5> QED
          BY <3>1, <5>1
      <4> QED
        BY <4>1, <4>2
    <3>3. \A x \in 1..p : x \in UNION {own[e] : e \in 0..(p - 1)} <=> x # p
      BY <3>2
    <3> QED
      BY <3>3
  <2>2. ASSUME NEW p \in 0..4
        PROVE  own[p] = IF p = 0 \/ p \notin Tagged THEN {}
                        ELSE IF tags[p] = "discrete" THEN {p}
                        ELSE (1..p) \ UNION {own[e] : e \in 0..(p - 1)}
    <3>1. CASE p = 0
      BY <3>1
    <3>2. CASE p # 0
      <4>1. p \in 1..4 /\ own[p] = {p}
        BY <3>2
      <4> HIDE DEF own
      <4> QED
        BY <1>1, <2>1, <3>2, <4>1
    <3> QED
      BY <3>1, <3>2
  <2>3. DOMAIN own = 0..4 /\ own = [p \in 0..4 |-> own[p]]
    OBVIOUS
  <2> HIDE DEF own
  <2> QED
    BY <2>2, <2>3
<1>3. Body(f)
  <2> HIDE DEF Body, own
  <2> QED
    BY <1>2
<1>4. ASSUME q <= 4 PROVE f[q] = {q}
  <2> HIDE DEF f
  <2>1. \A p \in 1..4 : f[p] = IF tags[p] = "discrete" THEN {p}
                               ELSE (1..p) \ UNION {f[e] : e \in 0..(p - 1)}
    <3>1. f = [p \in 0..4 |-> IF p = 0 \/ p \notin Tagged THEN {}
                             ELSE IF tags[p] = "discrete" THEN {p}
                             ELSE (1..p) \ UNION {f[e] : e \in 0..(p - 1)}]
      BY <1>3, Zenon
    <3>2. ASSUME NEW p \in 0..4
          PROVE  f[p] = IF p = 0 \/ p \notin Tagged THEN {}
                        ELSE IF tags[p] = "discrete" THEN {p}
                        ELSE (1..p) \ UNION {f[e] : e \in 0..(p - 1)}
      <4> DEFINE g == [d \in 0..4 |-> IF d = 0 \/ d \notin Tagged THEN {}
                             ELSE IF tags[d] = "discrete" THEN {d}
                             ELSE (1..d) \ UNION {f[e] : e \in 0..(d - 1)}]
      <4>1. f[p] = g[p]
        BY <3>1, Zenon
      <4>2. g[p] = IF p = 0 \/ p \notin Tagged THEN {}
                   ELSE IF tags[p] = "discrete" THEN {p}
                   ELSE (1..p) \ UNION {f[e] : e \in 0..(p - 1)}
        BY Zenon
      <4> QED
        BY <4>1, <4>2, Zenon
    <3>3. \A p \in 1..4 : p \in 0..4 /\ p # 0 /\ p \in Tagged
      BY <1>1
    <3> QED
      BY <3>2, <3>3, Zenon
  <2>2. f[0] = {}
    BY <1>3
  <2> HIDE DEF Body
  <2>3. f[1] = {1}
    <3>1. \A e \in 0..0 : f[e] = {}
      BY <2>2
    <3> QED
      BY <2>1, <3>1
  <2>4. f[2] = {2}
    <3>1. \A x \in 1..2 : (\E e \in 0..1 : x \in f[e]) <=> x = 1
      BY <2>2, <2>3
    <3>2. (1..2) \ UNION {f[e] : e \in 0..1} = {2}
      BY <3>1
    <3> QED
      BY <2>1, <3>2
  <2>5. f[3] = {3}
    <3>1. \A x \in 1..3 : (\E e \in 0..2 : x \in f[e]) <=> x \in {1, 2}
      BY <2>2, <2>3, <2>4
    <3>2. (1..3) \ UNION {f[e] : e \in 0..2} = {3}
      BY <3>1
    <3> QED
      BY <2>1, <3>2
  <2>6. f[4] = {4}
    <3>1. \A x \in 1..4 : (\E e \in 0..3 : x \in f[e]) <=> x \in {1, 2, 3}
      BY <2>2, <2>3, <2>4, <2>5
    <3>2. (1..4) \ UNION {f[e] : e \in 0..3} = {4}
      BY <3>1
    <3> QED
      BY <2>1, <3>2
  <2> QED
    BY <1>0, <1>4, <2>3, <2>4, <2>5, <2>6
<1>5. Booked(q) = IF q > 4 THEN {q} ELSE f[q]
  BY DEF Booked
<1> HIDE DEF f
<1> QED
  BY <1>0, <1>4, <1>5

LEMMA ThreeBefore ==
    ASSUME NEW q \in Nat, q >= 1, Annual(q)
    PROVE  /\ q >= 4 /\ YearUpTo(q - 1) = (q - 3)..(q - 1)
           /\ \A p \in (q - 3)..(q - 1) : ~Annual(p)
<1>1. q % 4 = 0
  BY DEF Annual
<1>2. q >= 4 /\ 4 * ((q - 2) \div 4) + 1 = q - 3
  BY <1>1
<1>3. (q - 1) - 1 = q - 2
  OBVIOUS
<1>4. YearUpTo(q - 1) = (q - 3)..(q - 1)
  BY <1>2, <1>3 DEF YearUpTo, YearOf
<1>5. \A p \in (q - 3)..(q - 1) : p % 4 # 0
  BY <1>1, <1>2
<1> QED
  BY <1>2, <1>4, <1>5 DEF Annual

\* DART's last twelve rows, none missing, give the last four quarters.
LEMMA TtmIsLastFour ==
    ASSUME NEW m \in Nat, m >= 1, 1..m \subseteq Quarters, NEW W, W = {q \in 1..m : q > m - 12}
    PROVE  ReconstructTtm(W) = {q \in 1..m : q > m - 4}
<1> DEFINE interims == {q \in W : ~Annual(q)}
           annuals == {q \in W : Annual(q)}
           derived == {q \in annuals : YearUpTo(q - 1) \subseteq interims}
           quarters == interims \union derived
           newer(q) == {p \in quarters : p > q}
           last(n) == {q \in quarters : Cardinality(newer(q)) < n}
           four == {q \in 1..m : q > m - 4}
<1>1. four \subseteq quarters
  <2> SUFFICES ASSUME NEW q \in 1..m, q > m - 4 PROVE q \in quarters
    OBVIOUS
  <2>0. q \in Nat /\ q >= 1 /\ q \in W
    OBVIOUS
  <2>1. CASE Annual(q)
    <3>1. /\ q >= 4 /\ YearUpTo(q - 1) = (q - 3)..(q - 1)
          /\ \A p \in (q - 3)..(q - 1) : ~Annual(p)
      BY <2>0, <2>1, ThreeBefore
    <3>2. (q - 3)..(q - 1) \subseteq W
      BY <2>0, <3>1
    <3>3. (q - 3)..(q - 1) \subseteq interims
      BY <3>1, <3>2
    <3> HIDE DEF interims
    <3> QED
      BY <2>0, <2>1, <3>1, <3>3
  <2>2. CASE ~Annual(q)
    BY <2>0, <2>2
  <2> QED
    BY <2>1, <2>2
<1>2. quarters \subseteq 1..m /\ annuals \subseteq 1..m
  OBVIOUS
<1> HIDE DEF quarters, annuals
<1>3. IsFiniteSet(quarters) /\ IsFiniteSet(1..m)
  <2>1. IsFiniteSet(1..m)
    BY FS_Interval
  <2> QED
    BY <1>2, <2>1, FS_Subset
<1>4. ASSUME m >= 4
      PROVE  (m - 3)..m \subseteq quarters /\ Cardinality((m - 3)..m) = 4 /\ IsFiniteSet((m - 3)..m)
  <2>1. (m - 3)..m \subseteq four
    BY <1>4
  <2>2. IsFiniteSet((m - 3)..m) /\ Cardinality((m - 3)..m) = IF m - 3 > m THEN 0 ELSE m - (m - 3) + 1
    <3>1. m - 3 \in Int /\ m \in Int
      OBVIOUS
    <3> QED
      BY <3>1, FS_Interval
  <2>3. (IF m - 3 > m THEN 0 ELSE m - (m - 3) + 1) = 4
    OBVIOUS
  <2> QED
    BY <1>1, <2>1, <2>2
<1>5. ASSUME NEW q \in quarters
      PROVE  Cardinality(newer(q)) < 4 <=> q > m - 4
  <2>0. q \in Nat /\ q >= 1 /\ q <= m
    BY <1>2
  <2> DEFINE c == Cardinality(newer(q))
  <2>1. IsFiniteSet(newer(q)) /\ c \in Nat
    BY <1>3, FS_Subset, FS_CardinalityType
  <2>2. CASE q > m - 4
    <3> DEFINE k == Cardinality((q + 1)..m)
    <3>1. newer(q) \subseteq (q + 1)..m
      <4>1. ASSUME NEW p \in quarters, p > q PROVE p \in (q + 1)..m
        <5>1. p \in Nat /\ p <= m
          BY <1>2
        <5> QED
          BY <2>0, <4>1, <5>1
      <4> QED
        BY <4>1
    <3>2. IsFiniteSet((q + 1)..m) /\ k = IF q + 1 > m THEN 0 ELSE m - (q + 1) + 1
      BY <2>0, FS_Interval
    <3>3. c <= k
      BY <3>1, <3>2, FS_Subset
    <3> HIDE DEF c, k
    <3>4. c < 4
      BY <2>0, <2>1, <2>2, <3>2, <3>3
    <3> QED
      BY <2>2, <3>4 DEF c
  <2>3. CASE ~(q > m - 4)
    <3>0. m >= 4
      BY <2>0, <2>3
    <3>1. (m - 3)..m \subseteq newer(q)
      BY <1>4, <2>0, <2>3, <3>0
    <3>2. Cardinality((m - 3)..m) <= c
      BY <2>1, <3>1, FS_Subset
    <3>3. 4 <= c
      BY <1>4, <3>0, <3>2
    <3> HIDE DEF c
    <3>4. ~(c < 4)
      BY <2>1, <3>3
    <3> QED
      BY <2>3, <3>4 DEF c
  <2> QED
    BY <2>2, <2>3
<1>6. last(4) = four
  <2> HIDE DEF newer
  <2>1. \A q \in last(4) : q \in quarters /\ q > m - 4
    BY <1>5
  <2>2. \A q \in four : q \in quarters /\ q > m - 4
    BY <1>1
  <2>3. last(4) \subseteq four
    BY <1>2, <2>1
  <2>4. four \subseteq last(4)
    BY <1>5, <2>2
  <2> HIDE DEF last, four
  <2> QED
    BY <2>3, <2>4
<1>7. ReconstructTtm(W) = IF Cardinality(quarters) >= 4 /\ (annuals = {} \/ Max(quarters) >= Max(annuals)) THEN last(4)
                          ELSE IF annuals # {} THEN YearUpTo(Max(annuals)) ELSE last(4)
  BY DEF ReconstructTtm, quarters, annuals
<1> HIDE DEF newer, last, interims, derived
<1>8. CASE m < 4
  <2>1. annuals = {}
    <3>1. ASSUME NEW q \in annuals PROVE FALSE
      <4>1. q \in 1..m /\ Annual(q)
        BY <1>2 DEF annuals
      <4>2. q \in Nat /\ q >= 1 /\ q < 4
        BY <1>8, <4>1
      <4> QED
        BY <4>1, <4>2, ThreeBefore
    <3> QED
      BY <3>1
  <2> QED
    BY <1>6, <1>7, <2>1
<1>9. CASE m >= 4
  <2> DEFINE c == Cardinality(quarters)
  <2>1. c \in Nat /\ Cardinality((m - 3)..m) <= c
    BY <1>3, <1>4, <1>9, FS_Subset, FS_CardinalityType
  <2>2. 4 <= c
    BY <1>4, <1>9, <2>1
  <2>3. m \in quarters
    BY <1>4, <1>9
  <2>4. Max(quarters) \in 1..m /\ m <= Max(quarters)
    BY <1>2, <2>3, GreatestQuarter
  <2>5. annuals # {} => Max(annuals) \in 1..m
    BY <1>2, GreatestQuarter
  <2>6. annuals = {} \/ Max(quarters) >= Max(annuals)
    <3> DEFINE x == Max(quarters)
               y == Max(annuals)
    <3> HIDE DEF x, y
    <3>1. x \in 1..m /\ m <= x /\ (annuals # {} => y \in 1..m)
      BY <2>4, <2>5 DEF x, y
    <3>2. annuals # {} => x >= y
      BY <3>1
    <3> QED
      BY <3>2 DEF x, y
  <2> HIDE DEF c
  <2>7. c >= 4
    BY <2>1, <2>2
  <2> QED
    BY <1>6, <1>7, <2>6, <2>7 DEF c
<1>10. m < 4 \/ m >= 4
  OBVIOUS
<1> QED
  BY <1>8, <1>9, <1>10

LEMMA FundInvHolds ==
    ASSUME FundInv
    PROVE  FundTypeOK /\ FiguresHold
<1>0. /\ FilingsInv /\ TableInv /\ edgar \in BOOLEAN
      /\ \A q \in Quarters : table[q] # NoRow => table[q].date \in Nat
  BY QuartersAre DEF FundInv, TableInv, Row
<1>1. FundTypeOK
  BY DEF FundInv, FilingsInv, TableInv, FundTypeOK, Row
<1>2. ASSUME NEW d \in 1..today
      PROVE  LET flow == Ratio(d).flow
                 known == Known(d)
                 inTime == \A p, q \in known : p < q => ~Newer(p, q)
             IN /\ \A q \in known : filed[q][table[q].version] <= d
                /\ flow \subseteq UNION {Flow(q) : q \in known}
                /\ (WholeYear /\ inTime /\ known # {} /\ known = 1..Max(known)) =>
                      flow = {q \in UNION {Flow(p) : p \in known} : q > Max(known) - 4}
  <2> DEFINE R == Known(d)
             m == Max(R)
             covered == UNION {Flow(q) : q \in R}
  <2>1. /\ R \subseteq Quarters
        /\ \A q \in R : table[q] # NoRow /\ table[q].date <= d /\ table[q].date \in Nat
    BY <1>0 DEF Known
  <2>2. Ratio(d).flow = Ttm(d)
    BY DEF Ratio
  <2> HIDE DEF R
  <2>3. \A q \in R : filed[q][table[q].version] <= d
    BY <1>0, <2>1 DEF TableInv
  <2>4. Ttm(d) = IF edgar THEN UNION {Flow(q) : q \in Newest(R, 4)} ELSE ReconstructTtm(Newest(R, 12))
    BY DEF Ttm, R
  <2>5. Newest(R, 4) \subseteq R /\ Newest(R, 12) \subseteq R
    BY DEF Newest
  <2>6. Ttm(d) \subseteq covered
    <3>1. CASE edgar
      <4>1. Ttm(d) = UNION {Flow(q) : q \in Newest(R, 4)}
        BY <2>4, <3>1
      <4> DEFINE N == Newest(R, 4)
      <4> HIDE DEF N
      <4>2. N \subseteq R
        BY <2>5 DEF N
      <4>3. UNION {Flow(q) : q \in N} \subseteq covered
        BY <4>2
      <4> QED
        BY <4>1, <4>3 DEF N
    <3>2. CASE ~edgar
      <4> DEFINE N == Newest(R, 12)
      <4>1. Ttm(d) = ReconstructTtm(N)
        BY <2>4, <3>2
      <4> HIDE DEF N
      <4>2. N \subseteq R /\ N \subseteq Quarters
        BY <2>1, <2>5 DEF N
      <4>3. ReconstructTtm(N) \subseteq UNION {Flow(q) : q \in N}
        BY <3>2, <4>2, TtmIsCovered
      <4>4. UNION {Flow(q) : q \in N} \subseteq covered
        BY <4>2
      <4> HIDE DEF covered
      <4> QED
        BY <4>1, <4>3, <4>4
    <3> QED
      BY <3>1, <3>2
  <2>7. ASSUME WholeYear, \A p, q \in R : p < q => ~Newer(p, q), R # {}, R = 1..m
        PROVE  Ttm(d) = {q \in covered : q > m - 4}
    <3>0. m \in R /\ m \in Nat /\ m >= 1
      <4>1. m \in R
        BY <2>1, <2>7, GreatestQuarter
      <4> HIDE DEF m
      <4>2. m \in Quarters
        BY <2>1, <4>1
      <4> QED
        BY <4>1, <4>2, QuartersAre
    <3> HIDE DEF m
    <3>1. ASSUME NEW k \in Nat PROVE Newest(R, k) = {q \in 1..m : q > m - k}
      <4>1. Newest(R, k) = {q \in R : q > m - k}
        BY <2>1, <2>7, <3>0, NewestAreLast
      <4> QED
        BY <2>7, <4>1
    <3>2. CASE edgar
      <4>1. \A q \in R : Flow(q) = {q}
        BY <2>1, <2>7, <3>2, BookedIsOwn DEF Flow, WholeYear
      <4> DEFINE N == {q \in 1..m : q > m - 4}
      <4>2. Newest(R, 4) = N
        BY <3>1
      <4>3. N \subseteq R
        BY <2>7
      <4>4. covered = R
        BY <4>1
      <4> HIDE DEF N
      <4>5. UNION {Flow(q) : q \in N} = N
        BY <4>1, <4>3
      <4> HIDE DEF covered
      <4>6. Ttm(d) = N
        BY <2>4, <3>2, <4>2, <4>5
      <4> QED
        BY <2>7, <4>4, <4>6 DEF N
    <3>3. CASE ~edgar
      <4> DEFINE W == {q \in 1..m : q > m - 12}
      <4>1. Newest(R, 12) = W
        BY <3>1
      <4>2. ReconstructTtm(W) = {q \in 1..m : q > m - 4}
        BY <2>1, <2>7, <3>0, TtmIsLastFour
      <4>3. covered = 1..m
        <5>1. \A q \in 1..m : q \in Flow(q) /\ Flow(q) \subseteq 1..q /\ q <= m
          BY <2>1, <2>7, <3>3, FlowHasOwn
        <5>2. \A q \in 1..m : 1..q \subseteq 1..m
          BY <3>0
        <5>3. \A q \in R : Flow(q) \subseteq 1..m
          BY <2>7, <5>1, <5>2
        <5>4. \A q \in 1..m : q \in R /\ q \in Flow(q)
          BY <2>7, <5>1
        <5>5. covered \subseteq 1..m
          BY <5>3
        <5>6. 1..m \subseteq covered
          BY <5>4
        <5> QED
          BY <5>5, <5>6
      <4> HIDE DEF W, covered
      <4>4. Ttm(d) = ReconstructTtm(W)
        BY <2>4, <3>3, <4>1
      <4> QED
        BY <4>2, <4>3, <4>4
    <3> QED
      BY <3>2, <3>3
  <2> QED
    BY <2>2, <2>3, <2>6, <2>7 DEF R
<1> QED
  BY <1>1, <1>2 DEF FiguresHold

-----------------------------------------------------------------------------
(* The files of an index's members.                                            *)

\* Who writes has enough, so that a file is written by a refresh that is done, unless
\* one was stopped with the file open.
UniverseInv ==
    /\ UniverseTypeOK
    /\ \A j \in Lookups : lookup[j].at = "write" => Enough(lookup[j].found)
    /\ FileIsWhole

LEMMA MinRefreshIs ==
    \A i \in DOMAIN MinRefresh : MinRefresh[i] \in Nat \ {0} /\ Limit[i] \in Nat \ {0}
                                 /\ MinRefresh[i] <= Limit[i]
  BY DEF MinRefresh, Limit

LEMMA LesserOf ==
    ASSUME NEW a \in Nat, NEW b \in Nat
    PROVE  Min({a, b}) \in {a, b}
  BY LeastIsMin

\* What finding a list or not finding one leaves alone, and where the lookup goes.
LEMMA FindKeeps ==
    ASSUME UniverseInv, NEW j \in Lookups, NEW list \in Lists, NEW cached \in BOOLEAN,
           lookup[j].at # "write", Find(j, list, cached)
    PROVE  UniverseInv'
<1> USE DEF UniverseInv, UniverseTypeOK, Stages
<1> DEFINE next == IF LookupKind(j) = "refresh" THEN "compare" ELSE "done"
<1>1. /\ lookup' = [lookup EXCEPT ![j] = [at |-> next, found |-> list]]
      /\ UNCHANGED <<index, file, taken, stops>>
  BY DEF Find
<1>2. next \in {"compare", "done"} /\ (LookupKind(j) = "refresh" => next = "compare")
  OBVIOUS
<1> HIDE DEF next
<1>3. cache' \in [ListDays -> Lists]
  BY UniverseAssumption DEF Find
<1>4. lookup' \in [Lookups -> [at : Stages, found : Lists]]
  BY <1>1, <1>2
<1>5. (\A i \in Lookups : lookup[i].at = "write" => Enough(lookup[i].found))'
  BY <1>1, <1>2 DEF Enough
<1>6. FileIsWhole'
  BY <1>1, <1>2 DEF FileIsWhole
<1> QED
  BY <1>1, <1>3, <1>4, <1>5, <1>6

\* No stage but "done" of a refresh counts as an end.
LEMMA MissKeeps ==
    ASSUME UniverseInv, NEW j \in Lookups, NEW stage \in Stages, lookup[j].at # "write", stage # "write",
           stage = "done" => LookupKind(j) = "load",
           Miss(j, stage)
    PROVE  UniverseInv'
<1> USE DEF UniverseInv, UniverseTypeOK
<1>1. /\ lookup' = [lookup EXCEPT ![j].at = stage]
      /\ UNCHANGED <<index, file, cache, taken, stops>>
  BY DEF Miss, GoOn
<1>2. (\A i \in Lookups : lookup[i].at = "write" => Enough(lookup[i].found))'
  BY <1>1 DEF Enough
<1>3. FileIsWhole'
  BY <1>1 DEF FileIsWhole
<1> QED
  BY <1>1, <1>2, <1>3

LEMMA UniverseStepInv ==
    ASSUME UniverseInv, UniverseNext
    PROVE  UniverseInv'
<1> USE UniverseAssumption DEF Stages, Origins
<1>t. UniverseTypeOK
  BY DEF UniverseInv
<1>1. ASSUME NEW j \in Lookups, AskOfficial(j) PROVE UniverseInv'
  <2>1. PICK n \in Answers : IF n > 0 THEN Find(j, [from |-> "official", of |-> LookupDay(j), size |-> n], TRUE)
                             ELSE Miss(j, IF LookupKind(j) = "load" THEN "exact" ELSE "snapshot")
    BY <1>1 DEF AskOfficial
  <2>2. lookup[j].at # "write"
    BY <1>1 DEF AskOfficial
  <2>3. CASE n > 0
    <3>1. [from |-> "official", of |-> LookupDay(j), size |-> n] \in Lists
      BY <2>3 DEF Lists
    <3> QED
      BY <2>1, <2>2, <2>3, <3>1, FindKeeps
  <2>4. CASE ~(n > 0)
    BY <2>1, <2>2, <2>4, MissKeeps
  <2> QED
    BY <2>3, <2>4
<1>2. ASSUME NEW j \in Lookups, ReadExactCache(j) PROVE UniverseInv'
  <2>1. lookup[j].at # "write" /\ cache[LookupDay(j)] \in Lists
    BY <1>2, <1>t DEF ReadExactCache, UniverseTypeOK
  <2> QED
    BY <1>2, <2>1, FindKeeps, MissKeeps DEF ReadExactCache
<1>3. ASSUME NEW j \in Lookups, AskSnapshot(j) PROVE UniverseInv'
  <2>1. PICK n \in Answers : IF n > 0 THEN Find(j, [from |-> "snapshot", of |-> Today, size |-> n], TRUE)
                             ELSE Miss(j, IF index = "KOSPI200" THEN "encyclopedia" ELSE "ranking")
    BY <1>3 DEF AskSnapshot
  <2>2. lookup[j].at # "write"
    BY <1>3 DEF AskSnapshot
  <2>3. CASE n > 0
    <3>1. [from |-> "snapshot", of |-> Today, size |-> n] \in Lists
      BY <2>3 DEF Lists, ListDays
    <3> QED
      BY <2>1, <2>2, <2>3, <3>1, FindKeeps
  <2>4. CASE ~(n > 0)
    BY <2>1, <2>2, <2>4, MissKeeps
  <2> QED
    BY <2>3, <2>4
<1>4. ASSUME NEW j \in Lookups, AskEncyclopedia(j) PROVE UniverseInv'
  <2>1. PICK n \in Answers :
          IF n >= MinListed THEN Find(j, [from |-> "encyclopedia", of |-> Today, size |-> n], TRUE)
                            ELSE Miss(j, "ranking")
    BY <1>4 DEF AskEncyclopedia
  <2>2. lookup[j].at # "write"
    BY <1>4 DEF AskEncyclopedia
  <2>3. CASE n >= MinListed
    <3>1. [from |-> "encyclopedia", of |-> Today, size |-> n] \in Lists
      BY <2>3 DEF Lists, ListDays, MinListed
    <3> QED
      BY <2>1, <2>2, <2>3, <3>1, FindKeeps
  <2>4. CASE ~(n >= MinListed)
    BY <2>1, <2>2, <2>4, MissKeeps
  <2> QED
    BY <2>3, <2>4
<1>5. ASSUME NEW j \in Lookups, AskRanking(j) PROVE UniverseInv'
  <2>1. PICK n \in Answers, day \in {LookupDay(j), Today} :
          IF n > 0 THEN Find(j, [from |-> "ranking", of |-> day, size |-> Min({n, Limit[index]})], TRUE)
                   ELSE Miss(j, "latest")
    BY <1>5 DEF AskRanking
  <2>2. lookup[j].at # "write"
    BY <1>5 DEF AskRanking
  <2>3. CASE n > 0
    <3>1. Limit[index] \in Nat \ {0}
      BY <1>t, MinRefreshIs DEF UniverseTypeOK
    <3>2. Min({n, Limit[index]}) \in Nat \ {0}
      BY <2>3, <3>1, LesserOf
    <3>3. day \in ListDays
      BY DEF ListDays
    <3>4. [from |-> "ranking", of |-> day, size |-> Min({n, Limit[index]})] \in Lists
      BY <3>2, <3>3 DEF Lists
    <3> QED
      BY <2>1, <2>2, <2>3, <3>4, FindKeeps
  <2>4. CASE ~(n > 0)
    BY <2>1, <2>2, <2>4, MissKeeps
  <2> QED
    BY <2>3, <2>4
<1>6. ASSUME NEW j \in Lookups, ReadLatestCache(j) PROVE UniverseInv'
  <2> DEFINE stored == {d \in ListDays : cache[d] # NoCodes}
  <2>1. lookup[j].at # "write"
    BY <1>6 DEF ReadLatestCache
  <2>2. CASE stored # {}
    <3>1. Max(stored) \in stored
      BY <2>2, GreatestIsMax DEF ListDays
    <3>2. cache[Max(stored)] \in Lists
      BY <1>t, <3>1 DEF UniverseTypeOK
    <3>3. Find(j, cache[Max(stored)], FALSE)
      BY <1>6, <2>2 DEF ReadLatestCache
    <3> QED
      BY <2>1, <3>2, <3>3, FindKeeps
  <2>3. CASE stored = {}
    BY <1>6, <2>1, <2>3, MissKeeps DEF ReadLatestCache
  <2> QED
    BY <2>2, <2>3
<1>7. ASSUME NEW j \in Lookups, ReadCodesFile(j) PROVE UniverseInv'
  <2>1. lookup[j].at # "write" /\ file \in Lists
    BY <1>7, <1>t DEF ReadCodesFile, UniverseTypeOK
  <2> QED
    BY <1>7, <2>1, FindKeeps, MissKeeps DEF ReadCodesFile
<1>8. ASSUME NEW j \in Lookups, ReadDatabase(j) PROVE UniverseInv'
  <2>1. PICK n \in Stocks :
          IF n >= MinListed THEN Find(j, [from |-> "database", of |-> LookupDay(j), size |-> n], FALSE)
                            ELSE Miss(j, IF LookupKind(j) = "load" THEN "done" ELSE "failed")
    BY <1>8 DEF ReadDatabase
  <2>2. lookup[j].at # "write"
    BY <1>8 DEF ReadDatabase
  <2>3. CASE n >= MinListed
    <3>1. [from |-> "database", of |-> LookupDay(j), size |-> n] \in Lists
      BY <2>3 DEF Lists, MinListed
    <3> QED
      BY <2>1, <2>2, <2>3, <3>1, FindKeeps
  <2>4. CASE ~(n >= MinListed)
    BY <2>1, <2>2, <2>4, MissKeeps
  <2> QED
    BY <2>3, <2>4
<1>9. ASSUME NEW j \in Lookups, CompareFile(j) PROVE UniverseInv'
  <2>1. lookup[j].at = "compare" /\ UNCHANGED <<index, cache, taken, stops>>
    BY <1>9 DEF CompareFile
  <2>2. lookup[j].found.size >= MinRefresh[index] <=> Enough(lookup[j].found)
    BY DEF Enough
  <2>3. MinRefresh[index] \in Nat \ {0}
    BY <1>t, MinRefreshIs DEF UniverseTypeOK
  <2>4. CASE ~Enough(lookup[j].found)
    <3>1. lookup' = [lookup EXCEPT ![j].at = "failed"] /\ file' = file
      BY <1>9, <2>4 DEF CompareFile, GoOn
    <3> QED
      BY <2>1, <3>1 DEF UniverseInv, UniverseTypeOK, FileIsWhole, Enough
  <2>5. CASE Enough(lookup[j].found) /\ lookup[j].found = file
    <3>1. lookup' = [lookup EXCEPT ![j].at = "done"] /\ file' = file
      BY <1>9, <2>5 DEF CompareFile, GoOn
    <3>2. file # NoCodes
      BY <2>2, <2>3, <2>5 DEF NoCodes
    <3> QED
      BY <2>1, <3>1, <3>2 DEF UniverseInv, UniverseTypeOK, FileIsWhole, Enough
  <2>6. CASE Enough(lookup[j].found) /\ lookup[j].found # file
    <3>1. lookup' = [lookup EXCEPT ![j].at = "write"] /\ file' = NoCodes
      BY <1>9, <2>6 DEF CompareFile, GoOn
    <3> QED
      BY <2>1, <2>6, <3>1 DEF UniverseInv, UniverseTypeOK, FileIsWhole, Enough, Lists
  <2> QED
    BY <2>4, <2>5, <2>6
<1>10. ASSUME NEW j \in Lookups, WriteCodes(j) PROVE UniverseInv'
  <2>1. /\ lookup[j].at = "write" /\ file' = lookup[j].found
        /\ lookup' = [lookup EXCEPT ![j].at = "done"]
        /\ UNCHANGED <<index, cache, taken, stops>>
    BY <1>10 DEF WriteCodes, GoOn
  <2>2. MinRefresh[index] \in Nat \ {0} /\ Enough(lookup[j].found)
    BY <1>t, <2>1, MinRefreshIs DEF UniverseTypeOK, UniverseInv
  <2>3. file'.size >= MinRefresh[index] /\ file' # NoCodes
    BY <2>1, <2>2 DEF Enough, NoCodes
  <2> QED
    BY <2>1, <2>3 DEF UniverseInv, UniverseTypeOK, FileIsWhole, Enough
<1>11. ASSUME NEW j \in Lookups, StopLookup(j) PROVE UniverseInv'
  <2>1. /\ lookup' = [lookup EXCEPT ![j].at = "failed"] /\ stops' = stops + 1 /\ stops < MaxStops
        /\ UNCHANGED <<index, file, cache, taken>>
    BY <1>11 DEF StopLookup, GoOn
  <2> QED
    BY <2>1 DEF UniverseInv, UniverseTypeOK, FileIsWhole, Enough
<1>12. CASE TakeUniverse
  <2>1. taken' \in Lists
    BY <1>t, <1>12 DEF TakeUniverse, UniverseTypeOK, Lists, ListDays
  <2> QED
    BY <1>12, <2>1 DEF TakeUniverse, UniverseInv, UniverseTypeOK, FileIsWhole, Enough
<1> QED
  BY <1>1, <1>2, <1>3, <1>4, <1>5, <1>6, <1>7, <1>8, <1>9, <1>10, <1>11, <1>12 DEF UniverseNext

LEMMA UniverseInitInv == UniverseInit => UniverseInv
<1> SUFFICES ASSUME UniverseInit PROVE UniverseInv
  OBVIOUS
<1>1. file = NoCodes \/ file.size >= MinRefresh[index]
  BY MinRefreshIs DEF UniverseInit
<1>2. NoCodes \in Lists /\ Limit[index] \in Nat \ {0}
  BY MinRefreshIs DEF UniverseInit, Lists
<1>3. file \in Lists
  BY <1>2, UniverseAssumption DEF UniverseInit, Lists, Origins, ListDays
<1> QED
  BY <1>1, <1>2, <1>3, UniverseAssumption DEF UniverseInit, UniverseInv, UniverseTypeOK, FileIsWhole, Stages

LEMMA UniverseQuietInv == UniverseInv /\ UNCHANGED universeVars => UniverseInv'
  BY DEF UniverseInv, universeVars, UniverseTypeOK, FileIsWhole, Enough

\* However refreshes and lookups interleave, fail or are stopped, the file of codes is
\* that of an index or empty, and empty only while it is written, before any refresh was
\* done, or after a stop (kospi200.py, kosdaq150.py).
THEOREM CodesFileIsWhole == UniverseInit /\ [][UniverseNext]_universeVars => []FileIsWhole
<1>1. UniverseInv /\ [UniverseNext]_universeVars => UniverseInv'
  BY UniverseStepInv, UniverseQuietInv
<1>2. UniverseInv => FileIsWhole
  BY DEF UniverseInv
<1> QED
  BY <1>1, <1>2, UniverseInitInv, PTL

-----------------------------------------------------------------------------
(* The accounts' profiles.                                                     *)

\* A row that is switched on, of a live account, came after the lock was opened.
Safe(a, row) == row \in Profiles /\ row.on /\ a # PaperAccount => opened

\* What a request has read: rows that were there stay, a lock that was seen open has
\* been open, and the row read is as safe as the stored one.
CallerInv(c) ==
    /\ open[c].account \in Accounts /\ open[c].patch \in Patches \cup {None}
    /\ open[c].at # "idle" => open[c].patch \in Patches
    /\ open[c].at = "seed" => \A a \in Accounts \ open[c].missing : profile[a] \in Profiles
    /\ open[c].at \in {"load", "lock", "write"} => \A a \in Accounts : profile[a] \in Profiles
    /\ open[c].at \in {"lock", "write"} => /\ open[c].row \in Profiles
                                          /\ Safe(open[c].account, open[c].row)
    /\ open[c].lock => opened

CallerRecord == [at : {"idle", "seed", "load", "lock", "write"}, account : Accounts,
                 patch : Patches \cup {None}, missing : SUBSET Accounts,
                 row : Profiles \cup {None}, lock : BOOLEAN]

\* No close is of a day to come.
ClosesInv ==
    /\ storedClose = [m \in Markets |-> storedClose[m]]
    /\ \A m \in Markets : DOMAIN storedClose[m] \subseteq 0..thisDay

ProfilesInv ==
    /\ profile \in [Accounts -> Profiles \cup {None}]
    /\ unlocked \in BOOLEAN /\ opened \in BOOLEAN /\ (unlocked => opened)
    /\ thisDay \in ProfileDays /\ patches \in 0..MaxPatches
    /\ ClosesInv /\ evenings \in 0..MaxEvenings /\ nightly \in [Accounts -> Profiles \cup {None}]
    /\ open \in [Callers -> CallerRecord]
    /\ \A a \in Accounts : Safe(a, profile[a])
    /\ \A c \in Callers : CallerInv(c)

\* The row a patch leaves behind is one, and no less safe.
LEMMA PatchedRow ==
    ASSUME ProfilesInv, NEW a \in Accounts, NEW row \in Profiles, NEW p \in Patches,
           NEW lock \in BOOLEAN, ~Refused(a, row, p, lock), NEW stored \in Profiles,
           Safe(a, row), Safe(a, stored), lock => opened,
           NEW new, new = Patched(row, p)
    PROVE  LET written == [col \in DOMAIN new |-> IF new[col] = row[col] THEN stored[col] ELSE new[col]]
           IN  written \in Profiles /\ Safe(a, written)
<1> DEFINE Lengths == AutoRamp..24
<1>0. Profiles = [type : Types, sleeves : Menus, on : BOOLEAN, since : ProfileDays \cup {None}, ramp : Lengths]
  BY DEF Profiles
<1>13. p.ramp = None \/ p.ramp \in Lengths
  BY DEF Refused
<1> HIDE DEF Lengths
<1> DEFINE written == [col \in DOMAIN new |-> IF new[col] = row[col] THEN stored[col] ELSE new[col]]
<1>1. new.type \in Types /\ DOMAIN new = {"type", "sleeves", "on", "since", "ramp"}
  <2>1. DOMAIN new = {"type", "sleeves", "on", "since", "ramp"}
    BY DEF Patched
  <2>2. new.type = IF p.type = None THEN row.type ELSE p.type
    BY DEF Patched, Or
  <2> QED
    BY <2>1, <2>2 DEF Refused
<1>2. new.sleeves \in Menus
  <2>1. row.sleeves \in Menus
    BY DEF Profiles
  <2>2. p.sleeves # None => p.sleeves \in Menus
    BY DEF Menus
  <2> QED
    BY <2>1, <2>2 DEF Patched, Or
<1>3. new.ramp \in Lengths
  <2>1. row.ramp \in Lengths
    BY <1>0
  <2> QED
    BY <1>13, <2>1 DEF Patched, Or
<1>4. new.since \in ProfileDays \cup {None}
  <2>1. row.since \in ProfileDays \cup {None} /\ thisDay \in ProfileDays
    BY DEF Profiles, ProfilesInv
  <2> QED
    BY <2>1 DEF Patched
<1>5. new.on \in BOOLEAN /\ (new.on /\ ~row.on /\ a # PaperAccount => opened)
  <2>1. row.on \in BOOLEAN /\ p.on \in BOOLEAN \cup {None} /\ new.on = IF p.on = None THEN row.on ELSE p.on
    BY ProfilesAssumption DEF Profiles, Patched, Or
  <2>2. p.on = TRUE /\ a # PaperAccount => lock
    BY DEF Refused
  <2> QED
    BY <2>1, <2>2
<1>6. stored.type \in Types /\ stored.sleeves \in Menus /\ stored.on \in BOOLEAN
      /\ stored.since \in ProfileDays \cup {None} /\ stored.ramp \in Lengths
  BY <1>0
<1>7. /\ DOMAIN written = {"type", "sleeves", "on", "since", "ramp"}
      /\ written.type \in Types /\ written.sleeves \in Menus /\ written.on \in BOOLEAN
      /\ written.since \in ProfileDays \cup {None} /\ written.ramp \in Lengths
  BY <1>1, <1>2, <1>3, <1>4, <1>5, <1>6
<1>8. written.on = IF new.on = row.on THEN stored.on ELSE new.on
  BY <1>1
<1>9. written = [type |-> written.type, sleeves |-> written.sleeves, on |-> written.on,
                 since |-> written.since, ramp |-> written.ramp]
  BY <1>1
<1>10. row.on \in BOOLEAN
  BY DEF Profiles
<1> HIDE DEF written
<1>11. written \in Profiles
  BY <1>0, <1>7, <1>9
<1>12. Safe(a, written)
  BY <1>5, <1>6, <1>8, <1>10 DEF Safe
<1> QED
  BY <1>11, <1>12 DEF written

\* A step of one request that leaves the rows alone.
LEMMA RequestMoves ==
    ASSUME ProfilesInv, UNCHANGED <<profile, unlocked, opened, thisDay, storedClose, rampVars>>,
           patches' \in 0..MaxPatches, NEW c \in Callers, NEW moved \in CallerRecord,
           open' = [open EXCEPT ![c] = moved], CallerInv(c)'
    PROVE  ProfilesInv'
<1>1. open' \in [Callers -> CallerRecord] /\ \A d \in Callers \ {c} : open'[d] = open[d]
  BY DEF ProfilesInv
<1>2. \A d \in Callers \ {c} : CallerInv(d)'
  BY <1>1 DEF ProfilesInv, CallerInv, Safe
<1>3. ClosesInv'
  BY <1>1 DEF ProfilesInv, ClosesInv
<1> QED
  BY <1>1, <1>2, <1>3 DEF ProfilesInv, Safe, rampVars

LEMMA IdleIsOne == Idle \in CallerRecord /\ Idle.at = "idle" /\ Idle.row = None /\ ~Idle.lock
                   /\ Idle.account = PaperAccount /\ Idle.patch = None
  BY ProfilesAssumption DEF Idle, CallerRecord

LEMMA IdleInv == \A c \in Callers : open[c] = Idle => CallerInv(c)
  BY IdleIsOne DEF CallerInv, Safe, CallerRecord

LEMMA StorableDays ==
    ASSUME thisDay \in ProfileDays, NEW m \in Markets
    PROVE  \A f \in Storable(m) : DOMAIN f \subseteq 0..thisDay
<1>1. ProfileDays \subseteq Nat
  BY ProfilesAssumption
<1>2. thisDay \in Nat
  BY <1>1
<1>3. ASSUME NEW f \in Storable(m), NEW d \in DOMAIN f PROVE d \in 0..thisDay
  <2>1. f \in [{e \in ProfileDays : e <= thisDay} -> UNION Range(RefClose[m])]
    BY DEF Storable
  <2>2. DOMAIN f = {e \in ProfileDays : e <= thisDay}
    BY ONLY <2>1
  <2>3. d \in ProfileDays /\ d <= thisDay
    BY <2>2
  <2>4. d \in Nat
    BY ONLY <2>3, <1>1
  <2> QED
    BY ONLY <2>3, <2>4, <1>2
<1> QED
  BY ONLY <1>3

LEMMA ProfilesStepInv ==
    ASSUME ProfilesInv, ProfilesNext
    PROVE  ProfilesInv'
<1> USE ProfilesAssumption DEF rampVars
<1>1. ASSUME NEW c \in Callers, NEW a \in Accounts, NEW p \in Patches, AskPatch(c, a, p)
      PROVE  ProfilesInv'
  <2> DEFINE missing == {b \in Accounts : profile[b] = None}
             step == IF missing = {} THEN "load" ELSE "seed"
             asked == [Idle EXCEPT !.at = step, !.account = a, !.patch = p, !.missing = missing]
  <2>2. /\ open' = [open EXCEPT ![c] = asked] /\ patches' = patches + 1 /\ patches < MaxPatches
        /\ UNCHANGED <<profile, unlocked, opened, thisDay, storedClose, rampVars>>
    BY <1>1 DEF AskPatch
  <2>3. \A b \in Accounts \ missing : profile[b] \in Profiles
    BY DEF ProfilesInv
  <2>4. step \in {"load", "seed"} /\ (step = "load" => missing = {}) /\ missing \in SUBSET Accounts
    OBVIOUS
  <2> HIDE DEF step, missing
  <2>5. /\ asked \in CallerRecord /\ asked.at = step /\ asked.account = a /\ asked.patch = p
        /\ asked.missing = missing /\ asked.row = None /\ asked.lock = FALSE
    BY <2>4, IdleIsOne DEF CallerRecord
  <2> HIDE DEF asked
  <2>6. open'[c] = asked
    BY <2>2 DEF ProfilesInv
  <2>7. open'[c].at = step /\ open'[c].account = a /\ open'[c].patch = p
        /\ open'[c].missing = missing /\ open'[c].row = None /\ open'[c].lock = FALSE
    BY <2>5, <2>6
  <2>9. \A b \in Accounts \ missing : profile'[b] \in Profiles
    BY <2>2, <2>3
  <2>8. CallerInv(c)'
    <3>1. Safe(a, open[c].row)'
      <4> SUFFICES ASSUME open'[c].row \in Profiles, open'[c].row.on, a # PaperAccount PROVE opened'
        BY DEF Safe
      <4> QED
        BY <2>2, <2>7, NoneAssumption
    <3> QED
      BY <2>4, <2>7, <2>9, <3>1 DEF CallerInv
  <2>10. patches' \in 0..MaxPatches
    BY <2>2 DEF ProfilesInv
  <2> QED
    BY <2>2, <2>5, <2>8, <2>10, RequestMoves
<1>2. ASSUME NEW c \in Callers, SeedRows(c) PROVE ProfilesInv'
  <2> DEFINE missing == open[c].missing
  <2>1. CASE \A a \in missing : profile[a] = None
    <3> DEFINE moved == [open[c] EXCEPT !.at = "load", !.missing = {}]
    <3>1. /\ profile' = [a \in Accounts |-> IF a \in missing THEN Seeded(a) ELSE profile[a]]
          /\ open' = [open EXCEPT ![c] = moved]
          /\ UNCHANGED <<unlocked, opened, thisDay, storedClose, patches, rampVars>> /\ open[c].at = "seed"
      BY <1>2, <2>1 DEF SeedRows
    <3>2. \A a \in Accounts : Seeded(a) \in Profiles /\ Seeded(a).on = FALSE
      BY DEF Seeded, Profiles, Menus, AutoRamp
    <3>3. open[c] \in CallerRecord
      BY DEF ProfilesInv
    <3>4. /\ moved \in CallerRecord /\ moved.at = "load" /\ moved.patch = open[c].patch
          /\ moved.account = open[c].account /\ moved.lock = open[c].lock
      BY <3>3 DEF CallerRecord
    <3> HIDE DEF moved
    <3>5. /\ open' \in [Callers -> CallerRecord] /\ open'[c] = moved
          /\ \A d \in Callers \ {c} : open'[d] = open[d]
      BY <3>1, <3>4 DEF ProfilesInv
    <3>6. \A a \in Accounts \ missing : profile[a] \in Profiles
      BY <3>1 DEF ProfilesInv, CallerInv
    <3>7. \A a \in Accounts : profile'[a] \in Profiles
      BY <3>1, <3>2, <3>6
    <3>8. \A a \in Accounts : Safe(a, profile[a])'
      BY <3>1, <3>2 DEF ProfilesInv, Safe
    <3>9. CallerInv(c)'
      <4>1. open[c].patch \in Patches /\ open[c].account \in Accounts /\ (open[c].lock => opened)
            /\ open[c].patch \in Patches \cup {None}
        BY <3>1 DEF ProfilesInv, CallerInv
      <4>2. open'[c].at = "load" /\ open'[c].patch = open[c].patch
            /\ open'[c].account = open[c].account /\ open'[c].lock = open[c].lock
        BY <3>4, <3>5
      <4> QED
        BY <3>1, <3>7, <4>1, <4>2 DEF CallerInv
    <3>10. \A d \in Callers \ {c} : CallerInv(d)'
      BY <3>1, <3>5, <3>7 DEF ProfilesInv, CallerInv, Safe
    <3>11. profile' \in [Accounts -> Profiles \cup {None}]
      BY <3>1, <3>7
    <3> QED
      BY <3>1, <3>5, <3>8, <3>9, <3>10, <3>11 DEF ProfilesInv, ClosesInv
  <2>2. CASE ~\A a \in missing : profile[a] = None
    <3>1. open' = [open EXCEPT ![c] = Idle] /\ UNCHANGED <<profile, unlocked, opened, thisDay, storedClose, patches, rampVars>>
      BY <1>2, <2>2 DEF SeedRows
    <3>2. open'[c] = Idle
      BY <3>1 DEF ProfilesInv
    <3>3. CallerInv(c)'
      BY <3>2, IdleIsOne DEF CallerInv, Safe
    <3> QED
      BY <3>1, <3>3, IdleIsOne, RequestMoves DEF ProfilesInv
  <2> QED
    BY <2>1, <2>2
<1>3. ASSUME NEW c \in Callers, LoadRow(c) PROVE ProfilesInv'
  <2> DEFINE row == profile[open[c].account]
             moved == [open[c] EXCEPT !.at = "lock", !.row = row]
  <2>1. /\ open' = [open EXCEPT ![c] = moved] /\ open[c].at = "load"
        /\ UNCHANGED <<profile, unlocked, opened, thisDay, storedClose, patches, rampVars>>
    BY <1>3 DEF LoadRow
  <2>2. open[c] \in CallerRecord /\ CallerInv(c)
    BY DEF ProfilesInv
  <2>3. row \in Profiles /\ Safe(open[c].account, row) /\ open[c].account \in Accounts
    BY <2>1, <2>2 DEF CallerInv, ProfilesInv
  <2> HIDE DEF row
  <2>4. /\ moved \in CallerRecord /\ moved.at = "lock" /\ moved.patch = open[c].patch
        /\ moved.account = open[c].account /\ moved.lock = open[c].lock /\ moved.row = row
    BY <2>2, <2>3 DEF CallerRecord
  <2> HIDE DEF moved
  <2>5. open'[c] = moved
    BY <2>1 DEF ProfilesInv
  <2>6. CallerInv(c)'
    BY <2>1, <2>2, <2>3, <2>4, <2>5 DEF CallerInv, Safe
  <2> QED
    BY <2>1, <2>4, <2>6, RequestMoves DEF ProfilesInv
<1>4. ASSUME NEW c \in Callers, ReadLock(c) PROVE ProfilesInv'
  <2> DEFINE moved == [open[c] EXCEPT !.at = "write", !.lock = unlocked]
  <2>1. /\ open' = [open EXCEPT ![c] = moved] /\ open[c].at = "lock"
        /\ UNCHANGED <<profile, unlocked, opened, thisDay, storedClose, patches, rampVars>>
    BY <1>4 DEF ReadLock
  <2>2. /\ open[c] \in CallerRecord /\ CallerInv(c)
        /\ unlocked \in BOOLEAN /\ (unlocked => opened)
    BY DEF ProfilesInv
  <2>4. /\ moved \in CallerRecord /\ moved.at = "write" /\ moved.patch = open[c].patch
        /\ moved.account = open[c].account /\ moved.lock = unlocked /\ moved.row = open[c].row
    BY <2>2 DEF CallerRecord
  <2> HIDE DEF moved
  <2>5. open'[c] = moved
    BY <2>1 DEF ProfilesInv
  <2>6. CallerInv(c)'
    BY <2>1, <2>2, <2>4, <2>5 DEF CallerInv, Safe
  <2> QED
    BY <2>1, <2>4, <2>6, RequestMoves DEF ProfilesInv
<1>5. ASSUME NEW c \in Callers, WriteRow(c) PROVE ProfilesInv'
  <2> DEFINE a == open[c].account
             row == open[c].row
             p == open[c].patch
             lock == open[c].lock
             stored == profile[a]
             written == [col \in DOMAIN Patched(row, p) |->
                            IF Patched(row, p)[col] = row[col] THEN stored[col] ELSE Patched(row, p)[col]]
  <2>1. /\ open' = [open EXCEPT ![c] = Idle] /\ open[c].at = "write"
        /\ UNCHANGED <<unlocked, opened, thisDay, storedClose, patches, rampVars>>
    BY <1>5 DEF WriteRow
  <2>2. open[c] \in CallerRecord /\ CallerInv(c)
    BY DEF ProfilesInv
  <2>3. open'[c] = Idle /\ \A d \in Callers \ {c} : open'[d] = open[d]
    BY <2>1 DEF ProfilesInv
  <2>4. CallerInv(c)'
    BY <2>3, IdleIsOne DEF CallerInv, Safe
  <2>5. CASE Refused(a, row, p, lock)
    <3>1. UNCHANGED profile
      BY <1>5, <2>5 DEF WriteRow
    <3> QED
      BY <2>1, <2>4, <3>1, IdleIsOne, RequestMoves DEF ProfilesInv
  <2>6. CASE ~Refused(a, row, p, lock)
    <3>1. profile' = [profile EXCEPT ![a] = written]
      BY <1>5, <2>6 DEF WriteRow
    <3>2. /\ a \in Accounts /\ row \in Profiles /\ p \in Patches /\ lock \in BOOLEAN
          /\ Safe(a, row) /\ (lock => opened)
      BY <2>1, <2>2 DEF CallerInv, CallerRecord
    <3>3. stored \in Profiles /\ Safe(a, stored)
      BY <2>1, <2>2, <3>2 DEF CallerInv, ProfilesInv
    <3>4. written \in Profiles /\ Safe(a, written)
      <4> HIDE DEF a, row, p, lock, stored
      <4> DEFINE new == Patched(row, p)
      <4>1. new = Patched(row, p)
        OBVIOUS
      <4> HIDE DEF new
      <4>2. LET kept == [col \in DOMAIN new |-> IF new[col] = row[col] THEN stored[col] ELSE new[col]]
            IN  kept \in Profiles /\ Safe(a, kept)
        BY <2>6, <3>2, <3>3, <4>1, PatchedRow
      <4> QED
        BY <4>1, <4>2
    <3> HIDE DEF written
    <3>5. /\ profile' \in [Accounts -> Profiles \cup {None}] /\ profile'[a] = written
          /\ \A b \in Accounts \ {a} : profile'[b] = profile[b]
      BY <3>1, <3>2, <3>4 DEF ProfilesInv
    <3>6. \A b \in Accounts : Safe(b, profile[b])'
      <4>1. \A b \in Accounts : Safe(b, profile'[b])
        BY <3>4, <3>5 DEF ProfilesInv
      <4> QED
        BY <2>1, <4>1 DEF Safe
    <3>7. \A d \in Callers \ {c} : CallerInv(d)'
      BY <2>1, <2>3, <3>2, <3>4, <3>5 DEF ProfilesInv, CallerInv, Safe
    <3> QED
      BY <2>1, <2>4, <3>5, <3>6, <3>7, IdleIsOne DEF ProfilesInv, ClosesInv
  <2> QED
    BY <2>5, <2>6
<1>6. ASSUME TurnLock PROVE ProfilesInv'
  <2>1. opened' = TRUE /\ unlocked' = ~unlocked /\ UNCHANGED <<profile, thisDay, storedClose, open, patches, rampVars>>
    BY <1>6 DEF TurnLock
  <2>2. \A c \in Callers : CallerInv(c)'
    BY <2>1 DEF ProfilesInv, CallerInv, Safe
  <2> QED
    BY <2>1, <2>2 DEF ProfilesInv, ClosesInv, Safe
<1>7. ASSUME NextDay PROVE ProfilesInv'
  <2>1. thisDay' = thisDay + 1 /\ thisDay' \in ProfileDays /\ 0..thisDay \subseteq 0..thisDay'
        /\ UNCHANGED <<profile, unlocked, opened, storedClose, open, patches, rampVars>>
    BY <1>7 DEF NextDay, ProfilesInv
  <2>2. ClosesInv'
    BY <2>1 DEF ProfilesInv, ClosesInv
  <2> QED
    BY <2>1, <2>2 DEF ProfilesInv, CallerInv, Safe
<1>8. ASSUME NEW m \in Markets, LoadCloses(m) PROVE ProfilesInv'
  <2>1. PICK new \in Storable(m) : storedClose' = [storedClose EXCEPT ![m] = new]
    BY <1>8 DEF LoadCloses
  <2>2. UNCHANGED <<profile, unlocked, opened, thisDay, open, patches, nightly, evenings>>
    BY <1>8 DEF LoadCloses
  <2>3. DOMAIN new \subseteq 0..thisDay
    BY StorableDays DEF ProfilesInv
  <2>4. ClosesInv'
    BY <2>1, <2>2, <2>3 DEF ProfilesInv, ClosesInv
  <2> QED
    BY <2>2, <2>4 DEF ProfilesInv, CallerInv, Safe
<1>9. ASSUME StartEvening PROVE ProfilesInv'
  <2>1. /\ evenings < MaxEvenings /\ evenings' = evenings + 1
        /\ nightly' = [a \in Accounts |->
                        IF profile[a] # None /\ profile[a].on THEN profile[a] ELSE None]
        /\ UNCHANGED <<profile, unlocked, opened, thisDay, storedClose, open, patches>>
    BY <1>9 DEF StartEvening
  <2>2. evenings' \in 0..MaxEvenings /\ nightly' \in [Accounts -> Profiles \cup {None}]
    BY <2>1 DEF ProfilesInv
  <2> QED
    BY <2>1, <2>2 DEF ProfilesInv, ClosesInv, CallerInv, Safe
<1>10. ASSUME NEW a \in Accounts, ApplyRamp(a) PROVE ProfilesInv'
  <2>1. /\ nightly' = [nightly EXCEPT ![a] = None]
        /\ UNCHANGED <<profile, unlocked, opened, thisDay, storedClose, open, patches, evenings>>
    BY <1>10 DEF ApplyRamp
  <2>2. nightly' \in [Accounts -> Profiles \cup {None}]
    BY <2>1 DEF ProfilesInv
  <2> QED
    BY <2>1, <2>2 DEF ProfilesInv, ClosesInv, CallerInv, Safe
<1> QED
  BY <1>1, <1>2, <1>3, <1>4, <1>5, <1>6, <1>7, <1>8, <1>9, <1>10 DEF ProfilesNext

LEMMA ProfilesInitInv ==
    ASSUME ProfilesInit
    PROVE  ProfilesInv
<1> USE ProfilesAssumption DEF ProfilesInit
<1>1. \A c \in Callers : CallerInv(c)
  BY IdleIsOne DEF CallerInv
<1>2. \A a \in Accounts : Safe(a, profile[a])
  BY NoneAssumption DEF Safe
<1>3. open \in [Callers -> CallerRecord]
  <2>1. 0 \in ProfileDays
    OBVIOUS
  <2>2. open = [c \in Callers |-> Idle]
    OBVIOUS
  <2> QED
    BY <2>1, <2>2, IdleIsOne
<1>4. profile \in [Accounts -> Profiles \cup {None}] /\ thisDay \in ProfileDays
  OBVIOUS
<1>5. unlocked \in BOOLEAN /\ opened \in BOOLEAN /\ ~unlocked
  OBVIOUS
<1>6. patches = 0 /\ MaxPatches \in Nat
  OBVIOUS
<1>7. patches \in 0..MaxPatches
  BY ONLY <1>6
<1>8. evenings = 0 /\ MaxEvenings \in Nat
  OBVIOUS
<1>9. evenings \in 0..MaxEvenings
  BY ONLY <1>8
<1>10. nightly \in [Accounts -> Profiles \cup {None}]
  OBVIOUS
<1>11. ClosesInv
  <2>1. /\ storedClose \in [Markets -> UNION {Storable(m) : m \in Markets}]
        /\ \A m \in Markets : storedClose[m] \in Storable(m)
    OBVIOUS
  <2> QED
    BY <1>4, <2>1, StorableDays DEF ClosesInv
<1> QED
  BY <1>1, <1>2, <1>3, <1>4, <1>5, <1>7, <1>9, <1>10, <1>11 DEF ProfilesInv

LEMMA ProfilesQuietInv ==
    ASSUME ProfilesInv, UNCHANGED profileVars
    PROVE  ProfilesInv'
  BY DEF profileVars, rampVars, ProfilesInv, ClosesInv, CallerInv, Safe

LEMMA ProfilesInvHolds ==
    ASSUME ProfilesInv
    PROVE  ProfilesTypeOK /\ LiveNeedsUnlock
<1>1. \A c \in Callers :
          /\ open[c].at \in {"idle", "seed", "load", "lock", "write"}
          /\ open[c].account \in Accounts /\ open[c].patch \in Patches \cup {None}
          /\ open[c].missing \subseteq Accounts /\ open[c].lock \in BOOLEAN
          /\ open[c].row \in Profiles \cup {None}
  BY DEF ProfilesInv, CallerRecord
<1>2. ProfilesTypeOK
  BY <1>1 DEF ProfilesTypeOK, ProfilesInv, ClosesInv
<1>3. LiveNeedsUnlock
  BY DEF LiveNeedsUnlock, On, ProfilesInv, Safe
<1> QED
  BY <1>2, <1>3

\* The months of an entry, as a function of the closes that are stored of each market.
DrawdownIn(close, day) ==
    LET stored == {d \in DOMAIN close : d <= day}
        peak == Max({close[d] : d \in stored})
        last == 100 * close[Max(stored)]
    IN IF Cardinality(stored) < 2 \/ 95 * peak < last THEN "none"
       ELSE IF last <= 85 * peak THEN "crash" ELSE "correction"
MonthsIn(closes, row) ==
    [s \in Strategies(row) |->
        IF row.ramp # AutoRamp THEN row.ramp ELSE IF row.since = None THEN 1
        ELSE AutoRampMonths(s.what, DrawdownIn(closes[MarketOf(s.what)], row.since))]

\* What is settled is what the stored closes say now, and what was applied last to the same
\* row is that, or what a failed read gives.
Either(row, of, whole) ==
    \A s \in Strategies(row) : of[s] \in {whole[s], AutoRampMonths(s.what, "none")}
SettledOf(a) ==
    settled[a] # None =>
       /\ settled[a].row \in Profiles
       /\ settled[a] = [row |-> settled[a].row, of |-> MonthsIn(storedClose, settled[a].row)]
       /\ lastMonths[a].row = settled[a].row =>
             Either(settled[a].row, lastMonths[a].of, settled[a].of)
SettledInv ==
    /\ settled = [a \in Accounts |-> settled[a]] /\ lastMonths = [a \in Accounts |-> lastMonths[a]]
    /\ \A a \in Accounts : SettledOf(a)

LEMMA MonthsAreIn ==
    ASSUME NEW row \in Profiles, NEW read \in SUBSET Strategies(row)
    PROVE  /\ read = Strategies(row) => MonthsOf(row, read) = MonthsIn(storedClose, row)
           /\ Either(row, MonthsOf(row, read), MonthsIn(storedClose, row))
<1>1. \A s \in Strategies(row) :
         EntryDrawdown(s.what, row.since) = DrawdownIn(storedClose[MarketOf(s.what)], row.since)
  BY DEF EntryDrawdown, StoredCloses, DrawdownIn
<1>2. ASSUME NEW s \in Strategies(row)
      PROVE  /\ s \in read => MonthsOf(row, read)[s] = MonthsIn(storedClose, row)[s]
             /\ s \notin read => MonthsOf(row, read)[s] \in
                                   {MonthsIn(storedClose, row)[s], AutoRampMonths(s.what, "none")}
  <2>1. MonthsOf(row, read)[s] = ResolveRampMonths(row.ramp, s.what, row.since, s \in read)
    BY DEF MonthsOf
  <2>2. CASE row.ramp # AutoRamp \/ row.since = None
    BY <2>1, <2>2 DEF ResolveRampMonths, MonthsIn
  <2>3. CASE ~(row.ramp # AutoRamp \/ row.since = None)
    <3>1. MonthsIn(storedClose, row)[s] = AutoRampMonths(s.what, EntryDrawdown(s.what, row.since))
      BY <1>1, <2>3 DEF MonthsIn
    <3>2. CASE s \in read
      BY <2>1, <2>3, <3>1, <3>2 DEF ResolveRampMonths
    <3>3. CASE s \notin read
      BY <2>1, <2>3, <3>1, <3>3 DEF ResolveRampMonths
    <3> QED
      BY <3>2, <3>3
  <2> QED
    BY <2>2, <2>3
<1>3. read = Strategies(row) => MonthsOf(row, read) = MonthsIn(storedClose, row)
  BY <1>2 DEF MonthsOf, MonthsIn
<1>4. Either(row, MonthsOf(row, read), MonthsIn(storedClose, row))
  BY <1>2 DEF Either
<1> QED
  BY <1>3, <1>4

\* The drawdown of a day is a matter of the closes up to it.
LEMMA DrawdownStays ==
    ASSUME NEW n \in Nat, NEW f, NEW g, DOMAIN f \subseteq 0..n, NEW day, SameUpTo(day, f, g)
    PROVE  DrawdownIn(f, day) = DrawdownIn(g, day)
<1> DEFINE stored == {d \in DOMAIN f : d <= day}
<1>1. stored = {d \in DOMAIN g : d <= day} /\ \A d \in stored : f[d] = g[d]
  BY DEF SameUpTo
<1>2. stored # {} => Max(stored) \in stored
  <2>1. stored \subseteq 0..n
    OBVIOUS
  <2> HIDE DEF stored
  <2> QED
    BY <2>1, GreatestIsMax
<1>3. {f[d] : d \in stored} = {g[d] : d \in stored}
  BY <1>1
<1>4. CASE stored = {}
  <2>1. Cardinality(stored) < 2
    BY <1>4, FS_EmptySet
  <2> HIDE DEF stored
  <2>2. DrawdownIn(f, day) = "none" /\ DrawdownIn(g, day) = "none"
    <3> USE DEF stored
    <3>1. DrawdownIn(f, day) = "none"
      BY <2>1 DEF DrawdownIn
    <3>2. DrawdownIn(g, day) = "none"
      BY <1>1, <2>1 DEF DrawdownIn
    <3> QED
      BY <3>1, <3>2
  <2> QED
    BY <2>2
<1>5. CASE stored # {}
  <2>1. f[Max(stored)] = g[Max(stored)]
    BY <1>1, <1>2, <1>5
  <2>2. Max({f[d] : d \in stored}) = Max({g[d] : d \in stored})
    BY <1>3
  <2> QED
    BY <1>1, <2>1, <2>2 DEF DrawdownIn
<1> QED
  BY <1>4, <1>5

\* One market's closes change, and only after the days that an entry needs.
ChangedAfter(row, n, closes, m, later) ==
    /\ n \in Nat /\ m \in Markets
    /\ \A k \in Markets : DOMAIN closes[k] \subseteq 0..n
    /\ \A k \in Markets \ {m} : later[k] = closes[k]
    /\ row.since # None => SameUpTo(row.since, closes[m], later[m])

\* And so are the months of an entry.
LEMMA MonthsStay ==
    ASSUME NEW row \in Profiles, NEW n, NEW closes, NEW m, NEW later,
           ChangedAfter(row, n, closes, m, later)
    PROVE  MonthsIn(later, row) = MonthsIn(closes, row)
<1>1. /\ n \in Nat /\ m \in Markets
      /\ \A k \in Markets : DOMAIN closes[k] \subseteq 0..n
      /\ \A k \in Markets \ {m} : later[k] = closes[k]
      /\ row.since # None => SameUpTo(row.since, closes[m], later[m])
  BY DEF ChangedAfter
<1>2. \A s \in Strategies(row) : MarketOf(s.what) \in Markets
  <2>1. row.sleeves \in Menus
    BY DEF Profiles
  <2> QED
    BY <2>1, MarketsAssumption DEF Strategies
<1>3. ASSUME NEW s \in Strategies(row), row.since # None
      PROVE  DrawdownIn(later[MarketOf(s.what)], row.since) =
             DrawdownIn(closes[MarketOf(s.what)], row.since)
  <2>1. CASE MarketOf(s.what) = m
    <3>1. DrawdownIn(closes[m], row.since) = DrawdownIn(later[m], row.since)
      BY <1>1, <1>3, DrawdownStays
    <3> QED
      BY <2>1, <3>1
  <2>2. CASE MarketOf(s.what) # m
    BY <1>1, <1>2, <2>2
  <2> QED
    BY <2>1, <2>2
<1>4. MonthsIn(later, row) = MonthsIn(closes, row)
  BY <1>3 DEF MonthsIn
<1> QED
  BY <1>4

LEMMA SettledStarts == ProfilesInit => SettledInv
  BY DEF ProfilesInit, SettledInv, SettledOf

\* What is settled stays so, and what an evening applies agrees with it.
LEMMA SettledStays ==
    ASSUME ProfilesInv, SettledInv, ProfilesNext
    PROVE  SettledInv' /\ \A a \in Accounts : AppliesSettled(a)
<1>1. ASSUME UNCHANGED <<storedClose, lastMonths, settled>>
      PROVE  SettledInv' /\ \A a \in Accounts : AppliesSettled(a)
  <2>1. \A a \in Accounts : SettledOf(a)'
    BY <1>1 DEF SettledInv, SettledOf
  <2>2. \A a \in Accounts : AppliesSettled(a)
    BY <1>1 DEF SettledInv, SettledOf, AppliesSettled, Either
  <2> QED
    BY <1>1, <2>1, <2>2 DEF SettledInv
<1>2. ASSUME NEW b \in Accounts, ApplyRamp(b)
      PROVE  SettledInv' /\ \A a \in Accounts : AppliesSettled(a)
  <2>1. nightly[b] \in Profiles
    BY <1>2 DEF ApplyRamp, ProfilesInv
  <2>2. PICK row \in Profiles : row = nightly[b]
    BY <2>1
  <2>3. PICK read \in SUBSET Strategies(row) :
           LET months == [row |-> row, of |-> MonthsOf(row, read)]
           IN /\ lastMonths' = [lastMonths EXCEPT ![b] = months]
              /\ settled' = IF read = Strategies(row) THEN [settled EXCEPT ![b] = months] ELSE settled
    BY <1>2, <2>2 DEF ApplyRamp
  <2>4. UNCHANGED storedClose
    BY <1>2 DEF ApplyRamp
  <2> DEFINE applied == MonthsOf(row, read)
             whole == MonthsIn(storedClose, row)
             months == [row |-> row, of |-> applied]
  <2>5. /\ read = Strategies(row) => applied = whole
        /\ Either(row, applied, whole)
    BY MonthsAreIn
  <2>6. /\ lastMonths' = [a \in Accounts |-> IF a = b THEN months ELSE lastMonths[a]]
        /\ settled' = [a \in Accounts |->
                          IF a = b /\ read = Strategies(row) THEN months ELSE settled[a]]
    BY <2>3 DEF SettledInv
  <2>7. months.row = row /\ months.of = applied
    OBVIOUS
  <2> HIDE DEF applied, whole
  <2>8. \A a \in Accounts \ {b} : SettledOf(a)' /\ AppliesSettled(a)
    BY <2>4, <2>6 DEF SettledInv, SettledOf, AppliesSettled, Either
  <2>9. lastMonths'[b] = months /\ settled'[b] = IF read = Strategies(row) THEN months ELSE settled[b]
    BY <2>6
  <2>10. SettledOf(b) /\ whole = MonthsIn(storedClose, row)
    BY DEF SettledInv, whole
  <2> HIDE DEF months
  <2>11. months = [row |-> row, of |-> applied]
    BY DEF months
  <2>12. SettledOf(b)'
    <3>1. CASE read = Strategies(row)
      <4>1. settled'[b] = months /\ applied = whole
        BY <2>5, <2>9, <3>1
      <4>2. settled'[b] = [row |-> settled'[b].row, of |-> MonthsIn(storedClose', settled'[b].row)]
            /\ settled'[b].row = row
        BY <2>4, <2>7, <2>10, <2>11, <4>1
      <4>3. Either(settled'[b].row, lastMonths'[b].of, settled'[b].of)
        BY <2>5, <2>7, <2>9, <4>1
      <4> QED
        BY <4>2, <4>3 DEF SettledOf
    <3>2. CASE read # Strategies(row)
      <4>1. settled'[b] = settled[b] /\ lastMonths'[b] = months
        BY <2>9, <3>2
      <4>2. settled[b] # None /\ settled[b].row = row => settled[b].of = whole
        <5> SUFFICES ASSUME settled[b] # None, settled[b].row = row PROVE settled[b].of = whole
          OBVIOUS
        <5>1. settled[b] = [row |-> settled[b].row, of |-> MonthsIn(storedClose, settled[b].row)]
          BY <2>10 DEF SettledOf
        <5>2. settled[b].of = MonthsIn(storedClose, settled[b].row)
          BY <5>1
        <5> QED
          BY <2>10, <5>2
      <4> QED
        BY <2>4, <2>5, <2>7, <2>10, <4>1, <4>2 DEF SettledOf
    <3> QED
      BY <3>1, <3>2
  <2>13. AppliesSettled(b)
    <3> SUFFICES ASSUME settled[b] # None, settled'[b] # None
                 PROVE  /\ settled'[b].row = settled[b].row => settled'[b] = settled[b]
                        /\ lastMonths'[b].row = settled[b].row =>
                              Either(settled[b].row, lastMonths'[b].of, settled[b].of)
      BY DEF AppliesSettled, Either
    <3>1. settled[b] = [row |-> settled[b].row, of |-> MonthsIn(storedClose, settled[b].row)]
      BY <2>10 DEF SettledOf
    <3>2. settled[b].of = MonthsIn(storedClose, settled[b].row)
      BY <3>1
    <3>3. lastMonths'[b].row = settled[b].row =>
             Either(settled[b].row, lastMonths'[b].of, settled[b].of)
      BY <2>5, <2>7, <2>9, <2>10, <3>2
    <3>4. settled'[b].row = settled[b].row => settled'[b] = settled[b]
      <4>1. CASE read = Strategies(row)
        <5>1. settled'[b] = [row |-> row, of |-> MonthsIn(storedClose, row)] /\ settled'[b].row = row
          BY <2>5, <2>7, <2>9, <2>10, <2>11, <4>1
        <5> QED
          BY <3>1, <5>1
      <4>2. CASE read # Strategies(row)
        BY <2>9, <4>2
      <4> QED
        BY <4>1, <4>2
    <3> QED
      BY <3>3, <3>4
  <2> QED
    BY <2>6, <2>8, <2>12, <2>13 DEF SettledInv
<1>3. ASSUME NEW m \in Markets, LoadCloses(m)
      PROVE  SettledInv' /\ \A a \in Accounts : AppliesSettled(a)
  <2>1. PICK new \in Storable(m) :
           /\ storedClose' = [storedClose EXCEPT ![m] = new]
           /\ settled' = [a \in Accounts |->
                IF StaysSettled(settled[a], storedClose[m], new) THEN settled[a] ELSE None]
    BY <1>3 DEF LoadCloses
  <2>2. UNCHANGED lastMonths
    BY <1>3 DEF LoadCloses
  <2>3. thisDay \in Nat
    <3>1. ProfileDays \subseteq Nat
      BY ProfilesAssumption
    <3> QED
      BY <3>1 DEF ProfilesInv
  <2>4. /\ storedClose = [k \in Markets |-> storedClose[k]]
        /\ \A k \in Markets : DOMAIN storedClose[k] \subseteq 0..thisDay
    BY DEF ProfilesInv, ClosesInv
  <2>5. ASSUME NEW a \in Accounts PROVE SettledOf(a)' /\ AppliesSettled(a)
    <3>1. CASE settled'[a] = None
      BY <3>1 DEF SettledOf, AppliesSettled
    <3>2. CASE settled'[a] # None
      <4>1. settled'[a] = settled[a] /\ settled[a] # None /\ StaysSettled(settled[a], storedClose[m], new)
        BY <2>1, <3>2
      <4>2. /\ settled[a].row \in Profiles
            /\ settled[a] = [row |-> settled[a].row, of |-> MonthsIn(storedClose, settled[a].row)]
            /\ lastMonths[a].row = settled[a].row =>
                  Either(settled[a].row, lastMonths[a].of, settled[a].of)
        BY <4>1 DEF SettledInv, SettledOf
      <4>3. settled[a].row.since # None => SameUpTo(settled[a].row.since, storedClose[m], new)
        BY <4>1 DEF StaysSettled
      <4>4. MonthsIn(storedClose', settled[a].row) = MonthsIn(storedClose, settled[a].row)
        <5>1. PICK row \in Profiles : row = settled[a].row
          BY <4>2
        <5>2. PICK later : later = [storedClose EXCEPT ![m] = new]
          OBVIOUS
        <5>3. later[m] = new /\ \A k \in Markets \ {m} : later[k] = storedClose[k]
          BY <2>4, <5>2
        <5>4. ChangedAfter(row, thisDay, storedClose, m, later)
          BY <2>3, <2>4, <4>3, <5>1, <5>3 DEF ChangedAfter
        <5>5. MonthsIn(later, row) = MonthsIn(storedClose, row)
          BY ONLY <5>1, <5>4, MonthsStay
        <5>6. storedClose' = later
          BY <2>1, <5>2
        <5> QED
          BY ONLY <5>1, <5>5, <5>6
      <4>5. SettledOf(a)'
        BY <2>2, <4>1, <4>2, <4>4 DEF SettledOf
      <4>6. AppliesSettled(a)
        BY <2>2, <4>1, <4>2 DEF AppliesSettled, Either
      <4> QED
        BY <4>5, <4>6
    <3> QED
      BY <3>1, <3>2
  <2> QED
    BY <2>1, <2>2, <2>5 DEF SettledInv
<1>4. \/ UNCHANGED <<storedClose, lastMonths, settled>>
      \/ \E a \in Accounts : ApplyRamp(a)
      \/ \E m \in Markets : LoadCloses(m)
  <2>1. ASSUME NEW c \in Callers, \/ \E a \in Accounts, p \in Patches : AskPatch(c, a, p)
                                  \/ SeedRows(c) \/ LoadRow(c) \/ ReadLock(c) \/ WriteRow(c)
        PROVE  UNCHANGED <<storedClose, lastMonths, settled>>
    <3>1. ASSUME NEW a \in Accounts, NEW p \in Patches, AskPatch(c, a, p)
          PROVE  UNCHANGED <<storedClose, lastMonths, settled>>
      BY <3>1 DEF rampVars, AskPatch
    <3>2. SeedRows(c) => UNCHANGED <<storedClose, lastMonths, settled>>
      BY DEF rampVars, SeedRows
    <3>3. LoadRow(c) \/ ReadLock(c) => UNCHANGED <<storedClose, lastMonths, settled>>
      BY DEF rampVars, LoadRow, ReadLock
    <3>4. WriteRow(c) => UNCHANGED <<storedClose, lastMonths, settled>>
      BY DEF rampVars, WriteRow
    <3> QED
      BY <2>1, <3>1, <3>2, <3>3, <3>4
  <2>2. TurnLock \/ NextDay \/ StartEvening => UNCHANGED <<storedClose, lastMonths, settled>>
    BY DEF rampVars, TurnLock, NextDay, StartEvening
  <2> QED
    BY <2>1, <2>2 DEF ProfilesNext
<1> QED
  BY <1>1, <1>2, <1>3, <1>4

LEMMA SettledQuiet == SettledInv /\ UNCHANGED profileVars => SettledInv'
  BY DEF profileVars, rampVars, SettledInv, SettledOf

-----------------------------------------------------------------------------
(* The brokers' credentials.                                               *)

\* A call that was begun has credentials.
Keyed == \A u \in Users : call[u].at # "idle" => call[u].keys \in Keys

LEMMA AccessTyping ==
    ASSUME AccessTypeOK, Keyed, AccessNext
    PROVE  AccessTypeOK' /\ Keyed'
<1> USE AccessAssumption DEF AccessTypeOK, Keyed
<1>0. \A kind : BrokerOf(kind) \in Brokers
  BY DEF BrokerOf, Brokers
<1>1. ASSUME NEW keys \in Keys, NEW number \in BOOLEAN, UpdateTossSettings(keys, number)
      PROVE  AccessTypeOK' /\ Keyed'
  BY <1>1 DEF UpdateTossSettings, Edit, Brokers
<1>2. ASSUME NEW keys \in Keys, UpdateAccount(keys) PROVE AccessTypeOK' /\ Keyed'
  BY <1>2 DEF UpdateAccount, Edit, Brokers
<1>3. ASSUME NEW value \in {"number", "word"}, PatchSettings(value) PROVE AccessTypeOK' /\ Keyed'
  BY <1>3 DEF PatchSettings, Edit
<1>4. ASSUME NEW u \in Users, NEW kind \in Operations, BeginCall(u, kind) PROVE AccessTypeOK' /\ Keyed'
  <2>1. KeysOf(kind) \in Keys
    BY <1>0, <1>4 DEF KeysOf, BeginCall
  <2>2. kind \in CallKinds /\ NoToken \in Tokens
    BY DEF Tokens
  <2> QED
    BY <1>4, <2>1, <2>2 DEF BeginCall
<1>5. ASSUME NEW u \in Users, TakeToken(u) PROVE AccessTypeOK' /\ Keyed'
  <2> DEFINE kept == token[BrokerOf(call[u].kind)]
             given == IF Valid(kept) THEN kept ELSE NoToken
             step == IF Valid(kept) THEN "send" ELSE "issue"
  <2>1. given \in Tokens
    BY <1>0 DEF Tokens
  <2>2. step \in {"send", "issue"}
    OBVIOUS
  <2>3. call' = [call EXCEPT ![u].at = step, ![u].token = given] /\ call[u].at = "token"
    BY <1>5 DEF TakeToken
  <2>4. UNCHANGED <<now, saved, seq, token, edits, since>>
    BY <1>5 DEF TakeToken
  <2> HIDE DEF given, step
  <2> QED
    BY <2>1, <2>2, <2>3, <2>4
<1>6. ASSUME NEW u \in Users, IssueToken(u) PROVE AccessTypeOK' /\ Keyed'
  <2>1. CASE call' = [call EXCEPT ![u].at = "failed"]
    BY <1>6, <2>1 DEF IssueToken
  <2>2. CASE call' = [call EXCEPT ![u].at = "keep",
                                  ![u].token = [of |-> call[u].keys, until |-> now + Lifetime]]
    <3>1. now + Lifetime \in 0..LastInstant + Lifetime
      OBVIOUS
    <3>2. call[u].keys \in Keys
      BY <1>6 DEF IssueToken
    <3>3. [of |-> call[u].keys, until |-> now + Lifetime] \in Tokens
      BY <3>1, <3>2 DEF Tokens
    <3>4. UNCHANGED <<now, saved, seq, token, edits, since>> /\ call[u].at = "issue"
      BY <1>6 DEF IssueToken
    <3> QED
      BY <2>2, <3>2, <3>3, <3>4
  <2> QED
    BY <1>6, <2>1, <2>2 DEF IssueToken
<1>7. ASSUME NEW u \in Users, KeepToken(u) PROVE AccessTypeOK' /\ Keyed'
  BY <1>7 DEF KeepToken, BrokerOf, Brokers
<1>8. ASSUME NEW u \in Users, Send(u) PROVE AccessTypeOK' /\ Keyed'
  BY <1>8 DEF Send
<1>9. CASE NextInstant
  BY <1>9 DEF NextInstant, AtEase, Tokens, CallKinds
<1> QED
  BY <1>1, <1>2, <1>3, <1>4, <1>5, <1>6, <1>7, <1>8, <1>9 DEF AccessNext
\* A client of Toss takes the saved credentials: it was made since they were saved or
\* within the instant of the change, and a token of others is of before the change.
Lent ==
    /\ since <= now /\ token["TOSS"].until <= now + Lifetime
    /\ token["TOSS"] # NoToken => \/ token["TOSS"].of = saved["TOSS"]
                                  \/ token["TOSS"].until <= since + Lifetime
    /\ \A u \in Users : call[u].at # "idle" => call[u].kind # "sync"
    /\ \A u \in Users : call[u].at # "idle" /\ call[u].kind = "order" =>
          /\ call[u].keys = saved["TOSS"] \/ since = now
          /\ call[u].at = "keep" => /\ call[u].token.of = call[u].keys
                                    /\ call[u].token.until = now + Lifetime
          /\ call[u].at \in {"send", "answered"} =>
                call[u].token.of = call[u].keys \/ now < since + Lifetime

LEMMA AccessStepLent ==
    ASSUME AccessTypeOK, Keyed, Lent, EnvKeys["TOSS"] = NoKeys, AccessNext
    PROVE  Lent'
<1> USE AccessAssumption DEF AccessTypeOK, Keyed, Lent, Brokers
<1>0. /\ \A kind \in {"order", "sync"} : BrokerOf(kind) = "TOSS"
      /\ \A kind \in {"trade", "test"} : BrokerOf(kind) = "KIS"
  BY DEF BrokerOf
<1>t. /\ now \in Nat /\ since \in Nat /\ token["TOSS"].until \in Nat
      /\ \A u \in Users : call[u].kind \in CallKinds
  BY DEF Tokens, NoToken
<1>1. ASSUME NEW keys \in Keys, NEW number \in BOOLEAN, UpdateTossSettings(keys, number)
      PROVE  Lent'
  BY <1>1, <1>t DEF UpdateTossSettings
<1>2. ASSUME NEW keys \in Keys, UpdateAccount(keys) PROVE Lent'
  BY <1>2 DEF UpdateAccount
<1>3. ASSUME NEW value \in {"number", "word"}, PatchSettings(value) PROVE Lent'
  BY <1>3 DEF PatchSettings
<1>4. ASSUME NEW u \in Users, NEW kind \in Operations, BeginCall(u, kind) PROVE Lent'
  <2>1. kind # "sync" /\ (kind = "order" => KeysOf(kind) = saved["TOSS"])
    BY <1>0, <1>4 DEF BeginCall, KeysOf
  <2>2. call' = [call EXCEPT ![u] = call'[u]]
        /\ call'[u].at \in {"failed", "token"} /\ call'[u].kind = kind /\ call'[u].keys = KeysOf(kind)
    BY <1>4 DEF BeginCall
  <2>3. UNCHANGED <<now, saved, seq, token, edits, since>>
    BY <1>4 DEF BeginCall
  <2> QED
    BY <2>1, <2>2, <2>3
<1>5. ASSUME NEW u \in Users, TakeToken(u) PROVE Lent'
  <2> DEFINE kept == token[BrokerOf(call[u].kind)]
  <2>1. call[u].at = "token" /\ UNCHANGED <<now, saved, seq, token, edits, since>>
    BY <1>5 DEF TakeToken
  <2>2. CASE ~Valid(kept)
    <3>1. call' = [call EXCEPT ![u].at = "issue", ![u].token = NoToken]
      BY <1>5, <2>2 DEF TakeToken
    <3> QED
      BY <2>1, <3>1
  <2>3. CASE Valid(kept)
    <3>1. call' = [call EXCEPT ![u].at = "send", ![u].token = kept]
      BY <1>5, <2>3 DEF TakeToken
    <3>2. CASE call[u].kind = "order"
      <4>1. kept = token["TOSS"] /\ kept # NoToken /\ now < kept.until
        BY <1>0, <2>3, <3>2 DEF Valid
      <4>2. kept.of = call[u].keys \/ now < since + Lifetime
        BY <1>t, <2>1, <3>2, <4>1
      <4> HIDE DEF kept
      <4> QED
        BY <2>1, <3>1, <3>2, <4>2
    <3>3. CASE call[u].kind # "order"
      <4> HIDE DEF kept
      <4> QED
        BY <2>1, <3>1, <3>3
    <3> QED
      BY <3>2, <3>3
  <2> QED
    BY <2>2, <2>3
<1>6. ASSUME NEW u \in Users, IssueToken(u) PROVE Lent'
  <2>1. CASE call' = [call EXCEPT ![u].at = "failed"]
    BY <1>6, <2>1 DEF IssueToken
  <2>2. CASE call' = [call EXCEPT ![u].at = "keep",
                                  ![u].token = [of |-> call[u].keys, until |-> now + Lifetime]]
    BY <1>6, <2>2 DEF IssueToken
  <2> QED
    BY <1>6, <2>1, <2>2 DEF IssueToken
<1>7. ASSUME NEW u \in Users, KeepToken(u) PROVE Lent'
  <2>1. /\ call[u].at = "keep" /\ call' = [call EXCEPT ![u].at = "send"]
        /\ UNCHANGED <<now, saved, seq, edits, since>>
    BY <1>7 DEF KeepToken
  <2>2. CASE call[u].kind = "order"
    <3>1. token'["TOSS"] = call[u].token
      BY <1>0, <1>7, <2>2 DEF KeepToken
    <3> QED
      BY <1>t, <2>1, <2>2, <3>1
  <2>3. CASE call[u].kind # "order"
    <3>1. BrokerOf(call[u].kind) = "KIS"
      BY <1>0, <1>t, <2>1, <2>3 DEF CallKinds
    <3>2. token'["TOSS"] = token["TOSS"]
      BY <1>7, <3>1 DEF KeepToken
    <3> QED
      BY <2>1, <2>3, <3>2
  <2> QED
    BY <2>2, <2>3
<1>8. ASSUME NEW u \in Users, Send(u) PROVE Lent'
  BY <1>8 DEF Send
<1>9. CASE NextInstant
  BY <1>9, <1>t DEF NextInstant, AtEase
<1> QED
  BY <1>1, <1>2, <1>3, <1>4, <1>5, <1>6, <1>7, <1>8, <1>9 DEF AccessNext

AccessInv == AccessTypeOK /\ Keyed /\ (EnvKeys["TOSS"] = NoKeys => Lent)

LEMMA AccessInitInv == AccessInit => AccessInv
  BY AccessAssumption DEF AccessInit, AccessInv, AccessTypeOK, Keyed, Lent, Brokers, Tokens,
                          NoToken, AtEase, CallKinds

LEMMA AccessStepInv == AccessInv /\ AccessNext => AccessInv'
  BY AccessTyping, AccessStepLent DEF AccessInv

LEMMA AccessQuietInv == AccessInv /\ UNCHANGED accessVars => AccessInv'
  BY DEF AccessInv, accessVars, AccessTypeOK, Keyed, Lent

LEMMA AccessInvHolds == AccessInv => ForeignTokenExpires
  BY DEF AccessInv, Lent, ForeignTokenExpires, Foreign

\* Orders made with the saved credentials go to the account of others for no longer than a
\* token lives (toss/rest_client.py, the token file), whatever keys, users and edits there are.
THEOREM ForeignOrdersEnd == AccessInit /\ [][AccessNext]_accessVars => []ForeignTokenExpires
<1>1. AccessInv /\ [AccessNext]_accessVars => AccessInv'
  BY AccessStepInv, AccessQuietInv
<1> QED
  BY <1>1, AccessInitInv, AccessInvHolds, PTL

-----------------------------------------------------------------------------
(* The overview of the accounts.                                              *)

Figures == Nat \union {Unheard}
Won(balance, rate) == [k \in Assets |-> ToKrw(balance[k], k, rate)]

LEMMA FewAssets == IsFiniteSet(Assets) /\ IsFiniteSet(BrokerAccounts)
<1>1. IsFiniteSet({"kr"}) /\ IsFiniteSet({"paper"})
  BY FS_Singleton
<1>2. IsFiniteSet({"kr"} \cup {"us"}) /\ IsFiniteSet({"paper"} \cup {"live"})
  BY <1>1, FS_AddElement
<1>3. IsFiniteSet(({"kr"} \cup {"us"}) \cup {"krw"}) /\ IsFiniteSet(({"paper"} \cup {"live"}) \cup {"toss"})
  BY <1>2, FS_AddElement
<1>4. IsFiniteSet((({"kr"} \cup {"us"}) \cup {"krw"}) \cup {"usd"})
  BY <1>3, FS_AddElement
<1>5. Assets = (({"kr"} \cup {"us"}) \cup {"krw"}) \cup {"usd"}
  BY DEF Assets
<1>6. BrokerAccounts = ({"paper"} \cup {"live"}) \cup {"toss"}
  BY DEF BrokerAccounts
<1> QED
  BY <1>3, <1>4, <1>5, <1>6

\* The fold of the library is the sum of DataLemmas.
LEMMA AccountTotalIsSum ==
    ASSUME NEW balance, NEW rate
    PROVE  AccountTotal(balance, rate) = SumOf(Won(balance, rate), Assets)
<1> DEFINE g == Won(balance, rate)
           Body(t) == t = [s \in SUBSET Assets |-> IF s = {} THEN 0
                             ELSE ToKrw(balance[CHOOSE x \in s : TRUE], CHOOSE x \in s : TRUE, rate)
                                  + t[s \ {CHOOSE x \in s : TRUE}]]
<1>1. \A t : IsTable(t, g, Assets) <=> Body(t)
  <2> TAKE t
  <2>1. \A s \in SUBSET Assets : s # {} => Some(s) \in Assets
    BY SomeIsIn
  <2>2. \A s \in SUBSET Assets : s # {} => g[Some(s)] = ToKrw(balance[Some(s)], Some(s), rate)
    BY <2>1 DEF Won
  <2>3. [s \in SUBSET Assets |-> IF s = {} THEN 0 ELSE g[Some(s)] + t[s \ {Some(s)}]]
      = [s \in SUBSET Assets |-> IF s = {} THEN 0
           ELSE ToKrw(balance[Some(s)], Some(s), rate) + t[s \ {Some(s)}]]
    <3> HIDE DEF g
    <3> QED
      BY <2>2
  <2> QED
    BY <2>3, Zenon DEF IsTable, Some
<1>2. IsTable(CHOOSE t : Body(t), g, Assets)
  <2> HIDE DEF Body, g
  <2> QED
    BY <1>1, FewAssets, TableExists
<1>3. AccountTotal(balance, rate) = (CHOOSE t : Body(t))[Assets]
  BY DEF AccountTotal, MapThenSumSet, MapThenFoldSet
<1>4. SumOf(g, Assets) = (CHOOSE t : Body(t))[Assets]
  <2> HIDE DEF Body, g
  <2> QED
    BY <1>2, FewAssets, SumIsTables
<1> QED
  BY <1>3, <1>4

LEMMA UnifiedIsSum ==
    ASSUME NEW rate, DOMAIN ask.balance \subseteq BrokerAccounts
    PROVE  Unified(rate).total
             = SumOf([a \in DOMAIN ask.balance |-> AccountTotal(ask.balance[a], rate)], DOMAIN ask.balance)
<1> DEFINE D == DOMAIN ask.balance
           g == [a \in D |-> AccountTotal(ask.balance[a], rate)]
           Body(t) == t = [s \in SUBSET D |-> IF s = {} THEN 0
                             ELSE AccountTotal(ask.balance[CHOOSE x \in s : TRUE], rate)
                                  + t[s \ {CHOOSE x \in s : TRUE}]]
<1>0. IsFiniteSet(D)
  BY FewAssets, FS_Subset
<1>1. \A t : IsTable(t, g, D) <=> Body(t)
  <2> TAKE t
  <2>1. \A s \in SUBSET D : s # {} => Some(s) \in D
    BY SomeIsIn
  <2>2. \A s \in SUBSET D : s # {} => g[Some(s)] = AccountTotal(ask.balance[Some(s)], rate)
    BY <2>1
  <2>3. [s \in SUBSET D |-> IF s = {} THEN 0 ELSE g[Some(s)] + t[s \ {Some(s)}]]
      = [s \in SUBSET D |-> IF s = {} THEN 0
           ELSE AccountTotal(ask.balance[Some(s)], rate) + t[s \ {Some(s)}]]
    <3> HIDE DEF g, D
    <3> QED
      BY <2>2
  <2> QED
    BY <2>3, Zenon DEF IsTable, Some
<1>2. IsTable(CHOOSE t : Body(t), g, D)
  <2> HIDE DEF Body, g, D
  <2> QED
    BY <1>0, <1>1, TableExists
<1>3. Unified(rate).total = (CHOOSE t : Body(t))[D]
  BY DEF Unified, MapThenSumSet, MapThenFoldSet
<1>4. SumOf(g, D) = (CHOOSE t : Body(t))[D]
  <2> HIDE DEF Body, g, D
  <2> QED
    BY <1>0, <1>2, SumIsTables
<1> QED
  BY <1>3, <1>4

LEMMA WorthIsSum ==
    ASSUME NEW D, D \subseteq BrokerAccounts
    PROVE  WorthOf(D) = SumOf([a \in D |-> Worth(a)], D)
<1> DEFINE g == [a \in D |-> Worth(a)]
           Body(t) == t = [s \in SUBSET D |-> IF s = {} THEN 0
                             ELSE Worth(CHOOSE x \in s : TRUE) + t[s \ {CHOOSE x \in s : TRUE}]]
<1>0. IsFiniteSet(D)
  BY FewAssets, FS_Subset
<1>1. \A t : IsTable(t, g, D) <=> Body(t)
  <2> TAKE t
  <2>1. \A s \in SUBSET D : s # {} => Some(s) \in D
    BY SomeIsIn
  <2>2. \A s \in SUBSET D : s # {} => g[Some(s)] = Worth(Some(s))
    BY <2>1
  <2>3. [s \in SUBSET D |-> IF s = {} THEN 0 ELSE g[Some(s)] + t[s \ {Some(s)}]]
      = [s \in SUBSET D |-> IF s = {} THEN 0 ELSE Worth(Some(s)) + t[s \ {Some(s)}]]
    <3> HIDE DEF g
    <3> QED
      BY <2>2
  <2> QED
    BY <2>3, Zenon DEF IsTable, Some
<1>2. IsTable(CHOOSE t : Body(t), g, D)
  <2> HIDE DEF Body, g
  <2> QED
    BY <1>0, <1>1, TableExists
<1>3. WorthOf(D) = (CHOOSE t : Body(t))[D]
  BY DEF WorthOf, MapThenSumSet, MapThenFoldSet
<1>4. SumOf(g, D) = (CHOOSE t : Body(t))[D]
  <2> HIDE DEF Body, g
  <2> QED
    BY <1>0, <1>2, SumIsTables
<1> QED
  BY <1>3, <1>4

LEMMA FourFigures ==
    ASSUME NEW g \in [Assets -> Int]
    PROVE  SumOf(g, Assets) = g["kr"] + g["us"] + g["krw"] + g["usd"]
<1>1. IsFiniteSet({"us", "krw", "usd"}) /\ IsFiniteSet({"krw", "usd"}) /\ IsFiniteSet({"usd"})
  BY FewAssets, FS_Subset DEF Assets
<1>2. SumOf(g, Assets) = g["kr"] + SumOf(g, Assets \ {"kr"})
  BY FewAssets, SumTakes DEF Assets
<1>3. Assets \ {"kr"} = {"us", "krw", "usd"} /\ {"us", "krw", "usd"} \ {"us"} = {"krw", "usd"}
      /\ {"krw", "usd"} \ {"krw"} = {"usd"} /\ {"usd"} \ {"usd"} = {}
  BY DEF Assets
<1>4. SumOf(g, {"us", "krw", "usd"}) = g["us"] + SumOf(g, {"us", "krw", "usd"} \ {"us"})
  BY <1>1, SumTakes DEF Assets
<1>5. SumOf(g, {"krw", "usd"}) = g["krw"] + SumOf(g, {"krw", "usd"} \ {"krw"})
  BY <1>1, SumTakes DEF Assets
<1>6. SumOf(g, {"usd"}) = g["usd"] + SumOf(g, {"usd"} \ {"usd"})
  BY <1>1, SumTakes DEF Assets
<1>7. SumOf(g, {}) = 0
  BY SumOfNone
<1>8. g["kr"] \in Int /\ g["us"] \in Int /\ g["krw"] \in Int /\ g["usd"] \in Int
  BY DEF Assets
<1> DEFINE s4 == SumOf(g, Assets)
           s3 == SumOf(g, {"us", "krw", "usd"})
           s2 == SumOf(g, {"krw", "usd"})
           s1 == SumOf(g, {"usd"})
           kr == g["kr"]
           us == g["us"]
           krw == g["krw"]
           usd == g["usd"]
<1>9. s4 = kr + s3
  BY <1>2, <1>3
<1>10. s3 = us + s2
  BY <1>3, <1>4
<1>11. s2 = krw + s1
  BY <1>3, <1>5
<1>12. s1 = usd + 0
  BY <1>3, <1>6, <1>7
<1>13. kr \in Int /\ us \in Int /\ krw \in Int /\ usd \in Int
  BY <1>8
<1>14. s4 = kr + us + krw + usd
  <2> HIDE DEF s1, s2, s3, s4, kr, us, krw, usd
  <2> QED
    BY ONLY <1>9, <1>10, <1>11, <1>12, <1>13
<1> QED
  BY <1>14

LEMMA InWon ==
    ASSUME NEW x \in Nat, NEW y \in Nat, NEW r \in Nat
    PROVE  /\ r * (x + y) = x * r + y * r
           /\ x * r \in Nat
  OBVIOUS

LEMMA NothingInWon ==
    ASSUME NEW x \in Nat
    PROVE  x * 0 = 0 /\ 0 * x = 0
  OBVIOUS

LEMMA AccountIsWorth ==
    ASSUME PortfolioAssumption, NEW a, NEW rate \in {0, Rate}, purse[a] \in [Assets -> Nat], NEW balance,
           \A k \in Assets : balance[k] \in {purse[a][k], Unheard}
    PROVE  /\ AccountTotal(balance, rate) \in Nat /\ Worth(a) \in Nat
           /\ AccountTotal(balance, rate) <= Worth(a)
           /\ /\ \A k \in Assets : balance[k] # Unheard
              /\ rate = Rate \/ (purse[a]["us"] = 0 /\ purse[a]["usd"] = 0)
              => AccountTotal(balance, rate) = Worth(a)
<1> DEFINE w == Won(balance, rate)
           kr == purse[a]["kr"]
           us == purse[a]["us"]
           krw == purse[a]["krw"]
           usd == purse[a]["usd"]
<1>0. kr \in Nat /\ us \in Nat /\ krw \in Nat /\ usd \in Nat /\ Rate \in Nat /\ Unheard \notin Nat
  BY DEF Assets, PortfolioAssumption
<1>1. Worth(a) = kr + krw + (us * Rate + usd * Rate)
  <2>1. Worth(a) = kr + krw + Rate * (us + usd)
    BY DEF Worth
  <2> HIDE DEF us, usd, kr, krw
  <2>2. Rate * (us + usd) = us * Rate + usd * Rate
    BY <1>0, InWon
  <2> QED
    BY <2>1, <2>2
<1>2. w["kr"] \in {0, kr} /\ w["krw"] \in {0, krw} /\ (balance["kr"] # Unheard => w["kr"] = kr)
      /\ (balance["krw"] # Unheard => w["krw"] = krw)
  BY <1>0 DEF Won, ToKrw, Assets, InDollars
<1>3. w["us"] \in {0, us * Rate}
      /\ (balance["us"] # Unheard /\ (rate = Rate \/ us = 0) => w["us"] = us * Rate)
  <2>a. us * 0 = 0
    <3>1. us \in Nat
      BY <1>0
    <3> HIDE DEF us
    <3> QED
      BY <3>1, NothingInWon
  <2>b. 0 * rate = 0
    <3>1. rate \in Nat
      BY <1>0
    <3> QED
      BY <3>1, NothingInWon
  <2>c. 0 * Rate = 0
    BY <1>0, NothingInWon
  <2>1. w["us"] = ToKrw(balance["us"], "us", rate)
    BY DEF Won, Assets
  <2>2. balance["us"] = Unheard => w["us"] = 0
    <3>1. \A x : x = Unheard => ToKrw(x, "us", rate) = 0
      BY Zenon DEF ToKrw
    <3> QED
      BY <2>1, <3>1
  <2>3. balance["us"] # Unheard => w["us"] = us * rate
    BY DEF Won, ToKrw, Assets, InDollars
  <2>4. us * rate \in {0, us * Rate} /\ (rate = Rate \/ us = 0 => us * rate = us * Rate)
    <3> HIDE DEF us
    <3>1. CASE rate = 0
      BY <2>a, <2>b, <2>c, <3>1
    <3>2. CASE rate = Rate
      BY <3>2
    <3> QED
      BY <3>1, <3>2
  <2> HIDE DEF w, us
  <2> QED
    BY <2>2, <2>3, <2>4
<1>4. w["usd"] \in {0, usd * Rate}
      /\ (balance["usd"] # Unheard /\ (rate = Rate \/ usd = 0) => w["usd"] = usd * Rate)
  <2>a. usd * 0 = 0
    <3>1. usd \in Nat
      BY <1>0
    <3> HIDE DEF usd
    <3> QED
      BY <3>1, NothingInWon
  <2>b. 0 * rate = 0
    <3>1. rate \in Nat
      BY <1>0
    <3> QED
      BY <3>1, NothingInWon
  <2>c. 0 * Rate = 0
    BY <1>0, NothingInWon
  <2>1. w["usd"] = ToKrw(balance["usd"], "usd", rate)
    BY DEF Won, Assets
  <2>2. balance["usd"] = Unheard => w["usd"] = 0
    <3>1. \A x : x = Unheard => ToKrw(x, "usd", rate) = 0
      BY Zenon DEF ToKrw
    <3> QED
      BY <2>1, <3>1
  <2>3. balance["usd"] # Unheard => w["usd"] = usd * rate
    BY DEF Won, ToKrw, Assets, InDollars
  <2>4. usd * rate \in {0, usd * Rate} /\ (rate = Rate \/ usd = 0 => usd * rate = usd * Rate)
    <3> HIDE DEF usd
    <3>1. CASE rate = 0
      BY <2>a, <2>b, <2>c, <3>1
    <3>2. CASE rate = Rate
      BY <3>2
    <3> QED
      BY <3>1, <3>2
  <2> HIDE DEF w, usd
  <2> QED
    BY <2>2, <2>3, <2>4
<1>5. \A k \in Assets : w[k] \in Int
  BY <1>0, <1>2, <1>3, <1>4 DEF Assets
<1>6. w \in [Assets -> Int]
  BY <1>5 DEF Won
<1>7. AccountTotal(balance, rate) = w["kr"] + w["us"] + w["krw"] + w["usd"]
  BY <1>6, AccountTotalIsSum, FourFigures
<1> DEFINE usw == us * Rate
           usdw == usd * Rate
           t == AccountTotal(balance, rate)
           v == Worth(a)
           w1 == w["kr"]
           w2 == w["us"]
           w3 == w["krw"]
           w4 == w["usd"]
<1>8. usw \in Nat /\ usdw \in Nat
  <2> HIDE DEF us, usd
  <2> QED
    BY <1>0, InWon
<1>9. t = w1 + w2 + w3 + w4 /\ v = kr + krw + (usw + usdw)
  BY <1>1, <1>7
<1>10. w1 \in {0, kr} /\ w2 \in {0, usw} /\ w3 \in {0, krw} /\ w4 \in {0, usdw}
  BY <1>2, <1>3, <1>4
<1>11. t \in Nat /\ v \in Nat /\ t <= v
  <2>1. kr \in Nat /\ krw \in Nat
    BY <1>0
  <2> HIDE DEF t, v, w1, w2, w3, w4, usw, usdw, kr, krw
  <2> QED
    BY ONLY <2>1, <1>8, <1>9, <1>10
<1>12. ASSUME \A k \in Assets : balance[k] # Unheard, rate = Rate \/ (us = 0 /\ usd = 0)
       PROVE  t = v
  <2>1. w1 = kr /\ w2 = usw /\ w3 = krw /\ w4 = usdw
    BY <1>2, <1>3, <1>4, <1>12 DEF Assets
  <2>2. kr \in Nat /\ krw \in Nat
    BY <1>0
  <2> HIDE DEF t, v, w1, w2, w3, w4, usw, usdw, kr, krw
  <2> QED
    BY ONLY <2>1, <2>2, <1>8, <1>9
<1> QED
  BY <1>11, <1>12

-----------------------------------------------------------------------------
(* The overview adds up.                                                       *)

Stage == {"idle", "kis", "toss", "krw", "usd", "quotes", "fx"}
AfterToss == {"krw", "usd", "quotes", "fx"}
Balances == UNION {[S -> [Assets -> Figures]] : S \in SUBSET BrokerAccounts}
Asking == [at : Stage, asked : SUBSET BrokerAccounts, balance : Balances,
           errors : SUBSET BrokerAccounts, traded : BOOLEAN]

PursesOK ==
    /\ purse \in [BrokerAccounts -> [Assets -> Nat]]
    /\ \A a \in KisAccounts : purse[a]["us"] = 0 /\ purse[a]["usd"] = 0

AskOK ==
    /\ ask \in Asking
    /\ DOMAIN ask.balance \subseteq ask.asked
    /\ ask.at = "idle" => ask.balance = <<>>
    /\ ask.at \notin {"idle", "kis"} =>
          /\ ask.asked \cap KisAccounts \subseteq DOMAIN ask.balance \cup ask.errors
          /\ "toss" \in ask.asked
    /\ ask.at \in AfterToss <=> "toss" \in DOMAIN ask.balance
    /\ ~ask.traded => \A a \in DOMAIN ask.balance : \A k \in Assets :
                         ask.balance[a][k] \in {purse[a][k], Unheard}

OverviewOK ==
    /\ overview.total \in Nat
    /\ overview.counted \subseteq overview.asked /\ overview.counted \subseteq BrokerAccounts

PortfolioInv == PortfolioAssumption /\ PursesOK /\ AskOK /\ OverviewOK /\ TotalIsRight

\* What is added up, without the errors an answer adds.
LEMMA UnifiedIsWorth ==
    ASSUME PortfolioAssumption, PursesOK, AskOK, NEW rate \in {0, Rate}
    PROVE  LET u == Unified(rate) IN
           /\ u.total \in Nat
           /\ ~ask.traded => /\ u.total <= WorthOf(u.counted)
                             /\ u.whole => u.total = WorthOf(u.counted)
<1> DEFINE D == DOMAIN ask.balance
           u == Unified(rate)
           g == [a \in D |-> AccountTotal(ask.balance[a], rate)]
           h == [a \in D |-> Worth(a)]
<1>1. /\ D \subseteq BrokerAccounts /\ IsFiniteSet(D) /\ u.counted = D
      /\ \A a \in D : ask.balance[a] \in [Assets -> Figures] /\ purse[a] \in [Assets -> Nat]
  <2>1. D \subseteq BrokerAccounts /\ \A a \in D : ask.balance[a] \in [Assets -> Figures]
    BY DEF AskOK, Asking, Balances
  <2>2. u.counted = D
    BY DEF Unified
  <2>3. IsFiniteSet(D)
    BY <2>1, FewAssets, FS_Subset
  <2> HIDE DEF D, u
  <2> QED
    BY <2>1, <2>2, <2>3 DEF PursesOK
<1>2. u.total = SumOf(g, D)
  BY <1>1, UnifiedIsSum
<1>3. WorthOf(u.counted) = SumOf(h, D)
  BY <1>1, WorthIsSum
<1>4. \A a \in D : AccountTotal(ask.balance[a], rate) \in Nat
  <2> TAKE a \in D
  <2> DEFINE b == ask.balance[a]
             w == Won(b, rate)
  <2>1. \A k \in Assets : b[k] \in Figures
    BY <1>1
  <2>2. \A k \in Assets : w[k] \in Nat
    <3> TAKE k \in Assets
    <3>1. w[k] = ToKrw(b[k], k, rate)
      BY DEF Won
    <3>2. \A x \in Nat : x * rate \in Nat
      <4>1. rate \in Nat
        BY DEF PortfolioAssumption
      <4> QED
        BY <4>1, InWon
    <3> HIDE DEF b, w
    <3> QED
      BY <2>1, <3>1, <3>2 DEF ToKrw, Figures, PortfolioAssumption
  <2>3. SumOf(w, Assets) \in Nat
    <3> HIDE DEF w
    <3> QED
      BY <2>2, FewAssets, SumIsNat
  <2> QED
    BY <2>3, AccountTotalIsSum
<1>5. \A a \in D : g[a] \in Nat
  BY <1>4
<1>6. u.total \in Nat
  <2>1. SumOf(g, D) \in Nat
    <3> HIDE DEF g, D
    <3> QED
      BY <1>1, <1>5, SumIsNat
  <2> QED
    BY <1>2, <2>1
<1>7. ASSUME ~ask.traded PROVE u.total <= WorthOf(u.counted) /\ (u.whole => u.total = WorthOf(u.counted))
  <2>1. \A a \in D :
           /\ g[a] \in Nat /\ h[a] \in Nat /\ g[a] <= h[a]
           /\ /\ \A k \in Assets : ask.balance[a][k] # Unheard
              /\ rate = Rate \/ (purse[a]["us"] = 0 /\ purse[a]["usd"] = 0)
              => g[a] = h[a]
    <3> TAKE a \in D
    <3>1. \A k \in Assets : ask.balance[a][k] \in {purse[a][k], Unheard}
      BY <1>7 DEF AskOK
    <3>2. purse[a] \in [Assets -> Nat]
      BY <1>1
    <3> DEFINE b == ask.balance[a]
    <3>3. /\ AccountTotal(b, rate) \in Nat /\ Worth(a) \in Nat
          /\ AccountTotal(b, rate) <= Worth(a)
          /\ /\ \A k \in Assets : b[k] # Unheard
             /\ rate = Rate \/ (purse[a]["us"] = 0 /\ purse[a]["usd"] = 0)
             => AccountTotal(b, rate) = Worth(a)
      <4>1. \A k \in Assets : b[k] \in {purse[a][k], Unheard}
        BY <3>1
      <4> HIDE DEF b
      <4> QED
        BY <3>2, <4>1, AccountIsWorth
    <3>4. g[a] = AccountTotal(b, rate) /\ h[a] = Worth(a)
      OBVIOUS
    <3> HIDE DEF g, h, D
    <3> QED
      BY <3>3, <3>4
  <2>2. SumOf(g, D) <= SumOf(h, D)
    <3> HIDE DEF g, h, D
    <3> QED
      BY <1>1, <2>1, SumLeq
  <2>3. ASSUME u.whole PROVE SumOf(g, D) = SumOf(h, D)
    <3>1. rate = Rate \/ "toss" \notin D
      BY <2>3 DEF Unified
    <3>2. \A a \in D : Unheard \notin {ask.balance[a][k] : k \in Assets}
      BY <2>3 DEF Unified
    <3>3. \A a \in D : rate = Rate \/ (purse[a]["us"] = 0 /\ purse[a]["usd"] = 0)
      <4> TAKE a \in D
      <4>1. a \in BrokerAccounts
        BY <1>1
      <4>2. a = "toss" \/ a \in KisAccounts
        BY <4>1 DEF BrokerAccounts, KisAccounts
      <4>3. CASE a = "toss"
        <5>1. "toss" \in D
          BY <4>3
        <5> HIDE DEF D
        <5> QED
          BY <3>1, <5>1
      <4>4. CASE a \in KisAccounts
        BY <4>4 DEF PursesOK
      <4> QED
        BY <4>2, <4>3, <4>4
    <3>4. \A a \in D : g[a] = h[a]
      <4> TAKE a \in D
      <4>1. \A k \in Assets : ask.balance[a][k] # Unheard
        BY <3>2
      <4> HIDE DEF g, h, D
      <4> QED
        BY <2>1, <3>3, <4>1
    <3> HIDE DEF g, h, D
    <3> QED
      BY <1>1, <3>4, SumOfSame
  <2> QED
    BY <1>2, <1>3, <2>2, <2>3
<1> QED
  BY <1>6, <1>7

LEMMA WorthIsSumNext ==
    ASSUME NEW CONSTANT D, D \subseteq BrokerAccounts
    PROVE  WorthOf(D)' = SumOf([a \in D |-> Worth(a)'], D)
<1>1. WorthOf(D) = SumOf([a \in D |-> Worth(a)], D)
  BY WorthIsSum
<1>2. (WorthOf(D) = SumOf([a \in D |-> Worth(a)], D))'
  BY <1>1, PTL
<1> QED
  BY <1>2

LEMMA WorthStays ==
    ASSUME NEW CONSTANT D, D \subseteq BrokerAccounts, \A a \in BrokerAccounts : Worth(a)' = Worth(a)
    PROVE  WorthOf(D)' = WorthOf(D)
<1> DEFINE g == [a \in D |-> Worth(a)]
           h == [a \in D |-> Worth(a)']
<1>1. WorthOf(D)' = SumOf(h, D) /\ WorthOf(D) = SumOf(g, D)
  BY WorthIsSum, WorthIsSumNext
<1>2. IsFiniteSet(D) /\ \A a \in D : g[a] = h[a]
  BY FewAssets, FS_Subset
<1> HIDE DEF g, h
<1> QED
  BY <1>1, <1>2, SumOfSame

\* The request asks again.
LEMMA NotAskedIsAsking ==
    /\ NotAsked \in Asking /\ NotAsked.at = "idle" /\ NotAsked.balance = <<>> /\ DOMAIN NotAsked.balance = {}
    /\ NotAsked.traded = FALSE /\ NotAsked.errors = {} /\ NotAsked.asked = {}
<1>1. <<>> \in [{} -> [Assets -> Figures]] /\ DOMAIN <<>> = {}
  OBVIOUS
<1>2. <<>> \in Balances
  BY <1>1 DEF Balances
<1>3. "idle" \in Stage
  BY DEF Stage
<1> QED
  BY <1>1, <1>2, <1>3 DEF NotAsked, Asking

LEMMA NotAskedKeeps ==
    ASSUME ask' = NotAsked
    PROVE  AskOK'
<1>1. NotAsked.at = "idle" /\ DOMAIN NotAsked.balance = {} /\ "idle" \notin AfterToss
  BY NotAskedIsAsking DEF AfterToss
<1> QED
  BY <1>1, NotAskedIsAsking DEF AskOK

LEMMA AnswerKeeps ==
    ASSUME PortfolioInv, NEW CONSTANT rate \in {0, Rate}, purse' = purse, ask' = NotAsked,
           overview'.total = Unified(rate).total, overview'.counted = Unified(rate).counted,
           overview'.whole = Unified(rate).whole, overview'.traded = ask.traded,
           DOMAIN ask.balance \subseteq overview'.asked,
           overview'.asked \subseteq DOMAIN ask.balance \cup overview'.errors
    PROVE  PortfolioInv'
<1>1. Unified(rate).counted = DOMAIN ask.balance
  BY DEF Unified
<1>2. DOMAIN ask.balance \subseteq BrokerAccounts
  BY DEF PortfolioInv, AskOK, Asking
<1>3. PursesOK'
  BY DEF PortfolioInv, PursesOK
<1>4. \A D \in SUBSET BrokerAccounts : WorthOf(D)' = WorthOf(D)
  <2> TAKE D \in SUBSET BrokerAccounts
  <2>1. \A a \in BrokerAccounts : Worth(a)' = Worth(a)
    BY DEF Worth
  <2> QED
    BY <2>1, WorthStays
<1> DEFINE u == Unified(rate)
<1>5. u.total \in Nat
      /\ (~ask.traded => u.total <= WorthOf(u.counted) /\ (u.whole => u.total = WorthOf(u.counted)))
  BY UnifiedIsWorth DEF PortfolioInv
<1>6. overview'.total = u.total /\ overview'.counted = u.counted /\ overview'.whole = u.whole
      /\ u.counted = DOMAIN ask.balance
  BY <1>1
<1> HIDE DEF u
<1>7. OverviewOK'
  BY <1>2, <1>5, <1>6 DEF OverviewOK
<1>8. TotalIsRight'
  <2>1. overview'.counted \in SUBSET BrokerAccounts
    BY <1>2, <1>6
  <2>2. WorthOf(overview'.counted) = WorthOf(overview.counted)'
    BY <1>4, <2>1
  <2> QED
    BY <1>5, <1>6, <2>2 DEF TotalIsRight
<1>9. AskOK'
  BY NotAskedKeeps
<1> QED
  BY <1>3, <1>7, <1>8, <1>9 DEF PortfolioInv

\* Steps of the request itself.
LEMMA AskKeeps ==
    ASSUME PortfolioInv, AskOK', purse' = purse, overview' = overview
    PROVE  PortfolioInv'
<1>1. PursesOK' /\ OverviewOK'
  BY DEF PortfolioInv, PursesOK, OverviewOK
<1>2. \A D \in SUBSET BrokerAccounts : WorthOf(D)' = WorthOf(D)
  <2> TAKE D \in SUBSET BrokerAccounts
  <2>1. \A a \in BrokerAccounts : Worth(a)' = Worth(a)
    BY DEF Worth
  <2> QED
    BY <2>1, WorthStays
<1>3. WorthOf(overview.counted)' = WorthOf(overview.counted)
  BY <1>2 DEF PortfolioInv, OverviewOK
<1>4. TotalIsRight'
  BY <1>3 DEF PortfolioInv, TotalIsRight
<1> QED
  BY <1>1, <1>4 DEF PortfolioInv

LEMMA AnsweredIsIn ==
    ASSUME AskOK, NEW a \in BrokerAccounts, NEW b \in [Assets -> Figures]
    PROVE  /\ Answered(a, b) \in Balances /\ DOMAIN Answered(a, b) = DOMAIN ask.balance \cup {a}
           /\ Answered(a, b)[a] = b
           /\ \A c \in DOMAIN ask.balance : c # a => Answered(a, b)[c] = ask.balance[c]
<1>1. PICK S \in SUBSET BrokerAccounts : ask.balance \in [S -> [Assets -> Figures]]
  BY DEF AskOK, Asking, Balances
<1>2. Answered(a, b) \in [S \cup {a} -> [Assets -> Figures]]
  BY <1>1 DEF Answered
<1>3. S \cup {a} \in SUBSET BrokerAccounts
  OBVIOUS
<1> QED
  BY <1>1, <1>2, <1>3 DEF Balances, Answered

LEMMA PortfolioStepInv == PortfolioInv /\ [PortfolioNext]_portfolioVars => PortfolioInv'
<1> SUFFICES ASSUME PortfolioInv, [PortfolioNext]_portfolioVars PROVE PortfolioInv'
  OBVIOUS
<1>0. /\ PortfolioAssumption /\ PursesOK /\ AskOK /\ OverviewOK /\ TotalIsRight
      /\ ask \in Asking /\ DOMAIN ask.balance \subseteq ask.asked /\ DOMAIN ask.balance \subseteq BrokerAccounts
  BY DEF PortfolioInv, AskOK, Asking
<1>a. \A a \in BrokerAccounts : purse[a] \in [Assets -> Figures]
  BY <1>0 DEF PursesOK, Figures
<1>b. Blank \in [Assets -> Figures] /\ \A k \in Assets : Blank[k] = Unheard
  BY DEF Blank, Figures
<1>1. ASSUME NEW wanted \in {BrokerAccounts, KisAccounts, {"toss"}}, NEW paperToo \in BOOLEAN,
             AskOverview(wanted, paperToo)
      PROVE  PortfolioInv'
  <2> DEFINE asked == IF paperToo THEN wanted ELSE wanted \ {"paper"}
             moved == [NotAsked EXCEPT !.at = "kis", !.asked = asked]
  <2>1. ask' = moved /\ overview' = NoOverview /\ purse' = purse
    BY <1>1 DEF AskOverview
  <2>2. asked \in SUBSET BrokerAccounts
    BY DEF BrokerAccounts, KisAccounts
  <2>3. "kis" \in Stage
    BY DEF Stage
  <2> HIDE DEF asked
  <2>4. moved \in Asking /\ moved.at = "kis" /\ moved.balance = <<>> /\ DOMAIN moved.balance = {}
    BY <2>2, <2>3, NotAskedIsAsking DEF Asking, NotAsked
  <2> HIDE DEF moved
  <2>5. AskOK'
    BY <2>1, <2>4 DEF AskOK, AfterToss
  <2>6. PursesOK'
    BY <1>0, <2>1 DEF PursesOK
  <2>7. NoOverview.total = 0 /\ NoOverview.counted = {} /\ NoOverview.asked = {} /\ NoOverview.whole = FALSE
    BY DEF NoOverview
  <2>8. WorthOf({})' = 0
    <3> DEFINE g == [a \in {} |-> Worth(a)']
    <3>1. WorthOf({})' = SumOf(g, {})
      BY WorthIsSumNext
    <3> HIDE DEF g
    <3> QED
      BY <3>1, SumOfNone
  <2>9. OverviewOK' /\ TotalIsRight'
    <3>1. overview'.total = 0 /\ overview'.counted = {} /\ overview'.asked = {} /\ overview'.whole = FALSE
      BY <2>1, <2>7
    <3> QED
      BY <2>8, <3>1 DEF OverviewOK, TotalIsRight
  <2> QED
    BY <1>0, <2>5, <2>6, <2>9 DEF PortfolioInv
<1>2. ASSUME NEW a \in KisAccounts, HearKis(a) PROVE PortfolioInv'
  <2>0. a \in BrokerAccounts /\ a # "toss" /\ a \in ask.asked
    BY <1>2 DEF HearKis, KisAccounts, BrokerAccounts
  <2>1. purse' = purse /\ overview' = overview /\ ask.at = "kis"
    BY <1>2 DEF HearKis
  <2>2. CASE \E balance \in {purse[a], Blank} : ask' = [ask EXCEPT !.balance = Answered(a, balance)]
    <3>1. PICK balance \in {purse[a], Blank} : ask' = [ask EXCEPT !.balance = Answered(a, balance)]
      BY <2>2
    <3> DEFINE given == Answered(a, balance)
               moved == [ask EXCEPT !.balance = given]
    <3>2. balance \in [Assets -> Figures]
      BY <1>a, <1>b, <2>0
    <3>3. /\ given \in Balances /\ DOMAIN given = DOMAIN ask.balance \cup {a}
          /\ given[a] = balance /\ \A c \in DOMAIN ask.balance : c # a => given[c] = ask.balance[c]
      BY <1>0, <2>0, <3>2, AnsweredIsIn
    <3> HIDE DEF given
    <3>4. moved \in Asking /\ moved.at = ask.at /\ moved.asked = ask.asked /\ moved.errors = ask.errors
          /\ moved.traded = ask.traded /\ moved.balance = given
      BY <1>0, <3>3 DEF Asking
    <3>5. ask' = moved
      BY <3>1 DEF given
    <3> HIDE DEF moved
    <3>6. \A k \in Assets : balance[k] \in {purse[a][k], Unheard}
      BY <1>b
    <3>7. AskOK'
      <4>1. "toss" \in DOMAIN given <=> "toss" \in DOMAIN ask.balance
        BY <2>0, <3>3
      <4>2. ~ask.traded => \A c \in DOMAIN given : \A k \in Assets : given[c][k] \in {purse[c][k], Unheard}
        <5>1. ASSUME ~ask.traded, NEW c \in DOMAIN given, NEW k \in Assets
              PROVE  given[c][k] \in {purse[c][k], Unheard}
          <6>1. CASE c = a
            BY <3>3, <3>6, <6>1
          <6>2. CASE c # a
            BY <1>0, <3>3, <5>1, <6>2 DEF AskOK
          <6> QED
            BY <6>1, <6>2
        <5> QED
          BY <5>1
      <4> QED
        BY <1>0, <2>0, <2>1, <3>3, <3>4, <3>5, <4>1, <4>2 DEF AskOK
    <3> QED
      BY <2>1, <3>7, AskKeeps
  <2>3. CASE ask' = [ask EXCEPT !.errors = @ \union {a}]
    <3> DEFINE moved == [ask EXCEPT !.errors = @ \union {a}]
    <3>1. moved \in Asking /\ moved.at = ask.at /\ moved.asked = ask.asked /\ ask.errors \subseteq moved.errors
          /\ moved.traded = ask.traded /\ moved.balance = ask.balance
      BY <1>0, <2>0 DEF Asking
    <3>2. ask' = moved
      BY <2>3
    <3> HIDE DEF moved
    <3>3. AskOK'
      BY <1>0, <2>1, <3>1, <3>2 DEF AskOK
    <3> QED
      BY <2>1, <3>3, AskKeeps
  <2> QED
    BY <1>2, <2>2, <2>3 DEF HearKis
<1>3. CASE TurnToToss
  <2>0. /\ purse' = purse /\ ask.at = "kis" /\ "toss" \notin DOMAIN ask.balance
        /\ ask.asked \cap KisAccounts \subseteq DOMAIN ask.balance \cup ask.errors
    BY <1>0, <1>3 DEF TurnToToss, AskOK, AfterToss
  <2>a. \A c \in ask.asked : c \in KisAccounts \/ c = "toss"
    BY <1>0 DEF Asking, BrokerAccounts, KisAccounts
  <2> DEFINE u == Unified(0)
  <2>u. u.asked = ask.asked /\ u.errors = ask.errors /\ u.counted = DOMAIN ask.balance /\ u.traded = ask.traded
    BY DEF Unified
  <2>1. CASE "toss" \notin ask.asked
    <3>1. Answer(0, {})
      BY <1>3, <2>1 DEF TurnToToss
    <3>2. ask' = NotAsked /\ overview' = [u EXCEPT !.errors = ask.errors \union {}]
      BY <3>1 DEF Answer
    <3>3. /\ overview'.total = u.total /\ overview'.counted = u.counted /\ overview'.whole = u.whole
          /\ overview'.traded = u.traded /\ overview'.asked = u.asked /\ overview'.errors = ask.errors
      BY <3>2 DEF Unified
    <3>4. overview'.asked \subseteq DOMAIN ask.balance \cup overview'.errors
      <4> HIDE DEF u
      <4> QED
        BY <2>0, <2>1, <2>a, <2>u, <3>3
    <3> QED
      BY <1>0, <2>0, <2>u, <3>2, <3>3, <3>4, AnswerKeeps
  <2>2. CASE "toss" \in ask.asked
    <3>1. CASE ask' = [ask EXCEPT !.at = "toss"] /\ overview' = overview
      <4> DEFINE moved == [ask EXCEPT !.at = "toss"]
      <4>1. moved \in Asking /\ moved.at = "toss" /\ moved.asked = ask.asked /\ ask.errors = moved.errors
            /\ moved.traded = ask.traded /\ moved.balance = ask.balance
        BY <1>0 DEF Asking, Stage
      <4>2. ask' = moved
        BY <3>1
      <4> HIDE DEF moved
      <4>3. AskOK'
        BY <1>0, <2>0, <2>2, <4>1, <4>2 DEF AskOK, AfterToss
      <4> QED
        BY <2>0, <3>1, <4>3, AskKeeps
    <3>2. CASE ask' = NotAsked /\ overview' = overview
      BY <2>0, <3>2, NotAskedKeeps, AskKeeps
    <3>3. CASE /\ ask' = NotAsked
               /\ overview' = [u EXCEPT !.errors = IF ask.asked = {"toss"} THEN {"toss"} ELSE @,
                                        !.asked = IF ask.asked = {"toss"} THEN @ ELSE @ \ {"toss"}]
      <4>1. /\ overview'.total = u.total /\ overview'.counted = u.counted /\ overview'.whole = u.whole
            /\ overview'.traded = u.traded
            /\ overview'.errors = IF ask.asked = {"toss"} THEN {"toss"} ELSE u.errors
            /\ overview'.asked = IF ask.asked = {"toss"} THEN u.asked ELSE u.asked \ {"toss"}
        BY <3>3 DEF Unified
      <4>2. /\ overview'.asked \subseteq DOMAIN ask.balance \cup overview'.errors
            /\ DOMAIN ask.balance \subseteq overview'.asked
        <5> HIDE DEF u
        <5> QED
          BY <1>0, <2>0, <2>a, <2>u, <4>1
      <4> QED
        BY <1>0, <2>0, <2>u, <3>3, <4>1, <4>2, AnswerKeeps
    <3> QED
      BY <1>3, <2>2, <3>1, <3>2, <3>3 DEF TurnToToss
  <2> QED
    BY <2>1, <2>2
<1>4. CASE HearToss
  <2>0. /\ purse' = purse /\ ask.at = "toss" /\ "toss" \notin DOMAIN ask.balance /\ "toss" \in ask.asked
        /\ ask.asked \cap KisAccounts \subseteq DOMAIN ask.balance \cup ask.errors
    BY <1>0, <1>4 DEF HearToss, AskOK, AfterToss
  <2>1. CASE Answer(0, {"toss"})
    <3> DEFINE u == Unified(0)
    <3>1. ask' = NotAsked /\ overview' = [u EXCEPT !.errors = ask.errors \union {"toss"}]
      BY <2>1 DEF Answer
    <3>2. /\ overview'.total = u.total /\ overview'.counted = u.counted /\ overview'.whole = u.whole
          /\ overview'.traded = ask.traded /\ overview'.asked = ask.asked
          /\ overview'.errors = ask.errors \union {"toss"}
      BY <3>1 DEF Unified
    <3>3. \A c \in ask.asked : c \in KisAccounts \/ c = "toss"
      BY <1>0 DEF Asking, BrokerAccounts, KisAccounts
    <3>4. overview'.asked \subseteq DOMAIN ask.balance \cup overview'.errors
      <4> HIDE DEF u
      <4> QED
        BY <2>0, <3>2, <3>3
    <3> QED
      BY <1>0, <2>0, <3>1, <3>2, <3>4, AnswerKeeps
  <2>2. ASSUME NEW lacks \in SUBSET {"us", "krw", "usd"}, overview' = overview,
               ask' = [ask EXCEPT !.at = "krw",
                         !.balance = Answered("toss", [k \in Assets |-> IF k \in lacks THEN Unheard
                                                                       ELSE purse["toss"][k]])]
        PROVE  PortfolioInv'
    <3> DEFINE balance == [k \in Assets |-> IF k \in lacks THEN Unheard ELSE purse["toss"][k]]
               given == Answered("toss", balance)
               moved == [ask EXCEPT !.at = "krw", !.balance = given]
    <3>0. "toss" \in BrokerAccounts
      BY DEF BrokerAccounts
    <3>1. \A k \in Assets : balance[k] \in {purse["toss"][k], Unheard}
      OBVIOUS
    <3>2. balance \in [Assets -> Figures]
      <4>1. \A k \in Assets : purse["toss"][k] \in Nat
        BY <1>0, <3>0 DEF PursesOK
      <4> QED
        BY <4>1 DEF Figures
    <3>3. ask' = [ask EXCEPT !.at = "krw", !.balance = given]
      BY <2>2
    <3> HIDE DEF balance
    <3>4. /\ given \in Balances /\ DOMAIN given = DOMAIN ask.balance \cup {"toss"}
          /\ given["toss"] = balance /\ \A c \in DOMAIN ask.balance : c # "toss" => given[c] = ask.balance[c]
      BY <1>0, <3>0, <3>2, AnsweredIsIn
    <3> HIDE DEF given
    <3>5. moved \in Asking /\ moved.at = "krw" /\ moved.asked = ask.asked /\ moved.errors = ask.errors
          /\ moved.traded = ask.traded /\ moved.balance = given
      BY <1>0, <3>4 DEF Asking, Stage
    <3>6. ask' = moved
      BY <3>3
    <3> HIDE DEF moved
    <3>7. ASSUME ~ask.traded, NEW c \in DOMAIN given, NEW k \in Assets
          PROVE  given[c][k] \in {purse[c][k], Unheard}
      <4>1. CASE c = "toss"
        BY <3>1, <3>4, <4>1
      <4>2. CASE c # "toss"
        BY <1>0, <3>4, <3>7, <4>2 DEF AskOK
      <4> QED
        BY <4>1, <4>2
    <3>8. AskOK'
      BY <1>0, <2>0, <3>4, <3>5, <3>6, <3>7 DEF AskOK, AfterToss
    <3> QED
      BY <2>0, <2>2, <3>8, AskKeeps
  <2> QED
    BY <1>4, <2>1, <2>2 DEF HearToss
<1>5. ASSUME NEW kind \in {"us", "krw", "usd"}, NEW next \in {"usd", "quotes", "fx"},
             ask.at \in {"krw", "usd", "quotes"}, Fill(kind, next)
      PROVE  PortfolioInv'
  <2>0. /\ purse' = purse /\ overview' = overview /\ "toss" \in DOMAIN ask.balance /\ "toss" \in ask.asked
        /\ ask.asked \cap KisAccounts \subseteq DOMAIN ask.balance \cup ask.errors
        /\ kind \in Assets
    BY <1>0, <1>5 DEF Fill, AskOK, AfterToss, Assets
  <2>1. PICK found \in {purse["toss"][kind], Unheard} :
           ask' = [ask EXCEPT !.at = next,
                     !.balance["toss"][kind] = IF @ = Unheard THEN found ELSE @]
    BY <1>5 DEF Fill
  <2> DEFINE figure == IF ask.balance["toss"][kind] = Unheard THEN found ELSE ask.balance["toss"][kind]
             given == [ask.balance EXCEPT !["toss"][kind] = figure]
             moved == [ask EXCEPT !.at = next, !.balance = given]
  <2>2. PICK S \in SUBSET BrokerAccounts : ask.balance \in [S -> [Assets -> Figures]]
    BY <1>0 DEF Asking, Balances
  <2>3. "toss" \in S /\ DOMAIN ask.balance = S
    BY <2>0, <2>2
  <2>4. figure \in Figures
    <3>1. purse["toss"] \in [Assets -> Figures]
      BY <1>a DEF BrokerAccounts
    <3>2. found \in Figures
      BY <2>0, <3>1 DEF Figures
    <3> QED
      BY <2>0, <2>2, <2>3, <3>2
  <2>5. ask' = [ask EXCEPT !.at = next, !.balance = given]
    BY <2>1
  <2>6. ~ask.traded => figure \in {purse["toss"][kind], Unheard}
    BY <1>0, <2>0 DEF AskOK
  <2> HIDE DEF figure
  <2>7. /\ given \in [S -> [Assets -> Figures]] /\ given["toss"][kind] = figure
        /\ \A c \in S, k \in Assets : c # "toss" \/ k # kind => given[c][k] = ask.balance[c][k]
    BY <2>0, <2>2, <2>3, <2>4
  <2> HIDE DEF given
  <2>8. DOMAIN given = S /\ given \in Balances
    BY <2>7 DEF Balances
  <2>9. moved \in Asking /\ moved.at = next /\ moved.asked = ask.asked /\ moved.errors = ask.errors
        /\ moved.traded = ask.traded /\ moved.balance = given
    BY <1>0, <2>8 DEF Asking, Stage
  <2>10. ask' = moved
    BY <2>5
  <2> HIDE DEF moved
  <2>11. ASSUME ~ask.traded, NEW c \in DOMAIN given, NEW k \in Assets
         PROVE  given[c][k] \in {purse[c][k], Unheard}
    <3>1. CASE c = "toss" /\ k = kind
      BY <2>6, <2>7, <2>11, <3>1
    <3>2. CASE c # "toss" \/ k # kind
      <4>1. given[c][k] = ask.balance[c][k]
        BY <2>7, <2>8, <3>2
      <4>2. ask.balance[c][k] \in {purse[c][k], Unheard}
        BY <1>0, <2>3, <2>8, <2>11 DEF AskOK
      <4> QED
        BY <4>1, <4>2
    <3> QED
      BY <3>1, <3>2
  <2>12. AskOK'
    BY <1>0, <2>0, <2>3, <2>8, <2>9, <2>10, <2>11 DEF AskOK, AfterToss
  <2> QED
    BY <2>0, <2>12, AskKeeps
<1>6. CASE FillCash \/ FillPrices
  BY <1>5, <1>6 DEF FillCash, FillPrices
<1>7. CASE HearRate
  <2>0. /\ purse' = purse /\ ask.at = "fx" /\ "toss" \in DOMAIN ask.balance
        /\ ask.asked \cap KisAccounts \subseteq DOMAIN ask.balance \cup ask.errors
    BY <1>0, <1>7 DEF HearRate, AskOK, AfterToss
  <2>1. ASSUME NEW rate \in {0, Rate}, NEW errors, Answer(rate, errors)
        PROVE  PortfolioInv'
    <3> DEFINE u == Unified(rate)
    <3>1. ask' = NotAsked /\ overview' = [u EXCEPT !.errors = ask.errors \union errors]
      BY <2>1 DEF Answer
    <3>2. /\ overview'.total = u.total /\ overview'.counted = u.counted /\ overview'.whole = u.whole
          /\ overview'.traded = ask.traded /\ overview'.asked = ask.asked
          /\ overview'.errors = ask.errors \union errors
      BY <3>1 DEF Unified
    <3>3. \A c \in ask.asked : c \in KisAccounts \/ c = "toss"
      BY <1>0 DEF Asking, BrokerAccounts, KisAccounts
    <3>4. overview'.asked \subseteq DOMAIN ask.balance \cup overview'.errors
      <4> HIDE DEF u
      <4> QED
        BY <2>0, <3>2, <3>3
    <3> QED
      BY <1>0, <2>0, <3>1, <3>2, <3>4, AnswerKeeps
  <2> QED
    BY <1>7, <2>1 DEF HearRate
<1>8. ASSUME NEW a \in BrokerAccounts, Sell(a, "kr", "krw") \/ Sell(a, "us", "usd")
      PROVE  PortfolioInv'
  <2>1. PICK stock \in {"kr", "us"}, cash \in {"krw", "usd"} :
           Sell(a, stock, cash) /\ (stock = "kr" <=> cash = "krw")
    BY <1>8
  <2>0. /\ purse[a][stock] > 0 /\ ask' = [ask EXCEPT !.traded = ask.at # "idle"] /\ overview' = overview
        /\ purse' = [purse EXCEPT ![a][stock] = 0, ![a][cash] = @ + purse[a][stock]]
    BY <2>1 DEF Sell
  <2>2. stock \in Assets /\ cash \in Assets /\ stock # cash /\ purse[a] \in [Assets -> Nat]
        /\ purse \in [BrokerAccounts -> [Assets -> Nat]]
    BY <1>0, <2>1 DEF Assets, PursesOK
  <2> DEFINE cashed == purse[a][cash] + purse[a][stock]
             sold == [purse[a] EXCEPT ![stock] = 0, ![cash] = cashed]
  <2>3. cashed \in Nat
    BY <2>2
  <2>4. purse' = [purse EXCEPT ![a] = sold]
    BY <2>0, <2>2
  <2> HIDE DEF cashed
  <2>5. /\ sold \in [Assets -> Nat] /\ sold[stock] = 0 /\ sold[cash] = cashed
        /\ \A k \in Assets \ {stock, cash} : sold[k] = purse[a][k]
    BY <2>2, <2>3
  <2> HIDE DEF sold
  <2>6. /\ purse' \in [BrokerAccounts -> [Assets -> Nat]] /\ purse'[a] = sold
        /\ \A b \in BrokerAccounts \ {a} : purse'[b] = purse[b]
    BY <2>2, <2>4, <2>5
  <2>7. a \in KisAccounts => stock = "kr" /\ cash = "krw"
    BY <1>0, <2>0, <2>1 DEF PursesOK
  <2>8. PursesOK'
    <3>1. \A b \in KisAccounts : b \in BrokerAccounts
      BY DEF KisAccounts, BrokerAccounts
    <3>2. \A b \in KisAccounts : purse'[b]["us"] = 0 /\ purse'[b]["usd"] = 0
      <4> TAKE b \in KisAccounts
      <4>1. CASE b = a
        BY <1>0, <2>5, <2>6, <2>7, <4>1 DEF PursesOK, Assets
      <4>2. CASE b # a
        BY <1>0, <2>6, <3>1, <4>2 DEF PursesOK
      <4> QED
        BY <4>1, <4>2
    <3> QED
      BY <2>6, <3>2 DEF PursesOK
  <2>9. \A b \in BrokerAccounts : Worth(b)' = Worth(b)
    <3> TAKE b \in BrokerAccounts
    <3>1. CASE b # a
      BY <2>6, <3>1 DEF Worth
    <3>2. CASE b = a
      <4> DEFINE n1 == purse[a]["kr"]
                 n2 == purse[a]["us"]
                 n3 == purse[a]["krw"]
                 n4 == purse[a]["usd"]
      <4>0. n1 \in Nat /\ n2 \in Nat /\ n3 \in Nat /\ n4 \in Nat
        BY <2>2 DEF Assets
      <4>1. Worth(b) = n1 + n3 + Rate * (n2 + n4)
        BY <3>2 DEF Worth
      <4>2. Worth(b)' = sold["kr"] + sold["krw"] + Rate * (sold["us"] + sold["usd"])
        BY <2>6, <3>2 DEF Worth
      <4>3. CASE stock = "kr"
        <5>1. cash = "krw"
          BY <2>1, <4>3
        <5>2. sold["kr"] = 0 /\ sold["krw"] = n3 + n1 /\ sold["us"] = n2 /\ sold["usd"] = n4
          BY <2>5, <4>3, <5>1 DEF Assets, cashed
        <5> HIDE DEF n1, n2, n3, n4
        <5>3. Worth(b)' = 0 + (n3 + n1) + Rate * (n2 + n4)
          BY <4>2, <5>2
        <5>4. 0 + (n3 + n1) = n1 + n3
          BY <4>0
        <5> QED
          BY <4>1, <5>3, <5>4
      <4>4. CASE stock = "us"
        <5>1. cash = "usd"
          BY <2>1, <4>4
        <5>2. sold["kr"] = n1 /\ sold["krw"] = n3 /\ sold["us"] = 0 /\ sold["usd"] = n4 + n2
          BY <2>5, <4>4, <5>1 DEF Assets, cashed
        <5> HIDE DEF n1, n2, n3, n4
        <5>3. Worth(b)' = n1 + n3 + Rate * (0 + (n4 + n2))
          BY <4>2, <5>2
        <5>4. 0 + (n4 + n2) = n2 + n4
          BY <4>0
        <5> QED
          BY <4>1, <5>3, <5>4
      <4> QED
        BY <2>1, <4>3, <4>4
    <3> QED
      BY <3>1, <3>2
  <2>10. TotalIsRight'
    <3>1. \A D \in SUBSET BrokerAccounts : WorthOf(D)' = WorthOf(D)
      BY <2>9, WorthStays
    <3>2. WorthOf(overview.counted)' = WorthOf(overview.counted)
      BY <1>0, <2>0, <3>1 DEF OverviewOK
    <3> QED
      BY <1>0, <2>0, <3>2 DEF TotalIsRight
  <2> DEFINE traded == ask.at # "idle"
             moved == [ask EXCEPT !.traded = traded]
  <2>11. ask' = moved /\ traded \in BOOLEAN
    BY <2>0
  <2> HIDE DEF traded
  <2>12. moved \in Asking /\ moved.at = ask.at /\ moved.asked = ask.asked /\ ask.errors = moved.errors
         /\ moved.traded = traded /\ moved.balance = ask.balance
    BY <1>0, <2>11 DEF Asking
  <2> HIDE DEF moved
  <2>13. ~traded => DOMAIN ask.balance = {}
    BY <1>0 DEF traded, AskOK
  <2>14. AskOK'
    BY <1>0, <2>11, <2>12, <2>13 DEF AskOK
  <2>15. OverviewOK'
    BY <1>0, <2>0 DEF OverviewOK
  <2> QED
    BY <1>0, <2>8, <2>10, <2>14, <2>15 DEF PortfolioInv
<1>9. CASE UNCHANGED portfolioVars
  <2>1. purse' = purse /\ ask' = ask /\ overview' = overview
    BY <1>9 DEF portfolioVars
  <2>2. AskOK'
    BY <1>0, <2>1 DEF AskOK
  <2> QED
    BY <2>1, <2>2, AskKeeps
<1> QED
  BY <1>1, <1>2, <1>3, <1>4, <1>6, <1>7, <1>8, <1>9 DEF PortfolioNext

LEMMA PortfolioInitInv == PortfolioAssumption /\ PortfolioInit => PortfolioInv
<1> SUFFICES ASSUME PortfolioAssumption, PortfolioInit PROVE PortfolioInv
  OBVIOUS
<1>1. PursesOK
  BY DEF PortfolioInit, PortfolioAssumption, PursesOK
<1>2. AskOK
  BY NotAskedIsAsking DEF PortfolioInit, AskOK, AfterToss
<1>3. WorthOf({}) = 0
  <2> DEFINE g == [a \in {} |-> Worth(a)]
  <2>1. WorthOf({}) = SumOf(g, {})
    BY WorthIsSum
  <2> HIDE DEF g
  <2> QED
    BY <2>1, SumOfNone
<1>4. overview.total = 0 /\ overview.counted = {} /\ overview.asked = {}
  BY DEF PortfolioInit, NoOverview
<1>5. OverviewOK /\ TotalIsRight
  BY <1>3, <1>4 DEF OverviewOK, TotalIsRight
<1> QED
  BY <1>1, <1>2, <1>5 DEF PortfolioInv

LEMMA PortfolioInvHolds == PortfolioInv => PortfolioTypeOK /\ TotalIsRight
<1> SUFFICES ASSUME PortfolioInv PROVE PortfolioTypeOK
  BY DEF PortfolioInv
<1>1. ask.at \in Stage /\ ask.asked \in SUBSET BrokerAccounts /\ ask.balance \in Balances
  BY DEF PortfolioInv, AskOK, Asking
<1>2. \A a \in DOMAIN ask.balance : ask.balance[a] \in [Assets -> Figures]
  BY <1>1 DEF Balances
<1> QED
  BY <1>1, <1>2 DEF PortfolioInv, PursesOK, AskOK, OverviewOK, PortfolioTypeOK, Stage, Figures

-----------------------------------------------------------------------------
(* The map of a market.                                                        *)

\* No close is later than the day it is kept or shown for.
NoneAfter(closes, d) == \A c \in DOMAIN closes : closes[c] <= d

ClockInv == wall \in [day : MapDays \ {0}, phase : 1..4]

SnapshotInv ==
    /\ closeCache \in [MapDays -> CloseMaps \cup {NoSnapshot}]
    /\ \A d \in MapDays : closeCache[d] # NoSnapshot => NoneAfter(closeCache[d], d)

ViewRecord == [at : {"idle", "latest", "look", "fetch", "board", "build", "past"},
               forced : BOOLEAN, day : MapDays, stale : BOOLEAN, warned : BOOLEAN]

\* A request that turns to the snapshots was forced to or found the bars old.
ViewInv ==
    /\ view \in [Viewers -> ViewRecord]
    /\ \A v \in Viewers : view[v].at \in {"look", "fetch"} => view[v].forced \/ view[v].stale

HeatmapInv ==
    /\ ClockInv /\ SnapshotInv /\ ViewInv
    /\ barsTo \in [KrCodes \cup UsCodes -> MapDays]
    /\ shown.from \in {"nothing", "board", "naver", "bars", "past", "us"}
    /\ shown.asOf \in MapDays /\ shown.due \in MapDays
    /\ shown.forced \in BOOLEAN /\ shown.warned \in BOOLEAN
    /\ MapIsHonest

LEMMA LastTradedIsPast ==
    ASSUME NEW d \in MapDays
    PROVE  LastTraded(d) \in MapDays /\ LastTraded(d) <= d
<1>1. {e \in 0..d : e \notin Holidays} \subseteq 0..d /\ 0 \in {e \in 0..d : e \notin Holidays} /\ d \in Nat
  BY HeatmapAssumption DEF MapDays
<1>2. LastTraded(d) \in 0..d
  BY <1>1, GreatestIsMax DEF LastTraded
<1> QED
  BY <1>2, HeatmapAssumption DEF MapDays

LEMMA LatestIsOne ==
    ASSUME HeatmapInv, NEW codes, codes \subseteq KrCodes \cup UsCodes, codes # {}
    PROVE  LatestBar(codes) \in MapDays
<1>1. {barsTo[c] : c \in codes} \subseteq 0..LastMapDay /\ {barsTo[c] : c \in codes} # {}
  BY DEF HeatmapInv, MapDays
<1> QED
  BY <1>1, GreatestIsMax, HeatmapAssumption DEF LatestBar, MapDays

LEMMA BarIsPast ==
    ASSUME HeatmapInv, NEW c \in KrCodes \cup UsCodes, NEW d \in MapDays
    PROVE  BarUpTo(c, d) \in MapDays /\ BarUpTo(c, d) <= d
<1>1. barsTo[c] \in Nat /\ LastTraded(d) \in Nat /\ LastTraded(d) <= d /\ barsTo[c] \in MapDays
      /\ LastTraded(d) \in MapDays
  BY LastTradedIsPast DEF HeatmapInv, MapDays
<1> DEFINE both == {barsTo[c], LastTraded(d)}
<1>2. both \subseteq Nat /\ both # {}
  BY <1>1
<1>3. Min(both) \in both /\ \A e \in both : Min(both) <= e
  BY <1>2, LeastIsMin
<1> QED
  BY <1>1, <1>3 DEF BarUpTo, MapDays

LEMMA TargetIsADay ==
    ASSUME ClockInv
    PROVE  TargetClose \in MapDays /\ TargetClose <= wall.day /\ wall.day \in MapDays
  BY HeatmapAssumption DEF ClockInv, TargetClose, MapDays

\* What an answer must be for the map to stay honest.
LEMMA ServeIsHonest ==
    ASSUME HeatmapInv, NEW v \in Viewers, NEW from \in {"board", "naver", "bars", "past", "us"},
           NEW asOf \in MapDays, NEW warned \in BOOLEAN, NEW closes, NoneAfter(closes, asOf),
           Serve(v, from, asOf, warned, closes), UNCHANGED <<wall, barsTo>>, SnapshotInv',
           from \in {"board", "naver", "bars"} /\ asOf < TargetClose /\ ~view[v].forced => warned
    PROVE  HeatmapInv'
<1> DEFINE due == TargetClose
           forced == view[v].forced
           answer == [from |-> from, asOf |-> asOf, due |-> due, forced |-> forced,
                      warned |-> warned, closes |-> closes]
<1>1. shown' = answer /\ view' = [view EXCEPT ![v] = AtRest]
  BY DEF Serve
<1>2. due \in MapDays /\ forced \in BOOLEAN
  BY TargetIsADay DEF HeatmapInv, ViewInv, ViewRecord
<1> HIDE DEF due, forced
<1>3. /\ shown'.from = from /\ shown'.asOf = asOf /\ shown'.due = due /\ shown'.forced = forced
      /\ shown'.warned = warned /\ shown'.closes = closes
  BY <1>1
<1>4. MapIsHonest'
  BY <1>3 DEF MapIsHonest, NoneAfter, due, forced
<1>5. AtRest \in ViewRecord /\ AtRest.at = "idle"
  BY HeatmapAssumption DEF AtRest, ViewRecord, MapDays
<1>6. ViewInv'
  BY <1>1, <1>5 DEF HeatmapInv, ViewInv
<1>7. ClockInv'
  BY DEF HeatmapInv, ClockInv
<1>8. barsTo' \in [KrCodes \cup UsCodes -> MapDays]
  BY DEF HeatmapInv
<1> QED
  BY <1>2, <1>3, <1>4, <1>6, <1>7, <1>8 DEF HeatmapInv

\* A step of one request that answers nothing.
LEMMA ViewMoves ==
    ASSUME HeatmapInv, NEW v \in Viewers, NEW moved \in ViewRecord, view' = [view EXCEPT ![v] = moved],
           moved.at \in {"look", "fetch"} => moved.forced \/ moved.stale,
           UNCHANGED <<wall, barsTo, closeCache, shown>>
    PROVE  HeatmapInv'
<1>1. ViewInv'
  BY DEF HeatmapInv, ViewInv
<1> QED
  BY <1>1 DEF HeatmapInv, ClockInv, SnapshotInv, MapIsHonest

LEMMA HeatmapStepInv ==
    ASSUME HeatmapInv, HeatmapNext
    PROVE  HeatmapInv'
<1>0. /\ ClockInv /\ SnapshotInv /\ TargetClose \in MapDays /\ TargetClose <= wall.day /\ wall.day \in MapDays
      /\ \A v \in Viewers : view[v] \in ViewRecord
  BY TargetIsADay DEF HeatmapInv, ViewInv
<1>1. ASSUME NEW v \in Viewers, NEW forced \in BOOLEAN, AskMap(v, forced) PROVE HeatmapInv'
  <2> DEFINE step == IF LiveSession THEN "board" ELSE "latest"
             due == TargetClose
             moved == [AtRest EXCEPT !.at = step, !.forced = forced, !.day = due]
  <2>1. view' = [view EXCEPT ![v] = moved] /\ UNCHANGED <<wall, barsTo, closeCache, shown>>
    BY <1>1 DEF AskMap
  <2>2. step \in {"board", "latest"} /\ due \in MapDays
    BY <1>0
  <2> HIDE DEF step, due
  <2>3. moved \in ViewRecord /\ moved.at = step
    BY <2>2 DEF ViewRecord, AtRest
  <2> HIDE DEF moved
  <2> QED
    BY <2>1, <2>2, <2>3, ViewMoves
<1>2. ASSUME NEW v \in Viewers, NEW d \in MapDays, AskPast(v, d) PROVE HeatmapInv'
  <2> DEFINE moved == [AtRest EXCEPT !.at = "past", !.day = d]
  <2>1. view' = [view EXCEPT ![v] = moved] /\ UNCHANGED <<wall, barsTo, closeCache, shown>>
    BY <1>2 DEF AskPast
  <2>2. moved \in ViewRecord /\ moved.at = "past"
    BY DEF ViewRecord, AtRest
  <2> HIDE DEF moved
  <2> QED
    BY <2>1, <2>2, ViewMoves
<1>3. ASSUME NEW v \in Viewers, CompareLatest(v) PROVE HeatmapInv'
  <2> DEFINE stale == LatestBar(KrCodes) < view[v].day
             step == IF view[v].forced \/ stale THEN "look" ELSE "build"
             moved == [view[v] EXCEPT !.at = step, !.stale = stale]
  <2>1. view' = [view EXCEPT ![v] = moved] /\ UNCHANGED <<wall, barsTo, closeCache, shown>>
    BY <1>3 DEF CompareLatest
  <2>2. step \in {"look", "build"} /\ stale \in BOOLEAN /\ (step = "look" => view[v].forced \/ stale)
    OBVIOUS
  <2> HIDE DEF step, stale
  <2>3. moved \in ViewRecord /\ moved.at = step /\ moved.stale = stale /\ moved.forced = view[v].forced
    BY <1>0, <2>2 DEF ViewRecord
  <2>4. moved.at \in {"look", "fetch"} => moved.forced \/ moved.stale
    BY <2>2, <2>3
  <2> HIDE DEF moved
  <2> QED
    BY <2>1, <2>3, <2>4, ViewMoves
<1>4. ASSUME NEW v \in Viewers, LookInCache(v) PROVE HeatmapInv'
  <2> DEFINE d == view[v].day
             snapshot == closeCache[d]
  <2>1. d \in MapDays /\ view[v].at = "look" /\ UNCHANGED <<wall, barsTo, closeCache>>
        /\ (view[v].forced \/ view[v].stale) /\ view[v].stale \in BOOLEAN
    BY <1>0, <1>4 DEF LookInCache, ViewRecord, HeatmapInv, ViewInv
  <2>2. CASE snapshot = NoSnapshot
    <3> DEFINE moved == [view[v] EXCEPT !.at = "fetch"]
    <3>1. view' = [view EXCEPT ![v] = moved] /\ UNCHANGED shown
      BY <1>4, <2>2 DEF LookInCache, Step
    <3>2. moved \in ViewRecord /\ moved.forced = view[v].forced /\ moved.stale = view[v].stale
      BY <1>0 DEF ViewRecord
    <3> HIDE DEF moved
    <3> QED
      BY <2>1, <3>1, <3>2, ViewMoves
  <2>3. CASE snapshot # NoSnapshot
    <3> DEFINE stale == view[v].stale
    <3>1. Serve(v, "naver", d, stale, snapshot)
      BY <1>4, <2>3 DEF LookInCache
    <3>2. NoneAfter(snapshot, d)
      BY <1>0, <2>1, <2>3 DEF SnapshotInv
    <3>3. SnapshotInv'
      BY <1>0, <2>1 DEF SnapshotInv
    <3>4. ~view[v].forced => stale
      BY <2>1
    <3>5. d \in MapDays /\ stale \in BOOLEAN /\ UNCHANGED <<wall, barsTo>>
      BY <2>1
    <3> HIDE DEF d, stale, snapshot
    <3> QED
      BY <3>1, <3>2, <3>3, <3>4, <3>5, ServeIsHonest
  <2> QED
    BY <2>2, <2>3
<1>5. ASSUME NEW v \in Viewers, FetchCloses(v) PROVE HeatmapInv'
  <2> DEFINE d == view[v].day
             stale == view[v].stale
  <2>1. d \in MapDays /\ view[v].at = "fetch" /\ UNCHANGED <<wall, barsTo>>
        /\ (view[v].forced \/ stale) /\ stale \in BOOLEAN
    BY <1>0, <1>5 DEF FetchCloses, ViewRecord, HeatmapInv, ViewInv
  <2>2. PICK answered \in SUBSET KrCodes :
           LET closes == [c \in answered |-> CloseUpTo(d)]
           IN IF answered # {}
              THEN /\ closeCache' = [closeCache EXCEPT ![d] = closes]
                   /\ Serve(v, "naver", d, stale, closes)
              ELSE /\ view' = [view EXCEPT ![v] =
                          IF d > 0 THEN [view[v] EXCEPT !.at = "look", !.day = d - 1]
                          ELSE [view[v] EXCEPT !.at = "build", !.warned = TRUE]]
                   /\ UNCHANGED <<closeCache, shown>>
    BY <1>5 DEF FetchCloses
  <2> DEFINE closes == [c \in answered |-> CloseUpTo(d)]
  <2>3. CASE answered # {}
    <3>1. closeCache' = [closeCache EXCEPT ![d] = closes] /\ Serve(v, "naver", d, stale, closes)
      BY <2>2, <2>3
    <3>2. CloseUpTo(d) \in MapDays /\ CloseUpTo(d) <= d
      BY <2>1, LastTradedIsPast DEF CloseUpTo
    <3>3. closes \in CloseMaps /\ NoneAfter(closes, d)
      <4>1. closes \in [answered -> MapDays]
        BY <3>2
      <4> QED
        BY <3>2, <4>1 DEF CloseMaps, NoneAfter
    <3>4. ~view[v].forced => stale
      BY <2>1
    <3>5. d \in MapDays /\ stale \in BOOLEAN /\ UNCHANGED <<wall, barsTo>>
      BY <2>1
    <3> HIDE DEF d, stale, closes
    <3>6. SnapshotInv'
      BY <1>0, <3>1, <3>3, <3>5 DEF SnapshotInv
    <3> QED
      BY <3>1, <3>3, <3>4, <3>5, <3>6, ServeIsHonest
  <2>4. CASE answered = {}
    <3>1. UNCHANGED <<closeCache, shown>>
          /\ view' = [view EXCEPT ![v] = IF d > 0 THEN [view[v] EXCEPT !.at = "look", !.day = d - 1]
                                         ELSE [view[v] EXCEPT !.at = "build", !.warned = TRUE]]
      BY <2>2, <2>4
    <3>2. CASE d > 0
      <4> DEFINE before == d - 1
                 moved == [view[v] EXCEPT !.at = "look", !.day = before]
      <4>1. view' = [view EXCEPT ![v] = moved]
        BY <3>1, <3>2
      <4>2. before \in MapDays
        BY <2>1, <3>2, HeatmapAssumption DEF MapDays
      <4> HIDE DEF before
      <4>3. moved \in ViewRecord /\ moved.forced = view[v].forced /\ moved.stale = view[v].stale
        BY <1>0, <4>2 DEF ViewRecord
      <4> HIDE DEF moved
      <4> QED
        BY <2>1, <3>1, <4>1, <4>3, ViewMoves
    <3>3. CASE ~(d > 0)
      <4> DEFINE moved == [view[v] EXCEPT !.at = "build", !.warned = TRUE]
      <4>1. view' = [view EXCEPT ![v] = moved]
        BY <3>1, <3>3
      <4>3. moved \in ViewRecord /\ moved.at = "build"
        BY <1>0 DEF ViewRecord
      <4> HIDE DEF moved
      <4> QED
        BY <2>1, <3>1, <4>1, <4>3, ViewMoves
    <3> QED
      BY <3>2, <3>3
  <2> QED
    BY <2>3, <2>4
<1>6. ASSUME NEW v \in Viewers, ReadLiveBoard(v) PROVE HeatmapInv'
  <2>1. view[v].at = "board" /\ UNCHANGED <<wall, barsTo, closeCache>>
    BY <1>6 DEF ReadLiveBoard
  <2>2. CASE \E priced \in SUBSET KrCodes \ {{}} :
                Serve(v, "board", wall.day, priced # KrCodes, [c \in priced |-> wall.day])
    <3>1. PICK priced \in SUBSET KrCodes :
             Serve(v, "board", wall.day, priced # KrCodes, [c \in priced |-> wall.day])
      BY <2>2
    <3> DEFINE day == wall.day
               some == priced # KrCodes
               closes == [c \in priced |-> day]
    <3>2. Serve(v, "board", day, some, closes)
      BY <3>1
    <3>3. day \in MapDays /\ some \in BOOLEAN /\ ~(day < TargetClose)
      BY <1>0 DEF MapDays
    <3>4. NoneAfter(closes, day)
      BY <3>3 DEF NoneAfter, MapDays
    <3>5. SnapshotInv'
      BY <1>0, <2>1 DEF SnapshotInv
    <3> HIDE DEF day, some, closes
    <3> QED
      BY <2>1, <3>2, <3>3, <3>4, <3>5, ServeIsHonest
  <2>3. CASE \E failed \in BOOLEAN :
                view' = [view EXCEPT ![v].at = "build", ![v].warned = failed] /\ UNCHANGED shown
    <3>1. PICK failed \in BOOLEAN :
             view' = [view EXCEPT ![v].at = "build", ![v].warned = failed] /\ UNCHANGED shown
      BY <2>3
    <3> DEFINE moved == [view[v] EXCEPT !.at = "build", !.warned = failed]
    <3>2. view' = [view EXCEPT ![v] = moved]
      BY <3>1
    <3>3. moved \in ViewRecord /\ moved.at = "build"
      BY <1>0 DEF ViewRecord
    <3> HIDE DEF moved
    <3> QED
      BY <2>1, <3>1, <3>2, <3>3, ViewMoves
  <2> QED
    BY <1>6, <2>2, <2>3 DEF ReadLiveBoard
<1>7. ASSUME NEW v \in Viewers, BuildMap(v) PROVE HeatmapInv'
  <2> DEFINE latest == LatestBar(KrCodes)
             warned == view[v].warned \/ OlderThanDue(latest)
             closes == [c \in KrCodes |-> BarUpTo(c, latest)]
  <2>1. Serve(v, "bars", latest, warned, closes) /\ UNCHANGED <<wall, barsTo, closeCache>>
    BY <1>7 DEF BuildMap
  <2>2. latest \in MapDays /\ warned \in BOOLEAN
    BY LatestIsOne, HeatmapAssumption
  <2>3. NoneAfter(closes, latest)
    BY <2>2, BarIsPast DEF NoneAfter
  <2>4. latest < TargetClose => warned
    BY DEF OlderThanDue
  <2>5. SnapshotInv'
    BY <1>0, <2>1 DEF SnapshotInv
  <2> HIDE DEF latest, warned, closes
  <2> QED
    BY <2>1, <2>2, <2>3, <2>4, <2>5, ServeIsHonest
<1>8. ASSUME NEW v \in Viewers, BuildPastMap(v) PROVE HeatmapInv'
  <2> DEFINE d == view[v].day
             closes == [c \in KrCodes |-> BarUpTo(c, d)]
  <2>1. Serve(v, "past", d, FALSE, closes) /\ UNCHANGED <<wall, barsTo, closeCache>>
    BY <1>8 DEF BuildPastMap
  <2>2. d \in MapDays
    BY <1>0 DEF ViewRecord
  <2>3. NoneAfter(closes, d)
    BY <2>2, BarIsPast DEF NoneAfter
  <2>5. SnapshotInv'
    BY <1>0, <2>1 DEF SnapshotInv
  <2> HIDE DEF d, closes
  <2> QED
    BY <2>1, <2>2, <2>3, <2>5, ServeIsHonest
<1>9. ASSUME NEW v \in Viewers, BuildUsMap(v) PROVE HeatmapInv'
  <2> DEFINE latest == LatestBar(UsCodes)
             closes == [c \in UsCodes |-> BarUpTo(c, latest)]
  <2>1. Serve(v, "us", latest, FALSE, closes) /\ UNCHANGED <<wall, barsTo, closeCache>>
    BY <1>9 DEF BuildUsMap
  <2>2. latest \in MapDays
    BY LatestIsOne, HeatmapAssumption
  <2>3. NoneAfter(closes, latest)
    BY <2>2, BarIsPast DEF NoneAfter
  <2>5. SnapshotInv'
    BY <1>0, <2>1 DEF SnapshotInv
  <2> HIDE DEF latest, closes
  <2> QED
    BY <2>1, <2>2, <2>3, <2>5, ServeIsHonest
<1>10. ASSUME NextPhase PROVE HeatmapInv'
  <2>1. ClockInv'
    <3>1. CASE wall.phase < 4
      <4> DEFINE phase == wall.phase + 1
      <4>1. wall' = [wall EXCEPT !.phase = phase]
        BY <1>10, <3>1 DEF NextPhase
      <4>2. phase \in 1..4
        BY <1>0, <3>1 DEF ClockInv
      <4> HIDE DEF phase
      <4> QED
        BY <1>0, <4>1, <4>2 DEF ClockInv
    <3>2. CASE ~(wall.phase < 4)
      <4> DEFINE day == wall.day + 1
      <4>1. wall' = [day |-> day, phase |-> 1] /\ wall.day < LastMapDay
        BY <1>10, <3>2 DEF NextPhase
      <4>2. day \in MapDays \ {0}
        BY <1>0, <4>1, HeatmapAssumption DEF MapDays
      <4> HIDE DEF day
      <4> QED
        BY <4>1, <4>2 DEF ClockInv
    <3> QED
      BY <3>1, <3>2
  <2>2. UNCHANGED <<barsTo, closeCache, view, shown>>
    BY <1>10 DEF NextPhase
  <2> QED
    BY <2>1, <2>2 DEF HeatmapInv, SnapshotInv, ViewInv, MapIsHonest
<1>11. ASSUME NEW c \in KrCodes \cup UsCodes, LoadBars(c) PROVE HeatmapInv'
  <2> DEFINE day == LastTraded(TargetClose)
  <2>1. barsTo' = [barsTo EXCEPT ![c] = day] /\ UNCHANGED <<wall, closeCache, view, shown>>
    BY <1>11 DEF LoadBars
  <2>2. day \in MapDays
    BY <1>0, LastTradedIsPast
  <2> HIDE DEF day
  <2>3. barsTo' \in [KrCodes \cup UsCodes -> MapDays]
    BY <2>1, <2>2 DEF HeatmapInv
  <2> QED
    BY <2>1, <2>3 DEF HeatmapInv, ClockInv, SnapshotInv, ViewInv, MapIsHonest
<1> QED
  BY <1>1, <1>2, <1>3, <1>4, <1>5, <1>6, <1>7, <1>8, <1>9, <1>10, <1>11 DEF HeatmapNext

LEMMA HeatmapInitInv ==
    ASSUME HeatmapInit
    PROVE  HeatmapInv
<1>1. 0 \in MapDays /\ 1 \in MapDays \ {0}
  BY HeatmapAssumption DEF MapDays
<1>2. ClockInv
  BY <1>1 DEF HeatmapInit, ClockInv
<1>3. SnapshotInv
  BY DEF HeatmapInit, SnapshotInv
<1>4. AtRest \in ViewRecord /\ AtRest.at = "idle"
  BY <1>1 DEF AtRest, ViewRecord
<1>5. ViewInv
  BY <1>4 DEF HeatmapInit, ViewInv
<1>6. /\ shown.from = "nothing" /\ shown.asOf = 0 /\ shown.due = 0 /\ shown.forced = FALSE
      /\ shown.warned = FALSE /\ shown.closes = <<>>
  BY DEF HeatmapInit, NothingShown
<1>7. MapIsHonest
  BY <1>6 DEF MapIsHonest
<1>8. barsTo \in [KrCodes \cup UsCodes -> MapDays]
  BY <1>1 DEF HeatmapInit
<1> QED
  BY <1>1, <1>2, <1>3, <1>5, <1>6, <1>7, <1>8 DEF HeatmapInv

LEMMA HeatmapQuietInv ==
    ASSUME HeatmapInv, UNCHANGED heatmapVars
    PROVE  HeatmapInv'
  BY DEF heatmapVars, HeatmapInv, ClockInv, SnapshotInv, ViewInv, MapIsHonest

LEMMA HeatmapInvHolds ==
    ASSUME HeatmapInv
    PROVE  HeatmapTypeOK /\ MapIsHonest
<1>1. wall \in [day : MapDays, phase : 1..4]
  BY DEF HeatmapInv, ClockInv
<1> QED
  BY <1>1 DEF HeatmapInv, SnapshotInv, ViewInv, ViewRecord, HeatmapTypeOK

-----------------------------------------------------------------------------
(* The insights of a day.                                                      *)

Places == 1..Cardinality(Ranked)
Remarks == {Nothing} \cup [of : Prompts, by : {"model", "fallback"}]
InsightRows == [rank : Places, comment : Remarks]
Making == [at : {"idle", "rows", "answer", "keep", "store"}, prompt : Prompts]
Advice == [loaded : {"none", "part", "whole"}, target : {Nothing, "part", "whole"}]

InsightsTyped ==
    /\ rows \in [DOMAIN rows -> InsightRows] /\ DOMAIN rows \subseteq Ranked
    /\ inflight \in BOOLEAN /\ moded \in BOOLEAN /\ commentMode \in {"on_view", "scheduled"}
    /\ making \in [Writers -> Making]
    /\ reading \in [Readers -> {"idle", "rows", "plain"}]
    /\ answers \subseteq Prompts
    /\ DOMAIN paid \subseteq Prompts /\ paid \in [DOMAIN paid -> Nat]
    /\ DOMAIN unkept \subseteq Prompts /\ unkept \in [DOMAIN unkept -> Nat]
    /\ analyses \in 0..MaxAnalyses /\ restarts \in 0..MaxRestarts /\ misses \in 0..MaxUnkept
    /\ advice \in Advice

InFlightIsMade == inflight => \E r \in Readers : making[r].at # "idle"

\* In the mode of the start: a commentary is made by one reader, who holds the key, or by
\* the report.
OneBuyer ==
    ~moded /\ restarts = 0 =>
       /\ commentMode = "on_view" => making["report"].at = "idle"
       /\ commentMode = "scheduled" => \A r \in Readers : making[r].at = "idle"
       /\ \A r \in Readers : making[r].at # "idle" => inflight
       /\ \A q, r \in Readers : making[q].at # "idle" /\ making[r].at # "idle" => q = r

\* A commentary that was paid for is kept, about to be kept, or lost; none is bought that
\* is kept.
Held(p) ==
    p \in answers \/ \E w \in Writers : making[w].at = "keep" /\ making[w].prompt = p
PaidForOnce ==
    ~moded /\ restarts = 0 =>
       /\ \A p \in Prompts :
             \/ HowOften(paid, p) <= HowOften(unkept, p)
             \/ Held(p) /\ HowOften(paid, p) <= HowOften(unkept, p) + 1
       /\ \A w \in Writers :
             making[w].at \in {"answer", "keep"} => making[w].prompt \notin answers

InsightsInv == InsightsTyped /\ InFlightIsMade /\ OneBuyer /\ PaidForOnce

LEMMA OnceMoreCounts ==
    ASSUME NEW f, NEW g, NEW p \in Prompts, g = OnceMore(f, p),
           f \in [DOMAIN f -> Nat], DOMAIN f \subseteq Prompts
    PROVE  /\ g \in [DOMAIN g -> Nat] /\ DOMAIN g \subseteq Prompts
           /\ HowOften(g, p) = HowOften(f, p) + 1
           /\ \A q : HowOften(f, q) \in Nat /\ (q # p => HowOften(g, q) = HowOften(f, q))
<1>1. \A q : HowOften(f, q) \in Nat
  BY DEF HowOften
<1>2. g = [q \in DOMAIN f \cup {p} |-> HowOften(f, q) + (IF q = p THEN 1 ELSE 0)]
  BY DEF OnceMore
<1>3. /\ g \in [DOMAIN f \cup {p} -> Nat] /\ DOMAIN g = DOMAIN f \cup {p}
      /\ g[p] = HowOften(f, p) + 1 /\ \A q \in DOMAIN f \ {p} : g[q] = HowOften(f, q)
  BY <1>1, <1>2
<1>4. HowOften(g, p) = g[p] /\ \A q \in DOMAIN f \ {p} : HowOften(g, q) = g[q]
  BY <1>3 DEF HowOften
<1>5. \A q : q \notin DOMAIN f \cup {p} => HowOften(g, q) = 0 /\ HowOften(f, q) = 0
  BY <1>3 DEF HowOften
<1> QED
  BY <1>1, <1>3, <1>4, <1>5

\* Nothing is bought or lost, and who is about to keep an answer stays so.
LEMMA StaysPaidFor ==
    ASSUME PaidForOnce, UNCHANGED <<paid, unkept, answers, restarts>>, moded' \/ UNCHANGED moded,
           \A w \in Writers : making[w].at = "keep" => making'[w] = making[w],
           \A w \in Writers : making'[w].at \in {"answer", "keep"} =>
              making'[w] = making[w] \/ making'[w].prompt \notin answers
    PROVE  PaidForOnce'
<1>1. \A p : HowOften(paid, p)' = HowOften(paid, p) /\ HowOften(unkept, p)' = HowOften(unkept, p)
  BY DEF HowOften
<1>2. \A p : Held(p) => Held(p)'
  BY DEF Held
<1> QED
  BY <1>1, <1>2 DEF PaidForOnce

LEMMA RankIsAPlace ==
    ASSUME NEW r \in Analyses, NEW i \in DOMAIN r
    PROVE  i \in Places
<1>1. r \in Seq(Range(r)) /\ IsInjective(r) /\ Range(r) \subseteq Ranked /\ IsFiniteSet(Ranked)
  BY InsightsAssumption DEF Ranked
<1>2. Len(r) \in Nat /\ DOMAIN r = 1..Len(r) /\ r \in [1..Len(r) -> Ranked]
  BY <1>1 DEF Range
<1>3. r \in Injection(1..Len(r), Ranked)
  BY <1>1, <1>2 DEF Injection, IsInjective
<1>4. Cardinality(1..Len(r)) <= Cardinality(Ranked) /\ Cardinality(1..Len(r)) = Len(r)
      /\ Cardinality(Ranked) \in Nat
  BY <1>1, <1>2, <1>3, FS_Injection, FS_Interval, FS_CardinalityType
<1> QED
  BY <1>2, <1>4 DEF Places

LEMMA NoWriterIsOne == NoWriter \in Making /\ NoWriter.at = "idle" /\ <<>> \in Prompts
<1>1. <<>> \in [{} -> 1..Cardinality(Ranked)]
  OBVIOUS
<1>2. <<>> \in Prompts
  BY <1>1 DEF Prompts
<1> QED
  BY <1>2 DEF NoWriter, Making

LEMMA RanksArePrompts ==
    ASSUME InsightsTyped
    PROVE  RanksOf \in Prompts
<1>1. RanksOf \in [DOMAIN rows -> 1..Cardinality(Ranked)] /\ DOMAIN rows \in SUBSET Ranked
  BY DEF RanksOf, InsightsTyped, InsightRows, Places
<1> QED
  BY <1>1 DEF Prompts

LEMMA CommentedRows ==
    ASSUME InsightsTyped, NEW w \in Writers, NEW by \in {"model", "fallback"}
    PROVE  /\ Commented(Comment(w, by)) \in [DOMAIN rows -> InsightRows]
           /\ DOMAIN Commented(Comment(w, by)) = DOMAIN rows
<1> DEFINE remark == Comment(w, by)
<1>1. remark \in Remarks
  BY DEF Comment, Remarks, InsightsTyped, Making
<1> HIDE DEF remark
<1>2. \A s \in DOMAIN rows : [rows[s] EXCEPT !.comment = remark] \in InsightRows
  BY <1>1 DEF InsightsTyped, InsightRows
<1>3. Commented(remark) \in [DOMAIN rows -> InsightRows] /\ DOMAIN Commented(remark) = DOMAIN rows
  BY <1>2 DEF Commented
<1> QED
  BY <1>3 DEF remark

LEMMA InsightsStepInv ==
    ASSUME InsightsInv, InsightsNext
    PROVE  InsightsInv'
<1> USE InsightsAssumption
<1>0. /\ InsightsTyped /\ InFlightIsMade /\ OneBuyer /\ "report" \in Writers /\ Readers \subseteq Writers
      /\ \A w \in Writers : making[w] \in Making
  BY DEF InsightsInv, InsightsTyped, Writers
<1>0a. /\ PaidForOnce
       /\ UNCHANGED <<paid, unkept, answers, restarts, moded, making>> => PaidForOnce'
  BY StaysPaidFor DEF InsightsInv
<1>1. ASSUME RunAnalysis PROVE InsightsInv'
  <2>1. PICK r \in Analyses : rows' = Persisted(r)
    BY <1>1 DEF RunAnalysis
  <2>2. /\ UNCHANGED <<inflight, making, reading, commentMode, answers, paid, unkept, misses,
                       restarts, moded, advice>>
        /\ analyses < MaxAnalyses /\ analyses' = analyses + 1
    BY <1>1 DEF RunAnalysis
  <2> DEFINE place(s) == CHOOSE i \in DOMAIN r : r[i] = s
  <2>3. \A s \in Range(r) : place(s) \in Places
    BY RankIsAPlace DEF Range
  <2> HIDE DEF place
  <2>4. rows' = [s \in DOMAIN rows \cup Range(r) |->
                   IF s \in Range(r) THEN [rank |-> place(s), comment |-> Nothing] ELSE rows[s]]
    BY <2>1 DEF Persisted, place
  <2>5. rows' \in [DOMAIN rows' -> InsightRows] /\ DOMAIN rows' \subseteq Ranked
    <3>1. \A s \in Range(r) : [rank |-> place(s), comment |-> Nothing] \in InsightRows
      BY <2>3 DEF InsightRows, Remarks
    <3>2. \A s \in DOMAIN rows : rows[s] \in InsightRows
      BY <1>0 DEF InsightsTyped
    <3> QED
      BY <1>0, <2>4, <3>1, <3>2 DEF InsightsTyped, Ranked
  <2>6. analyses' \in 0..MaxAnalyses
    BY <1>0, <2>2 DEF InsightsTyped
  <2> QED
    BY <1>0, <1>0a, <2>2, <2>5, <2>6 DEF InsightsInv, InsightsTyped, InFlightIsMade, OneBuyer
<1>2. ASSUME NEW r \in Readers, ReadInsights(r) PROVE InsightsInv'
  <2>1. /\ reading' = [reading EXCEPT ![r] = IF HasCommentary THEN "rows" ELSE "plain"]
        /\ UNCHANGED <<rows, inflight, making, commentMode, answers, paid, unkept, misses, analyses,
                       restarts, moded, advice>>
    BY <1>2 DEF ReadInsights, bounds
  <2>2. reading' \in [Readers -> {"idle", "rows", "plain"}]
    BY <1>0, <2>1 DEF InsightsTyped
  <2> QED
    BY <1>0, <1>0a, <2>1, <2>2 DEF InsightsInv, InsightsTyped, InFlightIsMade, OneBuyer
<1>3. ASSUME NEW r \in Readers, DecideOnCommentary(r) PROVE InsightsInv'
  <2>1. /\ reading' = [reading EXCEPT ![r] = "idle"]
        /\ UNCHANGED <<rows, commentMode, answers, paid, unkept, misses, analyses,
                       restarts, moded, advice>>
    BY <1>3 DEF DecideOnCommentary, bounds
  <2>2. reading' \in [Readers -> {"idle", "rows", "plain"}]
    BY <1>0, <2>1 DEF InsightsTyped
  <2>3. CASE MaySchedule(r)
    <3> DEFINE moved == [making[r] EXCEPT !.at = "rows"]
    <3>1. inflight' = TRUE /\ making' = [making EXCEPT ![r] = moved] /\ ~inflight
          /\ commentMode = "on_view"
      BY <1>3, <2>3 DEF DecideOnCommentary, MaySchedule
    <3>2. moved \in Making /\ moved.at = "rows"
      BY <1>0 DEF Making
    <3> HIDE DEF moved
    <3>3. making' \in [Writers -> Making] /\ making'[r] = moved
          /\ \A w \in Writers \ {r} : making'[w] = making[w]
      BY <1>0, <3>1, <3>2 DEF InsightsTyped
    <3>4. InsightsTyped'
      BY <1>0, <2>1, <2>2, <3>1, <3>3 DEF InsightsTyped
    <3>5. InFlightIsMade'
      BY <3>2, <3>3 DEF InFlightIsMade
    <3>6. OneBuyer'
      BY <1>0, <2>1, <3>1, <3>2, <3>3 DEF OneBuyer
    <3>7. PaidForOnce'
      <4>1. CASE ~moded /\ restarts = 0
        <5>1. making[r].at = "idle"
          BY <1>0, <3>1, <4>1 DEF OneBuyer
        <5> QED
          BY <1>0, <1>0a, <2>1, <3>2, <3>3, <5>1, StaysPaidFor
      <4>2. CASE ~(~moded /\ restarts = 0)
        BY <2>1, <4>2 DEF PaidForOnce
      <4> QED
        BY <4>1, <4>2
    <3> QED
      BY <3>4, <3>5, <3>6, <3>7 DEF InsightsInv
  <2>4. CASE ~MaySchedule(r)
    <3>1. UNCHANGED <<inflight, making>>
      BY <1>3, <2>4 DEF DecideOnCommentary
    <3> QED
      BY <1>0, <1>0a, <2>1, <2>2, <3>1 DEF InsightsInv, InsightsTyped, InFlightIsMade, OneBuyer
  <2> QED
    BY <2>3, <2>4
<1>4. ASSUME StartReport PROVE InsightsInv'
  <2> DEFINE moved == [making["report"] EXCEPT !.at = "rows"]
  <2>1. /\ making' = [making EXCEPT !["report"] = moved] /\ commentMode = "scheduled"
        /\ UNCHANGED <<rows, inflight, reading, commentMode, answers, paid, unkept, misses, analyses,
                       restarts, moded, advice>>
    BY <1>4 DEF StartReport, bounds
  <2>2. moved \in Making /\ moved.at = "rows"
    BY <1>0 DEF Making
  <2> HIDE DEF moved
  <2>3. making' \in [Writers -> Making] /\ making'["report"] = moved
        /\ \A w \in Writers \ {"report"} : making'[w] = making[w]
    BY <1>0, <2>1, <2>2 DEF InsightsTyped
  <2>4. \A r \in Readers : making'[r] = making[r]
    BY <1>0, <2>3
  <2>5. making["report"].at = "idle"
    BY <1>4 DEF StartReport
  <2>6. PaidForOnce'
    BY <1>0a, <2>1, <2>2, <2>3, <2>5, StaysPaidFor
  <2> QED
    BY <1>0, <2>1, <2>2, <2>3, <2>4, <2>6 DEF InsightsInv, InsightsTyped, InFlightIsMade, OneBuyer
<1>5. ASSUME NEW w \in Writers, LoadRows(w) PROVE InsightsInv'
  <2> DEFINE step == IF RanksOf \in answers THEN "store" ELSE "answer"
             moved == [at |-> step, prompt |-> RanksOf]
  <2>1. /\ making' = [making EXCEPT ![w] = moved] /\ making[w].at = "rows"
        /\ UNCHANGED <<rows, inflight, reading, commentMode, answers, paid, unkept, misses, analyses,
                       restarts, moded, advice>>
    BY <1>5 DEF LoadRows, bounds
  <2>2. moved \in Making /\ moved.at = step /\ moved.prompt = RanksOf
        /\ step \in {"store", "answer"} /\ (step = "answer" => RanksOf \notin answers)
    BY <1>0, RanksArePrompts DEF Making
  <2> HIDE DEF moved, step
  <2>3. making' \in [Writers -> Making] /\ making'[w] = moved
        /\ \A v \in Writers \ {w} : making'[v] = making[v]
    BY <1>0, <2>1, <2>2 DEF InsightsTyped
  <2>4. \A v \in Writers : making'[v].at = "idle" <=> making[v].at = "idle"
    BY <2>1, <2>2, <2>3
  <2>5. InsightsTyped'
    BY <1>0, <2>1, <2>3 DEF InsightsTyped
  <2>6. InFlightIsMade'
    BY <1>0, <2>1, <2>4 DEF InFlightIsMade
  <2>7. PaidForOnce'
    BY <1>0a, <2>1, <2>2, <2>3, StaysPaidFor
  <2>8. OneBuyer'
    BY <1>0, <2>1, <2>4 DEF OneBuyer
  <2> QED
    BY <2>5, <2>6, <2>7, <2>8 DEF InsightsInv
\* Who is at work on an answer stays at work, and everybody else is idle.
<1>6. ASSUME NEW w \in Writers, making[w].at \in {"answer", "keep"},
             NEW next \in {"answer", "keep", "store"}, making' = [making EXCEPT ![w].at = next],
             UNCHANGED <<rows, inflight, reading, commentMode, analyses, restarts, moded, advice>>,
             answers' \subseteq Prompts, misses' \in 0..MaxUnkept,
             DOMAIN paid' \subseteq Prompts, paid' \in [DOMAIN paid' -> Nat],
             DOMAIN unkept' \subseteq Prompts, unkept' \in [DOMAIN unkept' -> Nat]
      PROVE  /\ InsightsTyped' /\ InFlightIsMade' /\ OneBuyer'
             /\ making'[w].at = next /\ making'[w].prompt = making[w].prompt
             /\ \A v \in Writers \ {w} : making'[v] = making[v]
             /\ ~moded /\ restarts = 0 => \A v \in Writers \ {w} : making[v].at = "idle"
  <2> DEFINE moved == [making[w] EXCEPT !.at = next]
  <2>1. moved \in Making /\ moved.at = next /\ moved.prompt = making[w].prompt
        /\ making' = [making EXCEPT ![w] = moved]
    BY <1>0, <1>6 DEF Making
  <2> HIDE DEF moved
  <2>2. making' \in [Writers -> Making] /\ making'[w] = moved
        /\ \A v \in Writers \ {w} : making'[v] = making[v]
    BY <1>0, <2>1 DEF InsightsTyped
  <2>3. \A v \in Writers : making'[v].at = "idle" <=> making[v].at = "idle"
    BY <1>6, <2>1, <2>2
  <2>4. InsightsTyped'
    BY <1>0, <1>6, <2>2 DEF InsightsTyped
  <2>5. InFlightIsMade'
    BY <1>0, <1>6, <2>3 DEF InFlightIsMade
  <2>6. OneBuyer'
    BY <1>0, <1>6, <2>3 DEF OneBuyer
  <2>7. ~moded /\ restarts = 0 => \A v \in Writers \ {w} : making[v].at = "idle"
    BY <1>0, <1>6 DEF OneBuyer, Writers, InsightsTyped
  <2> QED
    BY <2>1, <2>2, <2>4, <2>5, <2>6, <2>7
<1>6a. ASSUME NEW w \in Writers, HearCommentary(w) PROVE InsightsInv'
  <2> DEFINE prompt == making[w].prompt
  <2>1. /\ making' = [making EXCEPT ![w].at = "keep"] /\ making[w].at = "answer"
        /\ paid' = OnceMore(paid, prompt)
        /\ UNCHANGED <<rows, inflight, reading, commentMode, answers, unkept, misses, analyses,
                       restarts, moded, advice>>
    BY <1>6a DEF HearCommentary, bounds
  <2>2. prompt \in Prompts
    BY <1>0 DEF Making
  <2>3. /\ paid' \in [DOMAIN paid' -> Nat] /\ DOMAIN paid' \subseteq Prompts
        /\ HowOften(paid', prompt) = HowOften(paid, prompt) + 1
        /\ \A p \in Prompts \ {prompt} : HowOften(paid', p) = HowOften(paid, p)
    <3>1. paid \in [DOMAIN paid -> Nat] /\ DOMAIN paid \subseteq Prompts
      BY <1>0 DEF InsightsTyped
    <3>2. paid' = OnceMore(paid, prompt)
      BY <2>1
    <3> HIDE DEF prompt
    <3> QED
      BY ONLY <2>2, <3>1, <3>2, OnceMoreCounts
  <2>4. /\ InsightsTyped' /\ InFlightIsMade' /\ OneBuyer'
        /\ making'[w].at = "keep" /\ making'[w].prompt = prompt
        /\ \A v \in Writers \ {w} : making'[v] = making[v]
        /\ ~moded /\ restarts = 0 => \A v \in Writers \ {w} : making[v].at = "idle"
    BY <1>0, <1>6, <2>1, <2>3 DEF InsightsTyped
  <2>5. PaidForOnce'
    <3> SUFFICES ASSUME ~moded, restarts = 0 PROVE PaidForOnce'
      BY <2>1 DEF PaidForOnce
    <3>1. prompt \notin answers /\ ~Held(prompt)
      BY <1>0a, <2>1, <2>4 DEF PaidForOnce, Held
    <3>2. \A p \in Prompts : Held(p) => Held(p)'
      BY <2>1, <2>4 DEF Held
    <3>3. Held(prompt)'
      BY <2>4 DEF Held
    <3>4. \A v \in Writers : making'[v].at \in {"answer", "keep"} => making'[v].prompt \notin answers'
      BY <2>1, <2>4, <3>1
    <3>5. \A p \in Prompts :
             \/ HowOften(paid, p)' <= HowOften(unkept, p)'
             \/ Held(p)' /\ HowOften(paid, p)' <= HowOften(unkept, p)' + 1
      <4>1. \A p \in Prompts : /\ HowOften(paid, p) \in Nat /\ HowOften(unkept, p) \in Nat
                               /\ HowOften(unkept, p)' = HowOften(unkept, p)
        BY <1>0, <2>1, OnceMoreCounts DEF InsightsTyped, HowOften
      <4>2. \A p : HowOften(paid, p)' = HowOften(paid', p)
        BY DEF HowOften
      <4>3. \A p \in Prompts :
               \/ HowOften(paid, p) <= HowOften(unkept, p)
               \/ Held(p) /\ HowOften(paid, p) <= HowOften(unkept, p) + 1
        BY <1>0a DEF PaidForOnce
      <4> SUFFICES ASSUME NEW p \in Prompts
                   PROVE  \/ HowOften(paid, p)' <= HowOften(unkept, p)'
                          \/ Held(p)' /\ HowOften(paid, p)' <= HowOften(unkept, p)' + 1
        OBVIOUS
      <4>4. CASE p = prompt
        <5>1. HowOften(paid, p) <= HowOften(unkept, p) /\ HowOften(paid', p) = HowOften(paid, p) + 1
          BY <2>3, <3>1, <4>3, <4>4
        <5>2. Held(p)'
          <6>1. \E v \in Writers : making'[v].at = "keep" /\ making'[v].prompt = p
            BY <2>4, <4>4
          <6> QED
            BY ONLY <6>1 DEF Held
        <5>3. /\ HowOften(paid, p)' = HowOften(paid', p)
              /\ HowOften(unkept, p)' = HowOften(unkept, p)
              /\ HowOften(paid, p) \in Nat /\ HowOften(unkept, p) \in Nat
          BY <4>1, <4>2
        <5> QED
          BY ONLY <5>1, <5>2, <5>3
      <4>5. CASE p # prompt
        <5>1. HowOften(paid', p) = HowOften(paid, p)
          BY <2>3, <4>5
        <5> QED
          BY <3>2, <4>1, <4>2, <4>3, <5>1
      <4> QED
        BY <4>4, <4>5
    <3> QED
      BY <3>4, <3>5 DEF PaidForOnce
  <2> QED
    BY <2>4, <2>5 DEF InsightsInv
<1>6b. ASSUME NEW w \in Writers, KeepCommentary(w) PROVE InsightsInv'
  <2> DEFINE prompt == making[w].prompt
  <2>1. /\ making' = [making EXCEPT ![w].at = "store"] /\ making[w].at = "keep"
        /\ answers' = answers \cup {prompt}
        /\ UNCHANGED <<rows, inflight, reading, commentMode, paid, unkept, misses, analyses,
                       restarts, moded, advice>>
    BY <1>6b DEF KeepCommentary, bounds
  <2>2. prompt \in Prompts
    BY <1>0 DEF Making
  <2>3. /\ InsightsTyped' /\ InFlightIsMade' /\ OneBuyer'
        /\ making'[w].at = "store" /\ making'[w].prompt = prompt
        /\ \A v \in Writers \ {w} : making'[v] = making[v]
        /\ ~moded /\ restarts = 0 => \A v \in Writers \ {w} : making[v].at = "idle"
    BY <1>0, <1>6, <2>1, <2>2 DEF InsightsTyped
  <2>4. PaidForOnce'
    <3> SUFFICES ASSUME ~moded, restarts = 0 PROVE PaidForOnce'
      BY <2>1 DEF PaidForOnce
    <3>1. \A p : Held(p) => Held(p)'
      BY <2>1, <2>3 DEF Held
    <3>2. \A p : HowOften(paid, p)' = HowOften(paid, p) /\ HowOften(unkept, p)' = HowOften(unkept, p)
      BY <2>1 DEF HowOften
    <3>3. \A v \in Writers : making'[v].at \notin {"answer", "keep"}
      BY <2>3
    <3> QED
      BY <1>0a, <3>1, <3>2, <3>3 DEF PaidForOnce
  <2> QED
    BY <2>3, <2>4 DEF InsightsInv
\* What is lost was paid for.
<1>6c. ASSUME NEW w \in Writers, ~moded, restarts = 0, making[w].at = "keep",
              UNCHANGED <<paid, answers>>, unkept' = OnceMore(unkept, making[w].prompt),
              \A v \in Writers : making'[v].at # "keep",
              \A v \in Writers \ {w} : making[v].at = "idle"
       PROVE  \A p \in Prompts :
                 \/ HowOften(paid, p)' <= HowOften(unkept, p)'
                 \/ Held(p)' /\ HowOften(paid, p)' <= HowOften(unkept, p)' + 1
  <2> DEFINE prompt == making[w].prompt
  <2>1. \A p \in Prompts : /\ HowOften(paid, p) \in Nat /\ HowOften(unkept, p) \in Nat
                           /\ HowOften(paid, p)' = HowOften(paid, p)
    BY <1>0, <1>6c, OnceMoreCounts DEF InsightsTyped, HowOften
  <2>1a. /\ HowOften(unkept', prompt) = HowOften(unkept, prompt) + 1
         /\ \A p : p # prompt => HowOften(unkept', p) = HowOften(unkept, p)
    <3>1. /\ unkept \in [DOMAIN unkept -> Nat] /\ DOMAIN unkept \subseteq Prompts
          /\ prompt \in Prompts
      BY <1>0 DEF InsightsTyped, Making
    <3>2. unkept' = OnceMore(unkept, prompt)
      BY <1>6c
    <3> HIDE DEF prompt
    <3> QED
      BY ONLY <3>1, <3>2, OnceMoreCounts
  <2>2. \A p : HowOften(unkept, p)' = HowOften(unkept', p)
    BY DEF HowOften
  <2>3. \A p \in Prompts : p # prompt /\ Held(p) => Held(p)'
    BY <1>6c DEF Held
  <2>4. \A p \in Prompts :
           \/ HowOften(paid, p) <= HowOften(unkept, p)
           \/ Held(p) /\ HowOften(paid, p) <= HowOften(unkept, p) + 1
    BY <1>0a, <1>6c DEF PaidForOnce
  <2> SUFFICES ASSUME NEW p \in Prompts
               PROVE  \/ HowOften(paid, p)' <= HowOften(unkept, p)'
                      \/ Held(p)' /\ HowOften(paid, p)' <= HowOften(unkept, p)' + 1
    OBVIOUS
  <2>5. CASE p = prompt
    BY <2>1, <2>1a, <2>2, <2>4, <2>5
  <2>6. CASE p # prompt
    BY <2>1, <2>1a, <2>2, <2>3, <2>4, <2>6
  <2> QED
    BY <2>5, <2>6
<1>6d. ASSUME NEW w \in Writers, AskAgain(w) PROVE InsightsInv'
  <2> DEFINE prompt == making[w].prompt
  <2>1. /\ making' = [making EXCEPT ![w].at = "answer"] /\ making[w].at = "keep"
        /\ misses < MaxUnkept /\ misses' = misses + 1 /\ unkept' = OnceMore(unkept, prompt)
        /\ UNCHANGED <<rows, inflight, reading, commentMode, answers, paid, analyses,
                       restarts, moded, advice>>
    BY <1>6d DEF AskAgain
  <2>2. prompt \in Prompts /\ misses' \in 0..MaxUnkept
    BY <1>0, <2>1 DEF Making, InsightsTyped
  <2>3. unkept' \in [DOMAIN unkept' -> Nat] /\ DOMAIN unkept' \subseteq Prompts
    <3>1. unkept \in [DOMAIN unkept -> Nat] /\ DOMAIN unkept \subseteq Prompts
      BY <1>0 DEF InsightsTyped
    <3>2. unkept' = OnceMore(unkept, prompt)
      BY <2>1
    <3> HIDE DEF prompt
    <3> QED
      BY ONLY <2>2, <3>1, <3>2, OnceMoreCounts
  <2>4. /\ InsightsTyped' /\ InFlightIsMade' /\ OneBuyer'
        /\ making'[w].at = "answer" /\ making'[w].prompt = prompt
        /\ \A v \in Writers \ {w} : making'[v] = making[v]
        /\ ~moded /\ restarts = 0 => \A v \in Writers \ {w} : making[v].at = "idle"
    BY <1>0, <1>6, <2>1, <2>2, <2>3 DEF InsightsTyped
  <2>5. PaidForOnce'
    <3> SUFFICES ASSUME ~moded, restarts = 0 PROVE PaidForOnce'
      BY <2>1 DEF PaidForOnce
    <3>1. prompt \notin answers
      BY <1>0a, <2>1 DEF PaidForOnce
    <3>2. \A v \in Writers : making'[v].at \in {"answer", "keep"} => making'[v].prompt \notin answers'
      BY <2>1, <2>4, <3>1
    <3> QED
      BY <1>6c, <2>1, <2>4, <3>2 DEF PaidForOnce
  <2> QED
    BY <2>4, <2>5 DEF InsightsInv
\* A commentary is done with, one way or another.
<1>7. ASSUME NEW w \in Writers, NEW stored \in BOOLEAN, making[w].at # "idle",
             making' = [making EXCEPT ![w] = NoWriter], inflight' = Released(w, stored),
             rows' \in [DOMAIN rows -> InsightRows],
             misses' \in 0..MaxUnkept, DOMAIN unkept' \subseteq Prompts,
             unkept' \in [DOMAIN unkept' -> Nat],
             UNCHANGED <<reading, commentMode, answers, paid, analyses, restarts, moded, advice>>
      PROVE  /\ InsightsTyped' /\ InFlightIsMade' /\ OneBuyer'
             /\ making'[w].at = "idle" /\ \A v \in Writers \ {w} : making'[v] = making[v]
  <2>1. making' \in [Writers -> Making] /\ making'[w].at = "idle"
        /\ \A v \in Writers \ {w} : making'[v] = making[v]
    BY <1>0, <1>7, NoWriterIsOne DEF InsightsTyped
  <2>2. inflight' = (inflight /\ w = "report") /\ inflight' \in BOOLEAN
    BY <1>7 DEF Released
  <2>3. InsightsTyped'
    BY <1>0, <1>7, <2>1, <2>2 DEF InsightsTyped
  <2>4. InFlightIsMade'
    BY <1>0, <2>1, <2>2 DEF InFlightIsMade
  <2>5. OneBuyer'
    <3> SUFFICES ASSUME ~moded, restarts = 0 PROVE OneBuyer'
      BY <1>7 DEF OneBuyer
    <3>1. \A r \in Readers : making'[r].at # "idle" => making[r].at # "idle" /\ making'[r] = making[r]
      BY <1>0, <2>1
    <3>2. \A r \in Readers : making'[r].at # "idle" => inflight'
      <4>1. CASE w = "report"
        BY <1>0, <2>2, <3>1, <4>1 DEF OneBuyer
      <4>2. CASE w # "report"
        <5>1. w \in Readers
          BY <4>2 DEF Writers
        <5> QED
          BY <1>0, <1>7, <2>1, <3>1, <5>1 DEF OneBuyer
      <4> QED
        BY <4>1, <4>2
    <3> QED
      BY <1>0, <1>7, <2>1, <3>1, <3>2 DEF OneBuyer
  <2> QED
    BY <2>1, <2>3, <2>4, <2>5
<1>8. ASSUME NEW w \in Writers, FailCommentary(w) PROVE InsightsInv'
  <2>1. rows' \in [DOMAIN rows -> InsightRows]
    BY <1>0, <1>8, CommentedRows DEF FailCommentary, InsightsTyped
  <2>2. /\ making' = [making EXCEPT ![w] = NoWriter] /\ inflight' = Released(w, FALSE)
        /\ making[w].at # "idle" /\ making[w].prompt \in Prompts
        /\ UNCHANGED <<reading, commentMode, answers, paid, analyses, restarts, moded, advice>>
    BY <1>0, <1>8 DEF FailCommentary, Making
  <2>3. CASE making[w].at # "keep"
    <3>1. UNCHANGED <<unkept, misses>>
      BY <1>8, <2>3 DEF FailCommentary
    <3>2. /\ InsightsTyped' /\ InFlightIsMade' /\ OneBuyer'
          /\ making'[w].at = "idle" /\ \A v \in Writers \ {w} : making'[v] = making[v]
      BY <1>0, <1>7, <2>1, <2>2, <3>1 DEF InsightsTyped
    <3>3. PaidForOnce'
      BY <1>0a, <2>2, <2>3, <3>1, <3>2, StaysPaidFor
    <3> QED
      BY <3>2, <3>3 DEF InsightsInv
  <2>4. CASE making[w].at = "keep"
    <3>1. /\ misses < MaxUnkept /\ misses' = misses + 1
          /\ unkept' = OnceMore(unkept, making[w].prompt)
      BY <1>8, <2>4 DEF FailCommentary
    <3>2. /\ misses' \in 0..MaxUnkept /\ DOMAIN unkept' \subseteq Prompts
          /\ unkept' \in [DOMAIN unkept' -> Nat]
      <4> DEFINE prompt == making[w].prompt
      <4>1. /\ unkept \in [DOMAIN unkept -> Nat] /\ DOMAIN unkept \subseteq Prompts
            /\ misses' \in 0..MaxUnkept
        BY <1>0, <3>1 DEF InsightsTyped
      <4>2. unkept' = OnceMore(unkept, prompt) /\ prompt \in Prompts
        BY <2>2, <3>1
      <4> HIDE DEF prompt
      <4> QED
        BY ONLY <4>1, <4>2, OnceMoreCounts
    <3>3. /\ InsightsTyped' /\ InFlightIsMade' /\ OneBuyer'
          /\ making'[w].at = "idle" /\ \A v \in Writers \ {w} : making'[v] = making[v]
      BY <1>7, <2>1, <2>2, <3>2
    <3>4. PaidForOnce'
      <4> SUFFICES ASSUME ~moded, restarts = 0 PROVE PaidForOnce'
        BY <2>2 DEF PaidForOnce
      <4>1. \A v \in Writers \ {w} : making[v].at = "idle"
        BY <1>0, <2>2 DEF OneBuyer, Writers, InsightsTyped
      <4>2. \A v \in Writers : making'[v].at \notin {"answer", "keep"}
        BY <3>3, <4>1
      <4> QED
        BY <1>6c, <2>2, <2>4, <3>1, <4>1, <4>2 DEF PaidForOnce
    <3> QED
      BY <3>3, <3>4 DEF InsightsInv
  <2> QED
    BY <2>3, <2>4
<1>9. ASSUME NEW w \in Writers, StoreCommentary(w) PROVE InsightsInv'
  <2>1. rows' \in [DOMAIN rows -> InsightRows]
    BY <1>0, <1>9, CommentedRows DEF StoreCommentary, InsightsTyped
  <2>2. /\ making' = [making EXCEPT ![w] = NoWriter] /\ inflight' = Released(w, TRUE)
        /\ making[w].at = "store"
        /\ UNCHANGED <<reading, commentMode, answers, paid, unkept, misses, analyses, restarts,
                       moded, advice>>
    BY <1>9 DEF StoreCommentary, bounds
  <2>3. /\ InsightsTyped' /\ InFlightIsMade' /\ OneBuyer'
        /\ making'[w].at = "idle" /\ \A v \in Writers \ {w} : making'[v] = making[v]
    BY <1>0, <1>7, <2>1, <2>2 DEF InsightsTyped
  <2>4. PaidForOnce'
    BY <1>0a, <2>2, <2>3, StaysPaidFor
  <2> QED
    BY <2>3, <2>4 DEF InsightsInv
<1>10. ASSUME ChangeMode PROVE InsightsInv'
  BY <1>0, <1>10 DEF ChangeMode, InsightsInv, InsightsTyped, InFlightIsMade, OneBuyer, PaidForOnce
<1>11. ASSUME Restart PROVE InsightsInv'
  <2> DEFINE forgotten == [advice EXCEPT !.target = Nothing]
  <2>1. /\ restarts' = restarts + 1 /\ restarts < MaxRestarts /\ inflight' = FALSE
        /\ making' = [w \in Writers |-> NoWriter] /\ reading' = [r \in Readers |-> "idle"]
        /\ advice' = forgotten
        /\ UNCHANGED <<rows, commentMode, answers, paid, unkept, misses, analyses, moded>>
    BY <1>11 DEF Restart
  <2>2. forgotten \in Advice
    BY <1>0 DEF InsightsTyped, Advice
  <2> HIDE DEF forgotten
  <2>3. restarts' \in 0..MaxRestarts /\ restarts' # 0
    BY <1>0, <2>1 DEF InsightsTyped
  <2>4. InsightsTyped'
    BY <1>0, <2>1, <2>2, <2>3, NoWriterIsOne DEF InsightsTyped
  <2> QED
    BY <2>1, <2>3, <2>4 DEF InsightsInv, InFlightIsMade, OneBuyer, PaidForOnce
<1>12. ASSUME advice' \in Advice,
              UNCHANGED <<rows, inflight, making, reading, commentMode, answers, paid, unkept, misses,
                       analyses, restarts, moded>>
       PROVE  InsightsInv'
  BY <1>0, <1>0a, <1>12 DEF InsightsInv, InsightsTyped, InFlightIsMade, OneBuyer
<1>13. ASSUME LoadUsPrices PROVE InsightsInv'
  <2> DEFINE next == IF advice.loaded = "none" THEN "part" ELSE "whole"
  <2>1. advice' = [advice EXCEPT !.loaded = next]
        /\ UNCHANGED <<rows, inflight, making, reading, commentMode, answers, paid, unkept, misses,
                       analyses, restarts, moded>>
    BY <1>13 DEF LoadUsPrices, bounds
  <2>2. next \in {"part", "whole"} /\ advice \in Advice
    BY <1>0 DEF InsightsTyped
  <2> HIDE DEF next
  <2>3. advice' \in Advice
    BY <2>1, <2>2 DEF Advice
  <2> QED
    BY <1>12, <2>1, <2>3
<1>14. ASSUME RankUsTarget PROVE InsightsInv'
  <2> DEFINE whole == advice.loaded
  <2>1. advice' = [advice EXCEPT !.target = whole] /\ whole # "none"
        /\ UNCHANGED <<rows, inflight, making, reading, commentMode, answers, paid, unkept, misses,
                       analyses, restarts, moded>>
    BY <1>14 DEF RankUsTarget, bounds
  <2>2. whole \in {Nothing, "part", "whole"} /\ advice \in Advice
    BY <1>0, <2>1 DEF InsightsTyped, Advice
  <2> HIDE DEF whole
  <2>3. advice' \in Advice
    BY <2>1, <2>2 DEF Advice
  <2> QED
    BY <1>12, <2>1, <2>3
<1> QED
  BY <1>1, <1>2, <1>3, <1>4, <1>5, <1>6a, <1>6b, <1>6d, <1>8, <1>9, <1>10, <1>11, <1>13, <1>14
     DEF InsightsNext, CommentaryNext, AdviceNext

LEMMA InsightsInitInv ==
    ASSUME InsightsInit
    PROVE  InsightsInv
<1> USE InsightsAssumption DEF InsightsInit
<1>1. /\ rows \in [DOMAIN rows -> InsightRows] /\ DOMAIN rows = {}
      /\ paid \in [DOMAIN paid -> Nat] /\ DOMAIN paid = {}
      /\ unkept \in [DOMAIN unkept -> Nat] /\ DOMAIN unkept = {}
  OBVIOUS
<1>2. making \in [Writers -> Making] /\ \A w \in Writers : making[w].at = "idle"
  BY NoWriterIsOne
<1>3. advice \in Advice
  BY DEF Advice
<1>4. analyses \in 0..MaxAnalyses /\ restarts \in 0..MaxRestarts /\ misses \in 0..MaxUnkept
  OBVIOUS
<1>5. InsightsTyped
  BY <1>1, <1>2, <1>3, <1>4 DEF InsightsTyped
<1>6. PaidForOnce
  BY <1>1, <1>2 DEF PaidForOnce, HowOften
<1> QED
  BY <1>1, <1>2, <1>5, <1>6 DEF InsightsInv, InFlightIsMade, OneBuyer, Writers

LEMMA InsightsQuietInv ==
    ASSUME InsightsInv, UNCHANGED insightsVars
    PROVE  InsightsInv'
<1>1. UNCHANGED <<paid, unkept, answers, restarts, moded, making>>
  BY DEF insightsVars
<1>2. PaidForOnce'
  BY <1>1, StaysPaidFor DEF InsightsInv
<1> QED
  BY <1>2 DEF insightsVars, InsightsInv, InsightsTyped, InFlightIsMade, OneBuyer

LEMMA InsightsInvHolds ==
    ASSUME InsightsInv
    PROVE  InsightsTypeOK /\ CommentaryIsLazy
<1>1. /\ \A s \in DOMAIN rows : rows[s].rank \in 1..Cardinality(Ranked)
      /\ \A w \in Writers : making[w].at \in {"idle", "rows", "answer", "keep", "store"}
  BY DEF InsightsInv, InsightsTyped, InsightRows, Places, Making
<1>2. advice \in [loaded : {"none", "part", "whole"}, target : {Nothing, "part", "whole"}]
  BY DEF InsightsInv, InsightsTyped, Advice
<1>3. InsightsTypeOK
  BY <1>1, <1>2 DEF InsightsInv, InsightsTyped, InsightsTypeOK
<1>4. ASSUME ~moded, restarts = 0, NEW p \in DOMAIN paid PROVE paid[p] <= 1 + HowOften(unkept, p)
  <2>1. /\ p \in Prompts /\ HowOften(paid, p) = paid[p] /\ paid[p] \in Nat
        /\ HowOften(unkept, p) \in Nat
    BY DEF InsightsInv, InsightsTyped, HowOften
  <2> QED
    BY <1>4, <2>1 DEF InsightsInv, PaidForOnce
<1>5. CommentaryIsLazy
  BY <1>4 DEF InsightsInv, InFlightIsMade, CommentaryIsLazy
<1> QED
  BY <1>3, <1>5

-----------------------------------------------------------------------------
(* The trade journal.                                                          *)

Entry == [applied : SUBSET Principles, version : 1..MaxChanges,
          analysed : 0..MaxChanges, found : BOOLEAN]
Request == [at : {"idle", "create", "patch", "delete"}, trade : Trades \cup {0},
            seen : SUBSET (Principles \cup Trades), wanted : SUBSET Principles, gone : Added \cup {0}]
Task == [at : {"idle", "read", "ask"}, trade : Trades \cup {0}, version : 0..MaxChanges]

\* The analysis of t that runs for c.
Runs(c, t) == analysis[c].at # "idle" /\ analysis[c].trade = t

TablesInv ==
    /\ entries \in [DOMAIN entries -> Entry] /\ DOMAIN entries \subseteq Trades
    /\ principles \subseteq Principles /\ spent \subseteq Added
    /\ changes \in 0..MaxChanges /\ crashes \in 0..MaxCrashes /\ overlapped \subseteq Trades
    /\ \A t \in DOMAIN entries : entries[t].applied \subseteq principles

\* A caller waits for one thing at a time, of an entry that is there.
CallersInv ==
    /\ write \in [Writing -> Request] /\ analysis \in [Writing -> Task]
    /\ \A c \in Writing :
          /\ write[c].at # "idle" => analysis[c].at = "idle"
          /\ write[c].at \in {"create", "patch"} => write[c].trade \in Trades
          /\ write[c].at = "patch" => write[c].trade \in DOMAIN entries
          /\ analysis[c].at # "idle" => analysis[c].trade \in DOMAIN entries

\* Of an entry of which no two analyses ran, the one that runs knows the version, and
\* one that no longer runs has been stored.
AnalysesInv ==
    \A t \in DOMAIN entries \ overlapped :
       /\ \A c, d \in Writing : Runs(c, t) /\ Runs(d, t) => c = d
       /\ \A c \in Writing : Runs(c, t) /\ analysis[c].at = "ask" =>
             analysis[c].version = entries[t].version
       /\ (\A c \in Writing : ~Runs(c, t)) /\ crashes = 0 => entries[t].analysed = entries[t].version

JournalInv == TablesInv /\ CallersInv /\ AnalysesInv

LEMMA NoWriteIsOne == NoWrite \in Request /\ NoWrite.at = "idle"
  BY DEF NoWrite, Request

LEMMA NoAnalysisIsOne == NoAnalysis \in Task /\ NoAnalysis.at = "idle"
  BY JournalAssumption DEF NoAnalysis, Task

\* A step of one request that commits nothing.
LEMMA WriteMoves ==
    ASSUME JournalInv, NEW c \in Writing, NEW moved \in Request, write' = [write EXCEPT ![c] = moved],
           moved.at # "idle" => analysis[c].at = "idle",
           moved.at \in {"create", "patch"} => moved.trade \in Trades,
           moved.at = "patch" => moved.trade \in DOMAIN entries,
           UNCHANGED <<entries, principles, spent, analysis, changes, crashes, overlapped>>
    PROVE  JournalInv'
<1>1. write' \in [Writing -> Request] /\ write'[c] = moved /\ \A d \in Writing \ {c} : write'[d] = write[d]
  BY DEF JournalInv, CallersInv
<1>2. CallersInv'
  BY <1>1 DEF JournalInv, CallersInv
<1>3. TablesInv' /\ AnalysesInv'
  BY DEF JournalInv, TablesInv, AnalysesInv, Runs
<1> QED
  BY <1>2, <1>3 DEF JournalInv

LEMMA AcceptKeeps ==
    ASSUME JournalInv, NEW c \in Writing, NEW t \in Trades, NEW applied \in SUBSET Principles,
           applied \subseteq principles, analysis[c].at = "idle", Accept(c, t, applied)
    PROVE  JournalInv'
<1> USE JournalAssumption
<1> DEFINE version == changes + 1
           analysed == IF t \in DOMAIN entries THEN entries[t].analysed ELSE 0
           found == t \in DOMAIN entries /\ entries[t].found
           new == [applied |-> applied, version |-> version, analysed |-> analysed, found |-> found]
           task == [at |-> "read", trade |-> t, version |-> 0]
<1>1. /\ changes < MaxChanges /\ changes' = version
      /\ entries' = [u \in DOMAIN entries \cup {t} |-> IF u # t THEN entries[u] ELSE new]
      /\ analysis' = [analysis EXCEPT ![c] = task]
      /\ overlapped' = IF Analysing(t) THEN overlapped \cup {t} ELSE overlapped
      /\ write' = [write EXCEPT ![c] = NoWrite]
      /\ UNCHANGED <<principles, spent, crashes>>
  BY DEF Accept, StartsAnalysis, Done
<1>2. version \in 1..MaxChanges /\ analysed \in 0..MaxChanges /\ found \in BOOLEAN
  BY <1>1 DEF JournalInv, TablesInv, Entry
<1> HIDE DEF version, analysed, found
<1>3. new \in Entry /\ new.applied = applied
  BY <1>2 DEF Entry
<1> HIDE DEF new
<1>4. task \in Task /\ task.at = "read" /\ task.trade = t
  BY DEF Task
<1> HIDE DEF task
<1>5. /\ DOMAIN entries' = DOMAIN entries \cup {t} /\ entries'[t] = new
      /\ \A u \in DOMAIN entries \ {t} : entries'[u] = entries[u]
  BY <1>1
<1>6. TablesInv'
  <2>1. \A u \in DOMAIN entries' : entries'[u] \in Entry /\ entries'[u].applied \subseteq principles'
    BY <1>1, <1>3, <1>5 DEF JournalInv, TablesInv
  <2>2. entries' \in [DOMAIN entries' -> Entry] /\ DOMAIN entries' \subseteq Trades
    BY <1>1, <2>1 DEF JournalInv, TablesInv
  <2>3. overlapped' \subseteq Trades /\ changes' \in 0..MaxChanges
    BY <1>1, <1>2 DEF JournalInv, TablesInv
  <2> QED
    BY <1>1, <2>1, <2>2, <2>3 DEF JournalInv, TablesInv
<1>7. /\ analysis' \in [Writing -> Task] /\ analysis'[c] = task
      /\ \A d \in Writing \ {c} : analysis'[d] = analysis[d]
  BY <1>1, <1>4 DEF JournalInv, CallersInv
<1>8. /\ write' \in [Writing -> Request] /\ write'[c].at = "idle"
      /\ \A d \in Writing \ {c} : write'[d] = write[d]
  BY <1>1, NoWriteIsOne DEF JournalInv, CallersInv
<1>9. CallersInv'
  BY <1>4, <1>5, <1>7, <1>8 DEF JournalInv, CallersInv
<1>10. AnalysesInv'
  <2> SUFFICES ASSUME NEW u \in DOMAIN entries', u \notin overlapped'
               PROVE  /\ \A b, d \in Writing : Runs(b, u)' /\ Runs(d, u)' => b = d
                      /\ \A d \in Writing : Runs(d, u)' /\ analysis'[d].at = "ask" =>
                            analysis'[d].version = entries'[u].version
                      /\ (\A d \in Writing : ~Runs(d, u)') /\ crashes' = 0 =>
                            entries'[u].analysed = entries'[u].version
    BY DEF AnalysesInv
  <2>1. Runs(c, t)' /\ analysis'[c].at = "read"
    BY <1>4, <1>7 DEF Runs
  <2>2. \A d \in Writing \ {c} : \A x : Runs(d, x)' <=> Runs(d, x)
    BY <1>7 DEF Runs
  <2>3. CASE u = t
    <3>1. \A d \in Writing : ~Runs(d, t)
      BY <1>1, <2>3 DEF Analysing, Runs
    <3> QED
      BY <2>1, <2>2, <2>3, <3>1
  <2>4. CASE u # t
    <3>1. u \in DOMAIN entries \ overlapped /\ entries'[u] = entries[u]
      BY <1>1, <1>5, <2>4
    <3>2. ~Runs(c, u)' /\ ~Runs(c, u)
      BY <1>4, <1>7, <2>4 DEF Runs
    <3>3. \A d \in Writing : Runs(d, u)' <=> Runs(d, u)
      BY <2>2, <3>2
    <3> QED
      BY <1>1, <1>7, <3>1, <3>2, <3>3 DEF JournalInv, AnalysesInv
  <2> QED
    BY <2>3, <2>4
<1> QED
  BY <1>6, <1>9, <1>10 DEF JournalInv

LEMMA JournalStepInv ==
    ASSUME JournalInv, JournalNext
    PROVE  JournalInv'
<1> USE JournalAssumption
<1>1. ASSUME CreatePrinciple PROVE JournalInv'
  <2>1. PICK p \in Added \ spent :
           /\ principles' = principles \cup {p} /\ spent' = spent \cup {p}
           /\ UNCHANGED <<entries, write, analysis, changes, crashes, overlapped>>
    BY <1>1 DEF CreatePrinciple
  <2> QED
    BY <2>1 DEF JournalInv, TablesInv, CallersInv, AnalysesInv, Runs, Principles
<1>2. ASSUME RestartJournal PROVE JournalInv'
  <2>1. /\ crashes < MaxCrashes /\ crashes' = crashes + 1
        /\ write' = [c \in Writing |-> NoWrite] /\ analysis' = [c \in Writing |-> NoAnalysis]
        /\ UNCHANGED <<entries, principles, spent, changes, overlapped>>
    BY <1>2 DEF RestartJournal
  <2>2. crashes' \in 0..MaxCrashes /\ crashes' # 0
    BY <2>1 DEF JournalInv, TablesInv
  <2>3. TablesInv'
    BY <2>1, <2>2 DEF JournalInv, TablesInv
  <2>4. CallersInv'
    BY <2>1, NoWriteIsOne, NoAnalysisIsOne DEF JournalInv, CallersInv
  <2>5. AnalysesInv'
    BY <2>1, <2>2, NoAnalysisIsOne DEF AnalysesInv, Runs
  <2> QED
    BY <2>3, <2>4, <2>5 DEF JournalInv
<1>3. ASSUME NEW c \in Writing, NEW t \in Trades, NEW wanted \in SUBSET Principles, BeginCreate(c, t, wanted)
      PROVE  JournalInv'
  <2> DEFINE asked == [NoWrite EXCEPT !.at = "create", !.trade = t, !.wanted = wanted]
  <2>1. /\ write' = [write EXCEPT ![c] = asked] /\ analysis[c].at = "idle"
        /\ UNCHANGED <<entries, principles, spent, analysis, changes, crashes, overlapped>>
    BY <1>3 DEF BeginCreate, BeginWrite, Free
  <2>2. asked \in Request /\ asked.at = "create" /\ asked.trade = t
    BY NoWriteIsOne DEF Request
  <2> HIDE DEF asked
  <2> QED
    BY <2>1, <2>2, WriteMoves
<1>4. ASSUME NEW c \in Writing, NEW t \in Trades, NEW wanted \in SUBSET Principles, BeginPatch(c, t, wanted)
      PROVE  JournalInv'
  <2> DEFINE seen == entries[t].applied
             asked == [NoWrite EXCEPT !.at = "patch", !.trade = t, !.seen = seen, !.wanted = wanted]
  <2>1. /\ write' = [write EXCEPT ![c] = asked] /\ analysis[c].at = "idle" /\ t \in DOMAIN entries
        /\ UNCHANGED <<entries, principles, spent, analysis, changes, crashes, overlapped>>
    BY <1>4 DEF BeginPatch, BeginWrite, Free
  <2>2. seen \in SUBSET (Principles \cup Trades)
    BY <2>1 DEF JournalInv, TablesInv, Entry
  <2> HIDE DEF seen
  <2>3. asked \in Request /\ asked.at = "patch" /\ asked.trade = t
    BY <2>2, NoWriteIsOne DEF Request
  <2> HIDE DEF asked
  <2> QED
    BY <2>1, <2>3, WriteMoves
<1>5. ASSUME NEW c \in Writing, NEW p \in Added, BeginDelete(c, p) PROVE JournalInv'
  <2> DEFINE seen == Naming(p)
             asked == [NoWrite EXCEPT !.at = "delete", !.seen = seen, !.gone = p]
  <2>1. /\ write' = [write EXCEPT ![c] = asked] /\ analysis[c].at = "idle"
        /\ UNCHANGED <<entries, principles, spent, analysis, changes, crashes, overlapped>>
    BY <1>5 DEF BeginDelete, BeginWrite, Free
  <2>2. seen \in SUBSET (Principles \cup Trades)
    BY DEF Naming, JournalInv, TablesInv
  <2> HIDE DEF seen
  <2>3. asked \in Request /\ asked.at = "delete"
    BY <2>2, NoWriteIsOne DEF Request
  <2> HIDE DEF asked
  <2> QED
    BY <2>1, <2>3, WriteMoves
<1>6. ASSUME NEW c \in Writing, Reject(c) PROVE JournalInv'
  BY <1>6, NoWriteIsOne, WriteMoves DEF Reject, Done
<1>7. ASSUME NEW c \in Writing, CommitCreate(c) PROVE JournalInv'
  <2>1. CASE Reject(c)
    BY <1>6, <2>1
  <2>2. CASE /\ KeysHold(write[c].wanted) /\ Accept(c, write[c].trade, write[c].wanted)
             /\ write[c].at = "create"
    <3> DEFINE t == write[c].trade
               wanted == write[c].wanted
    <3>1. t \in Trades /\ wanted \in SUBSET Principles /\ wanted \subseteq principles
          /\ analysis[c].at = "idle" /\ Accept(c, t, wanted)
      BY <2>2 DEF JournalInv, CallersInv, Request, KeysHold
    <3> HIDE DEF t, wanted
    <3> QED
      BY <3>1, AcceptKeeps
  <2> QED
    BY <1>7, <2>1, <2>2 DEF CommitCreate
<1>8. ASSUME NEW c \in Writing, CommitPatch(c) PROVE JournalInv'
  <2> DEFINE t == write[c].trade
             removed == write[c].seen \ write[c].wanted
             added == write[c].wanted \ write[c].seen
             applied == (entries[t].applied \ removed) \cup added
  <2>1. CASE Reject(c)
    BY <1>6, <2>1
  <2>2. CASE write[c].at = "patch" /\ KeysHold(added) /\ Accept(c, t, applied)
    <3>1. t \in Trades /\ t \in DOMAIN entries /\ added \subseteq principles
          /\ analysis[c].at = "idle" /\ Accept(c, t, applied)
      BY <2>2 DEF JournalInv, CallersInv, KeysHold
    <3>2. entries[t].applied \subseteq principles
      BY <3>1 DEF JournalInv, TablesInv
    <3>3. applied \in SUBSET Principles /\ applied \subseteq principles
      BY <3>1, <3>2 DEF JournalInv, TablesInv
    <3> HIDE DEF t, applied
    <3> QED
      BY <3>1, <3>3, AcceptKeeps
  <2> QED
    BY <1>8, <2>1, <2>2 DEF CommitPatch
<1>9. ASSUME NEW c \in Writing, CommitDelete(c) PROVE JournalInv'
  <2> DEFINE p == write[c].gone
  <2>1. CASE Reject(c)
    BY <1>6, <2>1
  <2>2. CASE p \in principles /\ write[c].seen = Naming(p) /\ ~Reject(c)
    <3> DEFINE naming == Naming(p)
               without(t) == [entries[t] EXCEPT !.applied = @ \ {p}]
    <3>1. /\ principles' = principles \ {p}
          /\ entries' = [t \in DOMAIN entries |-> IF t \in naming THEN without(t) ELSE entries[t]]
          /\ write' = [write EXCEPT ![c] = NoWrite]
          /\ UNCHANGED <<spent, analysis, changes, crashes, overlapped>>
      BY <1>9, <2>2 DEF CommitDelete, Done
    <3>2. \A t \in naming : /\ without(t) \in Entry /\ without(t).applied = entries[t].applied \ {p}
                            /\ without(t).version = entries[t].version
                            /\ without(t).analysed = entries[t].analysed
      BY DEF Naming, JournalInv, TablesInv, Entry
    <3> HIDE DEF without
    <3>3. \A t \in DOMAIN entries :
             /\ entries'[t] \in Entry /\ entries'[t].applied \subseteq principles'
             /\ entries'[t].version = entries[t].version /\ entries'[t].analysed = entries[t].analysed
      <4> SUFFICES ASSUME NEW t \in DOMAIN entries
                   PROVE  /\ entries'[t] \in Entry /\ entries'[t].applied \subseteq principles'
                          /\ entries'[t].version = entries[t].version
                          /\ entries'[t].analysed = entries[t].analysed
        OBVIOUS
      <4>1. entries[t] \in Entry /\ entries[t].applied \subseteq principles
        BY DEF JournalInv, TablesInv
      <4>2. t \in naming <=> p \in entries[t].applied
        BY DEF Naming
      <4> QED
        BY <3>1, <3>2, <4>1, <4>2
    <3>4. DOMAIN entries' = DOMAIN entries /\ entries' \in [DOMAIN entries' -> Entry]
      BY <3>1, <3>3
    <3>5. TablesInv'
      BY <3>1, <3>3, <3>4 DEF JournalInv, TablesInv
    <3>6. /\ write' \in [Writing -> Request] /\ write'[c].at = "idle"
          /\ \A d \in Writing \ {c} : write'[d] = write[d]
      BY <3>1, NoWriteIsOne DEF JournalInv, CallersInv
    <3>7. CallersInv'
      BY <3>1, <3>4, <3>6 DEF JournalInv, CallersInv
    <3>8. AnalysesInv'
      BY <3>1, <3>3, <3>4 DEF JournalInv, AnalysesInv, Runs
    <3> QED
      BY <3>5, <3>7, <3>8 DEF JournalInv
  <2> QED
    BY <1>9, <2>1, <2>2 DEF CommitDelete
<1>10. ASSUME NEW c \in Writing, ReadEntry(c) PROVE JournalInv'
  <2> DEFINE t == analysis[c].trade
             version == entries[t].version
             moved == [analysis[c] EXCEPT !.at = "ask", !.version = version]
  <2>1. /\ analysis[c].at = "read" /\ analysis' = [analysis EXCEPT ![c] = moved]
        /\ UNCHANGED <<entries, principles, spent, write, changes, crashes, overlapped>>
    BY <1>10 DEF ReadEntry
  <2>2. t \in DOMAIN entries /\ analysis[c] \in Task /\ write[c].at = "idle"
    BY <2>1 DEF JournalInv, CallersInv
  <2>3. version \in 0..MaxChanges
    BY <2>2 DEF JournalInv, TablesInv, Entry
  <2> HIDE DEF version
  <2>4. moved \in Task /\ moved.at = "ask" /\ moved.trade = t /\ moved.version = version
    BY <2>2, <2>3 DEF Task
  <2> HIDE DEF moved
  <2>5. /\ analysis' \in [Writing -> Task] /\ analysis'[c] = moved
        /\ \A d \in Writing \ {c} : analysis'[d] = analysis[d]
    BY <2>1, <2>4 DEF JournalInv, CallersInv
  <2>6. \A d \in Writing : \A x : Runs(d, x)' <=> Runs(d, x)
    BY <2>1, <2>4, <2>5 DEF Runs
  <2>7. CallersInv'
    BY <2>1, <2>2, <2>4, <2>5 DEF JournalInv, CallersInv
  <2>8. AnalysesInv'
    <3>1. \A x : Runs(c, x)' => x = t
      BY <2>4, <2>5 DEF Runs
    <3> QED
      BY <2>1, <2>4, <2>5, <2>6, <3>1 DEF JournalInv, AnalysesInv, version
  <2>9. TablesInv'
    BY <2>1 DEF JournalInv, TablesInv
  <2> QED
    BY <2>7, <2>8, <2>9 DEF JournalInv
<1>11. ASSUME NEW c \in Writing, StoreAnalysis(c) PROVE JournalInv'
  <2> DEFINE t == analysis[c].trade
             version == analysis[c].version
  <2>1. PICK found \in BOOLEAN :
           entries' = [entries EXCEPT ![t].analysed = version, ![t].found = found]
    BY <1>11 DEF StoreAnalysis
  <2>2. /\ analysis[c].at = "ask" /\ analysis' = [analysis EXCEPT ![c] = NoAnalysis]
        /\ UNCHANGED <<principles, spent, write, changes, crashes, overlapped>>
    BY <1>11 DEF StoreAnalysis
  <2>3. t \in DOMAIN entries /\ version \in 0..MaxChanges /\ entries[t] \in Entry
    BY <2>2 DEF JournalInv, CallersInv, TablesInv, Task
  <2> DEFINE stored == [entries[t] EXCEPT !.analysed = version, !.found = found]
  <2>4. entries' = [entries EXCEPT ![t] = stored]
    BY <2>1
  <2> HIDE DEF version
  <2>5. /\ stored \in Entry /\ stored.applied = entries[t].applied
        /\ stored.version = entries[t].version /\ stored.analysed = version
    BY <2>3 DEF Entry
  <2> HIDE DEF stored
  <2>6. /\ DOMAIN entries' = DOMAIN entries /\ entries' \in [DOMAIN entries' -> Entry]
        /\ entries'[t] = stored /\ \A u \in DOMAIN entries \ {t} : entries'[u] = entries[u]
    BY <2>3, <2>4, <2>5 DEF JournalInv, TablesInv
  <2>7. TablesInv'
    BY <2>2, <2>5, <2>6 DEF JournalInv, TablesInv
  <2>8. /\ analysis' \in [Writing -> Task] /\ analysis'[c].at = "idle"
        /\ \A d \in Writing \ {c} : analysis'[d] = analysis[d]
    BY <2>2, NoAnalysisIsOne DEF JournalInv, CallersInv
  <2>9. CallersInv'
    BY <2>2, <2>6, <2>8 DEF JournalInv, CallersInv
  <2>10. AnalysesInv'
    <3>1. \A x : ~Runs(c, x)'
      BY <2>8 DEF Runs
    <3>2. \A d \in Writing \ {c} : \A x : Runs(d, x)' <=> Runs(d, x)
      BY <2>8 DEF Runs
    <3>3. \A x : Runs(c, x) <=> x = t
      BY <2>2 DEF Runs
    <3>4. t \notin overlapped => version = entries[t].version
      BY <2>2, <2>3, <3>3 DEF JournalInv, AnalysesInv, version
    <3> SUFFICES ASSUME NEW u \in DOMAIN entries', u \notin overlapped'
                 PROVE  /\ \A b, d \in Writing : Runs(b, u)' /\ Runs(d, u)' => b = d
                        /\ \A d \in Writing : Runs(d, u)' /\ analysis'[d].at = "ask" =>
                              analysis'[d].version = entries'[u].version
                        /\ (\A d \in Writing : ~Runs(d, u)') /\ crashes' = 0 =>
                              entries'[u].analysed = entries'[u].version
      BY DEF AnalysesInv
    <3>5. entries'[u].version = entries[u].version /\ u \in DOMAIN entries \ overlapped
      BY <2>2, <2>5, <2>6
    <3>6. CASE u = t
      BY <2>2, <2>5, <2>6, <2>8, <3>1, <3>2, <3>3, <3>4, <3>5, <3>6 DEF JournalInv, AnalysesInv
    <3>7. CASE u # t
      BY <2>2, <2>6, <2>8, <3>1, <3>2, <3>3, <3>5, <3>7 DEF JournalInv, AnalysesInv
    <3> QED
      BY <3>6, <3>7
  <2> QED
    BY <2>7, <2>9, <2>10 DEF JournalInv
<1> QED
  BY <1>1, <1>2, <1>3, <1>4, <1>5, <1>7, <1>8, <1>9, <1>10, <1>11 DEF JournalNext

LEMMA JournalInitInv ==
    ASSUME JournalInit
    PROVE  JournalInv
<1> USE JournalAssumption DEF JournalInit
<1>1. TablesInv
  <2>1. DOMAIN entries = {} /\ entries \in [DOMAIN entries -> Entry]
    OBVIOUS
  <2> QED
    BY <2>1 DEF TablesInv, Principles
<1>2. CallersInv
  BY NoWriteIsOne, NoAnalysisIsOne DEF CallersInv
<1>3. AnalysesInv
  BY DEF AnalysesInv
<1> QED
  BY <1>1, <1>2, <1>3 DEF JournalInv

LEMMA JournalQuietInv ==
    ASSUME JournalInv, UNCHANGED journalVars
    PROVE  JournalInv'
  BY DEF journalVars, JournalInv, TablesInv, CallersInv, AnalysesInv, Runs

LEMMA JournalInvHolds ==
    ASSUME JournalInv
    PROVE  JournalTypeOK /\ JournalIsSound
<1>1. JournalTypeOK
  <2>1. \A c \in Writing : /\ write[c].at \in {"idle", "create", "patch", "delete"}
                           /\ write[c].seen \subseteq Principles \cup Trades
                           /\ analysis[c].at \in {"idle", "read", "ask"}
    BY DEF JournalInv, CallersInv, Request, Task
  <2> QED
    BY <2>1 DEF JournalInv, TablesInv, Entry, JournalTypeOK
<1>2. JournalIsSound
  BY DEF JournalInv, TablesInv, AnalysesInv, JournalIsSound, Analysing, Runs
<1> QED
  BY <1>1, <1>2

-----------------------------------------------------------------------------
(* The desk.                                                                   *)

DeskInv ==
    /\ RunsInv /\ NamesKept /\ FundInv /\ UniverseInv
    /\ ProfilesInv /\ AccessInv /\ PortfolioInv
    /\ HeatmapInv /\ InsightsInv /\ JournalInv

LEMMA DeskStarts == DeskInit => DeskInv
<1> SUFFICES ASSUME DeskInit PROVE DeskInv
  OBVIOUS
<1>1. /\ RunsInit /\ FundInit /\ UniverseInit /\ ProfilesInit /\ AccessInit /\ PortfolioInit
      /\ HeatmapInit /\ InsightsInit /\ JournalInit
  BY DEF DeskInit
<1>2. RunsInv /\ NamesKept /\ FundInv /\ UniverseInv
  BY <1>1, RunsInitInv, NamesStart, FundInitInv, UniverseInitInv
<1>3. ProfilesInv /\ AccessInv /\ PortfolioInv
  BY <1>1, ProfilesInitInv, AccessInitInv, PortfolioInitInv, PortfolioAssumption
<1>4. HeatmapInv /\ InsightsInv /\ JournalInv
  BY <1>1, HeatmapInitInv, InsightsInitInv, JournalInitInv
<1> QED
  BY <1>2, <1>3, <1>4 DEF DeskInv

\* One component moves and keeps its invariant, the others stay as they are.
LEMMA DeskKeeps == DeskInv /\ [DeskNext]_deskVars => DeskInv'
<1> SUFFICES ASSUME DeskInv, [DeskNext]_deskVars PROVE DeskInv'
  OBVIOUS
<1>1. /\ [RunsNext]_runsVars /\ [FundNext]_fundVars /\ [UniverseNext]_universeVars
      /\ [ProfilesNext]_profileVars /\ [AccessNext]_accessVars /\ [PortfolioNext]_portfolioVars
      /\ [HeatmapNext]_heatmapVars /\ [InsightsNext]_insightsVars /\ [JournalNext]_journalVars
  BY DEF DeskNext, AtRestBut, deskVars, InsightsNext
<1>2. RunsInv' /\ NamesKept'
  BY <1>1, RunsStepInv, RunsQuietInv, NamesStay, NamesQuiet DEF DeskInv
<1>3. FundInv'
  BY <1>1, FundStepInv, FundQuietInv DEF DeskInv
<1>4. UniverseInv'
  BY <1>1, UniverseStepInv, UniverseQuietInv DEF DeskInv
<1>5. ProfilesInv'
  BY <1>1, ProfilesStepInv, ProfilesQuietInv DEF DeskInv
<1>6. AccessInv'
  BY <1>1, AccessStepInv, AccessQuietInv DEF DeskInv
<1>7. PortfolioInv'
  BY <1>1, PortfolioStepInv DEF DeskInv
<1>8. HeatmapInv'
  BY <1>1, HeatmapStepInv, HeatmapQuietInv DEF DeskInv
<1>9. InsightsInv'
  BY <1>1, InsightsStepInv, InsightsQuietInv DEF DeskInv
<1>10. JournalInv'
  BY <1>1, JournalStepInv, JournalQuietInv DEF DeskInv
<1> QED
  BY <1>2, <1>3, <1>4, <1>5, <1>6, <1>7, <1>8, <1>9, <1>10 DEF DeskInv

LEMMA ProfilesMove == [DeskNext]_deskVars => [ProfilesNext]_profileVars
  BY DEF DeskNext, AtRestBut, deskVars

\* With the same row, every evening whose reads succeed applies the same months to an entry,
\* as long as no close of the days up to it is stored late or revised (auto_ramp.py).
THEOREM EntriesKeepTheirMonths == DeskSpec => RampSettles
<1> DEFINE Inv == DeskInv /\ SettledInv
<1>1. DeskInit => Inv
  BY DeskStarts, SettledStarts DEF DeskInit
<1>2. Inv /\ [DeskNext]_deskVars => Inv'
  BY DeskKeeps, SettledStays, SettledQuiet, ProfilesMove DEF DeskInv
<1>3. Inv /\ [DeskNext]_deskVars => [\A a \in Accounts : AppliesSettled(a)]_profileVars
  BY SettledStays, ProfilesMove DEF DeskInv
<1> QED
  BY <1>1, <1>2, <1>3, PTL DEF DeskSpec, RampSettles

\* No live account is switched on while the lock was never opened (account_profiles.py), a
\* token of other credentials is used no longer than it lives (toss/rest_client.py), and the
\* overview of the accounts adds up (api/portfolio.py), however calls interleave and fail.
THEOREM AccountsAreSafe == DeskSpec => []AccountsHold
<1>1. DeskInv => AccountsHold
  BY ProfilesInvHolds, AccessInvHolds, PortfolioInvHolds DEF DeskInv, AccountsHold
<1> QED
  BY <1>1, DeskStarts, DeskKeeps, PTL DEF DeskSpec

\* A map says when it is old (heatmap), a commentary is made while it is awaited and paid for
\* once, and once more for each answer that was lost (daily insights), and the analysis of a journal entry is of the entry.
THEOREM ScreensShowWhatIs == DeskSpec => []ScreensAreHonest
<1>1. DeskInv => ScreensAreHonest
  BY HeatmapInvHolds, InsightsInvHolds, JournalInvHolds DEF DeskInv, ScreensAreHonest
<1> QED
  BY <1>1, DeskStarts, DeskKeeps, PTL DEF DeskSpec

\* But for the blend: runs that the leaderboard names can be opened (run_backtest.py), a figure is of
\* the filings and quarters it claims to be of (financial_loader.py), and a file of codes is whole.
THEOREM ResearchIsServed == DeskSpec => [](part # "blend" => ResearchHolds)
<1>1. DeskInv => (part # "blend" => ResearchHolds)
  BY RunsInvHolds, FundInvHolds DEF DeskInv, UniverseInv, ResearchHolds
<1> QED
  BY <1>1, DeskStarts, DeskKeeps, PTL DEF DeskSpec

\* The variables of the component that moves keep their types, but for the blend's.
THEOREM DeskTyping == DeskSpec => [](part # "blend" => DeskTypeOK)
<1> DEFINE Inv == DeskInv /\ part \in Moving
<1>1. DeskInit => Inv
  BY DeskStarts DEF DeskInit
<1>2. Inv /\ [DeskNext]_deskVars => Inv'
  BY DeskKeeps DEF DeskNext, AtRestBut, deskVars
<1>3. Inv => (part # "blend" => DeskTypeOK)
  <2> SUFFICES ASSUME DeskInv, part \in Moving, part # "blend" PROVE DeskTypeOK
    OBVIOUS
  <2>1. /\ RunsTypeOK /\ FundTypeOK /\ UniverseTypeOK /\ ProfilesTypeOK /\ AccessTypeOK
        /\ PortfolioTypeOK /\ HeatmapTypeOK /\ InsightsTypeOK /\ JournalTypeOK
    BY RunsInvHolds, FundInvHolds, ProfilesInvHolds, PortfolioInvHolds, HeatmapInvHolds,
       InsightsInvHolds, JournalInvHolds DEF DeskInv, UniverseInv, AccessInv
  <2>2. part \in {"runs", "fundamentals", "profiles", "universe", "access",
                  "heatmap", "portfolio", "insights", "advice", "journal"}
    BY MovingAssumption
  <2> QED
    BY <2>1, <2>2 DEF DeskTypeOK
<1> QED
  BY <1>1, <1>2, <1>3, PTL DEF DeskSpec
===============================================================================
