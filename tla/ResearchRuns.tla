----------------------------- MODULE ResearchRuns -----------------------------
(* How the results of backtests are kept (research/scripts/run_backtest.py) and *)
(* shown (backend/app/api/backtest.py).  Threads of the server and the command  *)
(* line write a directory for a run, file by file, and a row of leaderboard.csv *)
(* last; nothing coordinates them but the file system, and a restart may stop   *)
(* them anywhere.                                                               *)
EXTENDS Integers, Sequences, SequencesExt

CONSTANTS
    Jobs,          \* backtests and portfolio backtests
    KindOf(_),     \* "run" or "portfolio"
    SlugOf(_),     \* the name in the directory's name
    LastSecond, MaxKills    \* bounds: the clock, crashes

ASSUME RunsAssumption ==
    /\ \A j \in Jobs : KindOf(j) \in {"run", "portfolio"}
    /\ LastSecond \in Nat /\ MaxKills \in Nat

VARIABLES
    second,    \* the clock; names have its resolution
    dirs,      \* files of a directory, by name; no entry: no directory
    writers,   \* history: the jobs that wrote into a directory
    board,     \* the two leaderboards: heading and rows
    job,       \* where a job is, the directory it writes, what it read of the board
    kills,
    dropped    \* history: rows that were in a board and left it

runsVars == <<second, dirs, writers, board, job, kills, dropped>>

Name(j, s) == <<KindOf(j), SlugOf(j), s>>
\* A run of the days when the board had no after_tax.
Archived == <<"run", "archived", 0>>
Names == {Name(j, s) : j \in Jobs, s \in 0..LastSecond} \union {Archived}
Kinds == {KindOf(j) : j \in Jobs}

\* A heading line among the rows, read as one.
Heading == <<"heading">>
NoName == <<"none">>
Rows == Seq(Names \union {Heading})
\* Heading: "absent" is no file, "nothing" an empty one, "old" lacks after_tax, and
\* under "row" a row stands where the heading belongs.
Boards == [heading : {"absent", "nothing", "old", "current", "row"}, rows : Rows]

\* The files in the order in which write_report and write_portfolio_report write them.
RunFiles == <<"params", "metrics", "trades", "curve", "log">>
PortfolioFiles == <<"metrics", "curve", "weights", "sleeves">>
FilesOf(kind) == IF kind = "run" THEN RunFiles ELSE PortfolioFiles

Steps == {"idle", "files", "board", "truncated", "check", "append", "done", "failed"}

RunsTypeOK ==
    /\ second \in 0..LastSecond /\ kills \in 0..MaxKills
    /\ \A n \in DOMAIN dirs : n \in Names /\ IsPrefix(dirs[n], FilesOf(n[1]))
    /\ DOMAIN writers = DOMAIN dirs /\ \A n \in DOMAIN writers : writers[n] \subseteq Jobs
    /\ board \in [Kinds -> Boards]
    /\ \A j \in Jobs : /\ job[j].at \in Steps /\ job[j].name \in Names \union {NoName}
                       /\ job[j].read \in Rows /\ job[j].heading \in BOOLEAN
    /\ dropped \subseteq Names \union {Heading}

Goto(j, step) == job' = [job EXCEPT ![j].at = step]
Resting(j) == [at |-> "idle", name |-> NoName, read |-> <<>>, heading |-> FALSE]
-----------------------------------------------------------------------------
(* A job, after its backtest has been computed.                                *)

\* Mutant of MakeDirectory: an existing directory is taken over.
MakeDirectoryAnyway(j) ==
    LET name == Name(j, second)
    IN /\ job[j].at = "idle"
       /\ dirs' = [n \in DOMAIN dirs \union {name} |-> IF n = name THEN <<>> ELSE dirs[n]]
       /\ writers' = [n \in DOMAIN dirs \union {name} |->
                         (IF n \in DOMAIN writers THEN writers[n] ELSE {})
                           \union (IF n = name THEN {j} ELSE {})]
       /\ job' = [job EXCEPT ![j].at = "files", ![j].name = name]
       /\ UNCHANGED <<second, board, kills, dropped>>

\* mkdir(exist_ok=False): a second run of a name within a second fails.
MakeDirectory(j) ==
    LET name == Name(j, second)
    IN /\ job[j].at = "idle"
       /\ IF name \in DOMAIN dirs
          THEN Goto(j, "failed") /\ UNCHANGED <<dirs, writers>>
          ELSE /\ dirs' = [n \in DOMAIN dirs \union {name} |-> IF n = name THEN <<>> ELSE dirs[n]]
               /\ writers' = [n \in DOMAIN dirs \union {name} |-> IF n = name THEN {j} ELSE writers[n]]
               /\ job' = [job EXCEPT ![j].at = "files", ![j].name = name]
       /\ UNCHANGED <<second, board, kills, dropped>>

\* _write_params ... _write_log, or the files of a portfolio.
WriteFile(j) ==
    LET name == job[j].name
        todo == FilesOf(name[1])
        next == todo[Len(dirs[name]) + 1]
    IN /\ job[j].at = "files" /\ dirs[name] # todo
       /\ dirs' = [dirs EXCEPT ![name] = Append(@, next)]
       /\ UNCHANGED <<second, writers, board, job, kills, dropped>>

FilesWritten(j) ==
    /\ job[j].at = "files" /\ dirs[job[j].name] = FilesOf(KindOf(j))
    /\ Goto(j, IF KindOf(j) = "run" THEN "board" ELSE "check")
    /\ UNCHANGED <<second, dirs, writers, board, kills, dropped>>

\* _append_leaderboard reads the file; one whose first line lacks after_tax is
\* opened for writing, which empties it.
ReadBoard(j) ==
    LET b == board["run"]
    IN /\ job[j].at = "board"
       /\ IF b.heading \in {"old", "row"}
          THEN /\ job' = [job EXCEPT ![j].at = "truncated",
                                     ![j].read = IF b.heading = "old" THEN b.rows ELSE Tail(b.rows),
                                     ![j].heading = b.heading = "old"]
               /\ board' = [board EXCEPT !["run"] = [heading |-> "nothing", rows |-> <<>>]]
               /\ dropped' = dropped \union ToSet(b.rows)
          ELSE Goto(j, "check") /\ UNCHANGED <<board, dropped>>
       /\ UNCHANGED <<second, dirs, writers, kills>>

\* The rows read are written back under the current heading.  Keys that are not
\* among the fields are refused by the writer once the heading is out.  What others
\* appended meanwhile is overwritten.
WriteBack(j) ==
    /\ job[j].at = "truncated"
    /\ LET legible == job[j].heading \/ job[j].read = <<>>
           kept == IF legible THEN job[j].read ELSE <<>>
       IN /\ board' = [board EXCEPT !["run"] = [heading |-> "current", rows |-> kept]]
          /\ dropped' = (dropped \union ToSet(board["run"].rows)) \ ToSet(kept)
          /\ job' = [job EXCEPT ![j].at = IF legible THEN "check" ELSE "failed", ![j].read = <<>>]
    /\ UNCHANGED <<second, dirs, writers, kills>>

\* write_header = not exists()
CheckBoard(j) ==
    /\ job[j].at = "check"
    /\ job' = [job EXCEPT ![j].at = "append",
                          ![j].heading = board[KindOf(j)].heading = "absent"]
    /\ UNCHANGED <<second, dirs, writers, board, kills, dropped>>

Appended(b, heading, name) ==
    IF b.heading = "absent" THEN [heading |-> "current", rows |-> <<name>>]
    ELSE IF b.heading = "nothing" THEN [heading |-> "row", rows |-> <<name>>]
    ELSE [b EXCEPT !.rows = @ \o (IF heading THEN <<Heading>> ELSE <<>>) \o <<name>>]

AppendRow(j) ==
    /\ job[j].at = "append"
    /\ board' = [board EXCEPT ![KindOf(j)] = Appended(@, job[j].heading, job[j].name)]
    /\ Goto(j, "done")
    /\ UNCHANGED <<second, dirs, writers, kills, dropped>>

\* The server is restarted, or the command interrupted.
Kill(j) ==
    /\ kills < MaxKills /\ job[j].at \notin {"idle", "done", "failed"}
    /\ kills' = kills + 1
    /\ job' = [job EXCEPT ![j] = [Resting(j) EXCEPT !.at = "failed"]]
    /\ UNCHANGED <<second, dirs, writers, board, dropped>>

TickSecond ==
    /\ second < LastSecond /\ second' = second + 1
    /\ UNCHANGED <<dirs, writers, board, job, kills, dropped>>

RunsInit ==
    /\ second = 0 /\ kills = 0 /\ dropped = {}
    /\ dirs = [n \in {Archived} |-> FilesOf("run")] /\ writers = [n \in {Archived} |-> {}]
    /\ \E old \in BOOLEAN :
          board = [k \in Kinds |-> IF k = "run" /\ old THEN [heading |-> "old", rows |-> <<Archived>>]
                                   ELSE [heading |-> "absent", rows |-> <<>>]]
    /\ job = [j \in Jobs |-> Resting(j)]

RunsNext ==
    \/ \E j \in Jobs : \/ MakeDirectory(j) \/ WriteFile(j) \/ FilesWritten(j) \/ ReadBoard(j)
                       \/ WriteBack(j) \/ CheckBoard(j) \/ AppendRow(j) \/ Kill(j)
    \/ TickSecond
-----------------------------------------------------------------------------
(* What the server shows.                                                      *)

\* get_backtest_run and get_portfolio_backtest.  A run without params or metrics is
\* unknown, one without trades is shown without; a portfolio is known by its
\* metrics, and a missing file of weights or sleeves is an error of the server.
Served(name) ==
    LET files == IF name \in DOMAIN dirs THEN ToSet(dirs[name]) ELSE {}
    IN IF name[1] = "run"
       THEN IF {"params", "metrics"} \subseteq files
            THEN IF "trades" \in files THEN "whole" ELSE "no trades"
            ELSE "unknown"
       ELSE IF "metrics" \notin files THEN "unknown"
            ELSE IF {"weights", "sleeves"} \subseteq files THEN "whole" ELSE "error"

\* list_backtest_runs and list_portfolio_backtests; an empty file has none.  The first
\* line names the columns, whatever it is: under a row that stands in its place the
\* others are listed without a run_id.
Shown(kind) == LET b == board[kind]
               IN IF b.heading = "row" THEN [i \in 1..(Len(b.rows) - 1) |-> NoName] ELSE b.rows
-----------------------------------------------------------------------------
(* Properties.                                                                 *)

\* A directory is one job's, and a run that a leaderboard names is served whole: a
\* restart leaves directories without a row, never a row without its files.  Rows are
\* listed without a name, and cannot be opened, only while a job rewrites the board, or
\* after one was killed.
ListedIsServed ==
    /\ \A n \in DOMAIN writers : \A i, j \in writers[n] : i = j
    /\ \A k \in Kinds : \A n \in ToSet(Shown(k)) \ {Heading, NoName} : Served(n) = "whole"
    /\ \A k \in Kinds : NoName \in ToSet(Shown(k)) =>
          kills > 0 \/ \E j \in Jobs : job[j].at = "truncated"

\* "Migrate in place (read-modify-write) so every row keeps aligning 1:1 with the
\* header" (run_backtest.py:221-224): a heading never stands among the rows.
NoStrayHeading == \A k \in Kinds : Heading \notin ToSet(Shown(k))

\* The accumulated leaderboard (backtest.py:139) keeps every row it ever had,
\* once no job rewrites it.
BoardAccumulates ==
    (\A j \in Jobs : job[j].at # "truncated") =>
        \A n \in dropped : \E k \in Kinds : n \in ToSet(Shown(k))
=============================================================================
