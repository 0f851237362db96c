------------------------------- MODULE Logger -------------------------------
(***************************************************************************)
(* The logger (logger/logger.cpp, logstream.h): threads that log lines to  *)
(* one file, which log rotates when it has grown to max_filestr.           *)
(*                                                                         *)
(* m_mutex covers the write alone: the length is counted, and the file is  *)
(* rotated (closed, renamed, opened again), without it.  Files are inodes  *)
(* behind names, as rename replaces what the new name stood for; a rotated *)
(* file is named after the second.  A line is a thread and a number, and   *)
(* counts one towards the length.                                          *)
(***************************************************************************)
EXTENDS Naturals, Sequences

CONSTANTS
  Loggers,        \* threads
  Levels,         \* levels a line may have: numbers
  log_level,      \* the level set
  max_filestr,    \* lines of a file before it is rotated; 0: never
  MaxLines,       \* bound on the lines of a thread
  MaxSecond       \* bound on the clock

VARIABLES
  inode,          \* the lines of each file made
  dir,            \* names (0 for the log file, s for one rotated in second s)
  fout,           \* m_fout: open, fail and the inode it writes to
  file_len,
  thread,         \* each thread: where it is and how many lines it has logged
  second,
  written,        \* history: lines that reached a file
  collided,       \* history: two rotations in one second
  crashed         \* rotate threw, out of a destructor

logVars == <<inode, dir, fout, file_len, thread, second, written, collided, crashed>>
fileVars == <<inode, dir, fout>>

Line(t) == <<t, thread[t].lines>>
At(t, where) == ~crashed /\ thread[t].at = where
Goto(t, where) == thread' = [thread EXCEPT ![t].at = where]

LogInit ==
  /\ inode = << <<>> >> /\ dir = [n \in {0} |-> 1]
  /\ fout = [open |-> TRUE, fail |-> FALSE, file |-> 1] /\ file_len = 0
  /\ thread = [t \in Loggers |-> [at |-> "out", lines |-> 0]]
  /\ second = 1 /\ written = {} /\ collided = FALSE /\ crashed = FALSE

-----------------------------------------------------------------------------
(* log, to the end of the formatting: nothing for a level that is not      *)
(* logged or a stream that failed.  Another thread in log may overwrite    *)
(* the new length with its own.                                            *)
Log(t, level) ==
  /\ At(t, "out") /\ thread[t].lines < MaxLines
  /\ IF log_level > level \/ fout.fail
     THEN thread' = [thread EXCEPT ![t].lines = @ + 1] /\ UNCHANGED file_len
     ELSE /\ thread' = [thread EXCEPT ![t] = [at |-> "write", lines |-> @.lines + 1]]
          /\ \/ file_len' = file_len + 1
             \/ (\E u \in Loggers \ {t} : thread[u].at # "out") /\ UNCHANGED file_len
  /\ UNCHANGED <<fileVars, second, written, collided, crashed>>

(* The write, under m_mutex: a stream another thread has closed fails. *)
LogWrite(t) ==
  /\ At(t, "write")
  /\ IF fout.open /\ ~fout.fail
     THEN /\ inode' = [inode EXCEPT ![fout.file] = Append(@, Line(t))]
          /\ written' = written \cup {Line(t)}
          /\ UNCHANGED fout
     ELSE fout' = [fout EXCEPT !.fail = TRUE] /\ UNCHANGED <<inode, written>>
  /\ Goto(t, "check")
  /\ UNCHANGED <<dir, file_len, second, collided, crashed>>

LogCheck(t) ==
  /\ At(t, "check")
  /\ Goto(t, IF max_filestr > 0 /\ file_len >= max_filestr THEN "close" ELSE "out")
  /\ UNCHANGED <<fileVars, file_len, second, written, collided, crashed>>

(* rotate: close fails on a closed stream; rename fails, and throws, if    *)
(* another thread has renamed the file and not opened it again.            *)
RotateClose(t) ==
  /\ At(t, "close") /\ Goto(t, "rename")
  /\ fout' = [fout EXCEPT !.open = FALSE, !.fail = @ \/ ~fout.open]
  /\ UNCHANGED <<inode, dir, file_len, second, written, collided, crashed>>

(* Fault: the name does not tell the rotations apart. *)
RotateRenameSame(t) ==
  /\ At(t, "rename") /\ Goto(t, "open")
  /\ IF 0 \in DOMAIN dir THEN dir' = [n \in {1} |-> dir[0]] /\ UNCHANGED crashed
     ELSE crashed' = TRUE /\ UNCHANGED dir
  /\ UNCHANGED <<inode, fout, file_len, second, written, collided>>

RotateRename(t) ==
  /\ At(t, "rename") /\ Goto(t, "open")
  /\ IF 0 \in DOMAIN dir
     THEN /\ dir' = [n \in (DOMAIN dir \ {0}) \cup {second} |-> IF n = second THEN dir[0] ELSE dir[n]]
          /\ collided' = (collided \/ second \in DOMAIN dir)
          /\ UNCHANGED crashed
     ELSE crashed' = TRUE /\ UNCHANGED <<dir, collided>>
  /\ UNCHANGED <<inode, fout, file_len, second, written>>

(* open: ios::app, to the file of the name or to a new one. *)
Open ==
  IF 0 \in DOMAIN dir
  THEN /\ fout' = [open |-> TRUE, fail |-> FALSE, file |-> dir[0]]
       /\ file_len' = Len(inode[dir[0]])
       /\ UNCHANGED <<inode, dir>>
  ELSE /\ inode' = Append(inode, <<>>)
       /\ dir' = [n \in DOMAIN dir \cup {0} |-> IF n = 0 THEN Len(inode) + 1 ELSE dir[n]]
       /\ fout' = [open |-> TRUE, fail |-> FALSE, file |-> Len(inode) + 1]
       /\ file_len' = 0

RotateOpen(t) ==
  /\ At(t, "open") /\ Goto(t, "out") /\ Open
  /\ UNCHANGED <<second, written, collided, crashed>>

Tick ==
  /\ second < MaxSecond /\ second' = second + 1
  /\ UNCHANGED <<fileVars, file_len, thread, written, collided, crashed>>

LogNext ==
  \/ \E t \in Loggers :
       \/ \E level \in Levels : Log(t, level)
       \/ LogWrite(t) \/ LogCheck(t)
       \/ RotateClose(t) \/ RotateRename(t) \/ RotateOpen(t)
  \/ Tick

LogSpec == LogInit /\ [][LogNext]_logVars

-----------------------------------------------------------------------------
(***************************************************************************)
(* A line that reached the file stays in one of the files, once, however   *)
(* the threads' writes and rotations interleave, unless the file was       *)
(* rotated twice in a second: the name of the second rotation is that of   *)
(* the first, whose lines are gone.                                        *)
(***************************************************************************)
LinesKept ==
  ~collided =>
    \A l \in written :
      \E n \in DOMAIN dir : \E i \in 1 .. Len(inode[dir[n]]) :
        /\ inode[dir[n]][i] = l
        /\ \A m \in DOMAIN dir : \A j \in 1 .. Len(inode[dir[m]]) :
             inode[dir[m]][j] = l => m = n /\ j = i
=============================================================================
