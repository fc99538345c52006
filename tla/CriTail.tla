------------------------------- MODULE CriTail -------------------------------
(***************************************************************************)
(* internal/logs/cri_tailer.go and cursor.go: the readers of the log files *)
(* of one container, the cursor store, and the kubelet that rotates and    *)
(* removes the files. Push blocks until the line is in the log WAL, which  *)
(* survives a crash (LogsWal); wal is the set of lines there.              *)
(*                                                                         *)
(* A line is its number in the order of writing; offsets count complete    *)
(* lines, since an unfinished one is not consumed. Which namespace, pod    *)
(* and service a line belongs to, and what its JSON says, is left out.     *)
(***************************************************************************)
EXTENDS Integers, Sequences, FiniteSets

CONSTANTS MaxLines,    \* bound: lines written
          MaxInodes,   \* bound: files created
          MaxReaders,  \* bound: readers started
          MaxRestarts, \* bound: restarts of the container: 0.log .. MaxRestarts.log
          MaxCrashes,  \* bound: crashes of the agent
          Chunk        \* criMaxReadPerPoll, in lines

ASSUME TailAssumption ==
  /\ MaxLines \in Nat /\ MaxInodes \in Nat /\ MaxReaders \in Nat
  /\ MaxRestarts \in Nat /\ MaxCrashes \in Nat /\ Chunk \in Nat

VARIABLES
  tags,    \* written lines: "F" complete, "P" fragment
  disk,    \* inode -> lines of that file, whether it still has a name or not
  dir,     \* N -> inode of N.log, or 0
  rd,      \* readers started by this process
  table,   \* t.readers: N -> its reader, or 0
  cursors, \* CursorStore: N -> cursor, or NoCursor
  saved,   \* the cursor file
  wal,     \* lines pushed
  crashes

vars == <<tags, disk, dir, rd, table, cursors, saved, wal, crashes>>
files == <<tags, disk, dir>>

Logs == 0 .. MaxRestarts
Lines == 1 .. MaxLines
NoCursor == [off |-> -1, ino |-> 0, from |-> 0]

\* from is no field of the code: where this reading of the file began.
Cursor == [off : Nat, ino : Nat, from : Nat] \cup {NoCursor}

Reader == [log : Logs, pc : {"start", "idle", "stat", "read", "gone"}, off : Nat, ino : Nat,
           from : Nat, size : Nat, todo : Seq(Lines), used : Nat, partial : Seq(Lines),
           closed : BOOLEAN]

TypeOK ==
  /\ tags \in Seq({"F", "P"}) /\ disk \in Seq(Seq(Lines))
  /\ dir \in [Logs -> 0 .. Len(disk)]
  /\ rd \in Seq(Reader)
  /\ table \in [Logs -> 0 .. Len(rd)]
  /\ cursors \in [Logs -> Cursor] /\ saved \in [Logs -> Cursor]
  /\ wal \subseteq 1 .. Len(tags)

Init ==
  /\ tags = <<>> /\ disk = << <<>> >> /\ dir = [n \in Logs |-> IF n = 0 THEN 1 ELSE 0]
  /\ rd = <<>> /\ table = [n \in Logs |-> 0]
  /\ cursors = [n \in Logs |-> NoCursor] /\ saved = cursors
  /\ wal = {} /\ crashes = 0

-----------------------------------------------------------------------------
(* The container and the kubelet *)

Existing == {n \in Logs : dir[n] # 0}

\* highestLogFile: the instance that runs.
Highest == CHOOSE n \in Existing : \A m \in Existing : m <= n

Write(tag) ==
  /\ Existing # {} /\ Len(tags) < MaxLines
  /\ tags' = Append(tags, tag)
  /\ disk' = [disk EXCEPT ![dir[Highest]] = Append(@, Len(tags) + 1)]
  /\ UNCHANGED <<dir, rd, table, cursors, saved, wal, crashes>>

NewFile(n) ==
  /\ Len(disk) < MaxInodes
  /\ disk' = Append(disk, <<>>)
  /\ dir' = [dir EXCEPT ![n] = Len(disk) + 1]
  /\ UNCHANGED <<tags, rd, table, cursors, saved, wal, crashes>>

\* The kubelet renames the current file and starts an empty one.
Rotate == Existing # {} /\ NewFile(Highest)

ContainerRestarts == Existing # {} /\ Highest + 1 \in Logs /\ NewFile(Highest + 1)

RemoveLog(n) ==
  /\ dir[n] # 0
  /\ dir' = [dir EXCEPT ![n] = 0]
  /\ UNCHANGED <<tags, disk, rd, table, cursors, saved, wal, crashes>>

-----------------------------------------------------------------------------
(* discover *)

NewReader(n) ==
  [log |-> n, pc |-> "start", off |-> 0, ino |-> 0, from |-> 0, size |-> 0, todo |-> <<>>,
   used |-> 0, partial |-> <<>>, closed |-> FALSE]

\* What one scan finds; a pod directory that cannot be read counts as empty.
Active(readable) == IF readable /\ Existing # {} THEN {Highest} ELSE {}

Discover(readable) ==
  LET active == Active(readable)
      fresh == {n \in active : table[n] = 0}
  IN  /\ Len(rd) + Cardinality(fresh) <= MaxReaders
      /\ rd' = [i \in DOMAIN rd |-> [rd[i] EXCEPT !.closed = @ \/ \E n \in Logs \ active : table[n] = i]]
                 \o [i \in 1 .. Cardinality(fresh) |-> NewReader(Highest)]
      /\ table' = [n \in Logs |-> IF n \in fresh THEN Len(rd) + 1 ELSE IF n \in active THEN table[n] ELSE 0]
      /\ cursors' = [n \in Logs |-> IF table[n] # 0 /\ n \notin active THEN NoCursor ELSE cursors[n]]
      /\ UNCHANGED <<files, saved, wal, crashes>>

-----------------------------------------------------------------------------
(* runReader *)

BeginBeforeEnd(i) ==
  LET r == rd[i]
      n == r.log
      at(off, ino, from) == [r EXCEPT !.pc = "idle", !.off = off, !.ino = ino, !.from = from]
      last == Len(disk[dir[n]]) - 1
  IN  /\ r.pc = "start"
      /\ rd' = [rd EXCEPT ![i] =
                 IF cursors[n] # NoCursor THEN at(cursors[n].off, cursors[n].ino, cursors[n].from)
                 ELSE IF dir[n] # 0 THEN at(last, dir[n], last)
                 ELSE at(0, 0, 0)]
      /\ UNCHANGED <<files, table, cursors, saved, wal, crashes>>

\* The first lines of runReader: resume at the cursor, or start at the end.
Begin(i) ==
  LET r == rd[i]
      n == r.log
      at(off, ino, from) == [r EXCEPT !.pc = "idle", !.off = off, !.ino = ino, !.from = from]
      eof == Len(disk[dir[n]])
  IN  /\ r.pc = "start"
      /\ rd' = [rd EXCEPT ![i] =
                 IF cursors[n] # NoCursor THEN at(cursors[n].off, cursors[n].ino, cursors[n].from)
                 ELSE IF dir[n] # 0 THEN at(eof, dir[n], eof)
                 ELSE at(0, 0, 0)]
      /\ UNCHANGED <<files, table, cursors, saved, wal, crashes>>

StatKeepingOffset(i) ==
  LET r == rd[i]
      size == Len(disk[dir[r.log]])
  IN  /\ r.pc = "idle" /\ dir[r.log] # 0
      /\ rd' = [rd EXCEPT ![i] = IF size <= r.off THEN r ELSE [r EXCEPT !.pc = "stat", !.size = size]]
      /\ UNCHANGED <<files, table, cursors, saved, wal, crashes>>

\* readOnce up to os.Open. A closed reader may still win a tick.
Stat(i) ==
  LET r == rd[i]
      ino == dir[r.log]
      size == Len(disk[ino])
      anew == ino # r.ino \/ size < r.off
      q == IF anew THEN [r EXCEPT !.off = 0, !.ino = ino, !.from = 0, !.partial = <<>>] ELSE r
  IN  /\ r.pc = "idle" /\ ino # 0
      /\ rd' = [rd EXCEPT ![i] = IF size <= q.off THEN q ELSE [q EXCEPT !.pc = "stat", !.size = size]]
      /\ UNCHANGED <<files, table, cursors, saved, wal, crashes>>

Smaller(a, b) == IF a < b THEN a ELSE b

\* What the file of that name holds now, from the offset up to the size seen before.
OpenFile(i) ==
  LET r == rd[i]
      ino == dir[r.log]
      end == Smaller(Smaller(r.size, r.off + Chunk), Len(disk[ino]))
  IN  /\ r.pc = "stat"
      /\ rd' = [rd EXCEPT ![i] =
                 IF ino = 0 THEN [r EXCEPT !.pc = "idle", !.size = 0]
                 ELSE [r EXCEPT !.pc = "read", !.size = 0, !.todo = SubSeq(disk[ino], r.off + 1, end)]]
      /\ UNCHANGED <<files, table, cursors, saved, wal, crashes>>

Elements(s) == {s[k] : k \in DOMAIN s}

\* handleLine: a fragment waits, a complete line takes the fragments with it.
HandleLine(i) ==
  LET r == rd[i]
      line == Head(r.todo)
      fragment == tags[line] = "P"
  IN  /\ r.pc = "read" /\ r.todo # <<>>
      /\ rd' = [rd EXCEPT ![i].todo = Tail(@), ![i].used = @ + 1,
                          ![i].partial = IF fragment THEN Append(@, line) ELSE <<>>]
      /\ wal' = IF fragment THEN wal ELSE wal \cup Elements(r.partial) \cup {line}
      /\ UNCHANGED <<files, table, cursors, saved, crashes>>

SetCursorEarly(i) ==
  LET r == rd[i] IN
  /\ r.pc = "read"
  /\ rd' = [rd EXCEPT ![i].pc = IF r.todo = <<>> THEN "idle" ELSE "read", ![i].off = @ + r.used, ![i].used = 0]
  /\ cursors' = [cursors EXCEPT ![r.log] = [off |-> r.off + r.used + Len(r.todo), ino |-> r.ino, from |-> r.from]]
  /\ UNCHANGED <<files, table, saved, wal, crashes>>

\* The end of readOnce.
SetCursor(i) ==
  LET r == rd[i] IN
  /\ r.pc = "read" /\ r.todo = <<>>
  /\ rd' = [rd EXCEPT ![i].pc = "idle", ![i].off = @ + r.used, ![i].used = 0]
  /\ cursors' = [cursors EXCEPT ![r.log] = [off |-> r.off + r.used, ino |-> r.ino, from |-> r.from]]
  /\ UNCHANGED <<files, table, saved, wal, crashes>>

Exit(i) ==
  /\ rd[i].pc = "idle" /\ rd[i].closed
  /\ rd' = [rd EXCEPT ![i] = [NewReader(rd[i].log) EXCEPT !.pc = "gone", !.closed = TRUE]]
  /\ UNCHANGED <<files, table, cursors, saved, wal, crashes>>

-----------------------------------------------------------------------------
(* CursorStore and the process *)

\* Flush, every 5 s and at shutdown; a failed one leaves the old file.
Flush ==
  /\ saved' = cursors
  /\ UNCHANGED <<files, rd, table, cursors, wal, crashes>>

\* The process stops anywhere; the next one loads the cursor file.
Restart ==
  /\ crashes < MaxCrashes
  /\ crashes' = crashes + 1
  /\ rd' = <<>> /\ table' = [n \in Logs |-> 0]
  /\ cursors' = saved
  /\ UNCHANGED <<files, saved, wal>>

ReaderStep(i) == Begin(i) \/ Stat(i) \/ OpenFile(i) \/ HandleLine(i) \/ SetCursor(i)

Next ==
  \/ \E tag \in {"F", "P"} : Write(tag)
  \/ Rotate \/ ContainerRestarts \/ \E n \in Logs : RemoveLog(n)
  \/ \E readable \in BOOLEAN : Discover(readable)
  \/ \E i \in DOMAIN rd : ReaderStep(i) \/ Exit(i)
  \/ Flush \/ Restart

\* Tickers tick; the log WAL takes a line in the end (LogsWal: EventuallyServed).
Fairness ==
  /\ WF_vars(Discover(TRUE))
  /\ \A i \in 1 .. MaxReaders : WF_vars(i \in DOMAIN rd /\ ReaderStep(i))

Spec == Init /\ [][Next]_vars /\ Fairness

-----------------------------------------------------------------------------
(* Properties *)

\* The cursor of a file in place, in memory or on disk, is never ahead of the WAL:
\* every complete line between the start of the reading and the offset was pushed,
\* so a crash, a replaced reader or a rotation at any moment repeats lines but does
\* not skip one. Fragments in memory at the crash are lost.
CursorBehindWal ==
  \A n \in Logs : \A c \in {cursors[n], saved[n]} :
    c # NoCursor /\ c.ino = dir[n] =>
      \A k \in c.from + 1 .. c.off : tags[disk[c.ino][k]] = "F" => disk[c.ino][k] \in wal

\* While its file stays in place and the directory stays readable, whatever is
\* written to the running container's log reaches the WAL, unless it was there
\* before the reading began.
Tailed ==
  \A n \in Logs :
    <>[](Existing # {} /\ Highest = n /\ table[n] # 0) =>
      []<>(Existing # {} /\ Highest = n /\ table[n] # 0 /\
          \A k \in DOMAIN disk[dir[n]] :
            tags[disk[dir[n]][k]] = "P" \/ disk[dir[n]][k] \in wal \/ k <= rd[table[n]].from)
=============================================================================
