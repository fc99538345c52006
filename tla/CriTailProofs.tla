---------------------------- MODULE CriTailProofs ----------------------------
(***************************************************************************)
(* Proofs about CriTail, for any number of lines, files, readers, restarts *)
(* of the container and crashes of the agent, and any size of one read.    *)
(***************************************************************************)
EXTENDS CriTail, SequenceTheorems, FiniteSetTheorems, WellFoundedInduction, TLAPS

-----------------------------------------------------------------------------
(* The inductive invariant *)

Written == 1 .. Len(tags)

\* Files hold lines that were written.
FilesWritten == Len(tags) <= MaxLines /\ disk \in Seq(Seq(Written))

\* Every complete line of the file after from, up to off, is in the log WAL.
Pushed(ino, from, off) ==
  \A k \in from + 1 .. off : tags[disk[ino][k]] = "F" => disk[ino][k] \in wal

\* Readers that are where they claim to be. A file that was renamed or removed never gets
\* its name back, so only a reader of the file in place has something to keep: what it
\* consumed was pushed, and what it holds is what follows in that file, even though the
\* file was opened by name some time after its inode was looked up.
GoodReaders ==
  {r \in Reader :
     /\ r.todo \in Seq(Written) /\ r.partial \in Seq(Written) /\ r.ino \in 0 .. Len(disk)
     /\ r.pc # "read" => r.used = 0 /\ r.todo = <<>>
     /\ r.pc \in {"stat", "read"} => r.ino # 0
     /\ r.ino # 0 /\ r.ino = dir[r.log] =>
          /\ r.off + r.used + Len(r.todo) <= Len(disk[r.ino])
          /\ \A k \in 1 .. Len(r.todo) : r.todo[k] = disk[r.ino][r.off + r.used + k]
          /\ Pushed(r.ino, r.from, r.off + r.used)}

\* Cursors from which a reader may resume.
GoodCursors ==
  [n \in Logs |->
    {c \in Cursor :
       c # NoCursor => /\ c.ino \in 1 .. Len(disk)
                       /\ c.ino = dir[n] => /\ c.off <= Len(disk[c.ino])
                                            /\ Pushed(c.ino, c.from, c.off)}]

ReadersGood == \A i \in DOMAIN rd : rd[i] \in GoodReaders

CursorsGood == \A n \in Logs : cursors[n] \in GoodCursors[n] /\ saved[n] \in GoodCursors[n]

IInv == TypeOK /\ FilesWritten /\ ReadersGood /\ CursorsGood

-----------------------------------------------------------------------------
(* Lemmas *)

\* highestLogFile finds a file when there is one.
LEMMA HighestExists == ASSUME Existing # {} PROVE Highest \in Existing /\ Highest \in Logs
<1> DEFINE T == {MaxRestarts - n : n \in Existing}
           LT == OpToRel(<, Nat)
<1>1. MaxRestarts \in Nat /\ \A n \in Existing : n \in 0 .. MaxRestarts
  BY TailAssumption DEF Existing, Logs
<1>2. \A n \in Existing : MaxRestarts - n \in Nat
  BY <1>1
<1>3. T \subseteq Nat /\ T # {}
  BY <1>2
<1>4. IsWellFoundedOn(LT, Nat)
  BY NatLessThanWellFounded
<1>5. \A x, y \in Nat : y < x => <<y, x>> \in LT
  BY DEF OpToRel
<1> HIDE DEF LT
<1>6. PICK x \in T : \A y \in T : ~(<<y, x>> \in LT)
  <2> HIDE DEF T
  <2> QED
    BY <1>3, <1>4, WFMin
<1>7. PICK n \in Existing : x = MaxRestarts - n
  BY <1>6
<1>8. ASSUME NEW m \in Existing PROVE m <= n
  <2>1. MaxRestarts - m \in T /\ MaxRestarts - m \in Nat /\ x \in Nat
    BY <1>2, <1>7
  <2>2. ~(MaxRestarts - m < x)
    BY <1>5, <1>6, <2>1
  <2>3. m \in Int /\ n \in Int /\ MaxRestarts \in Int
    BY <1>1
  <2> QED
    BY <1>7, <2>2, <2>3
<1>9. Highest \in Existing
  BY <1>8 DEF Highest
<1> QED
  BY <1>9 DEF Existing

\* What a read from an offset to an end returns.
LEMMA Window ==
  ASSUME NEW S, NEW s \in Seq(S), NEW off \in Nat, NEW end \in Nat, end <= Len(s)
  PROVE  LET t == SubSeq(s, off + 1, end)
         IN  /\ t \in Seq(S) /\ \A k \in 1 .. Len(t) : t[k] = s[off + k]
             /\ off <= Len(s) => off + Len(t) <= Len(s)
<1> DEFINE t == SubSeq(s, off + 1, end)
<1>1. \A k \in off + 1 .. end : s[k] \in S
  OBVIOUS
<1>2. /\ t \in Seq(S) /\ Len(t) = IF off + 1 <= end THEN end - (off + 1) + 1 ELSE 0
      /\ \A k \in 1 .. end - (off + 1) + 1 : t[k] = s[off + 1 + k - 1]
  BY <1>1, SubSeqProperties
<1> QED
  BY <1>2

\* Lines and files are only added, a name is given to a new file or to none, and nothing
\* leaves the log WAL.
Onward ==
  /\ tags' \in Seq({"F", "P"}) /\ disk' \in Seq(Seq(Lines))
  /\ Len(tags) <= Len(tags') /\ \A l \in Written : tags'[l] = tags[l]
  /\ Len(disk) <= Len(disk')
  /\ \A f \in 1 .. Len(disk) : /\ Len(disk[f]) <= Len(disk'[f])
                               /\ \A k \in 1 .. Len(disk[f]) : disk'[f][k] = disk[f][k]
  /\ wal \subseteq wal'
  /\ \A n \in Logs : dir'[n] = dir[n] \/ dir'[n] = 0 \/ dir'[n] > Len(disk)

\* What was pushed stays pushed.
LEMMA PushedStays ==
  ASSUME FilesWritten, Onward, NEW f \in 1 .. Len(disk), NEW from \in Nat, NEW off \in Nat,
         off <= Len(disk[f]), Pushed(f, from, off)
  PROVE  \A k \in from + 1 .. off : tags'[disk'[f][k]] = "F" => disk'[f][k] \in wal'
<1> SUFFICES ASSUME NEW k \in from + 1 .. off, tags'[disk'[f][k]] = "F" PROVE disk'[f][k] \in wal'
  OBVIOUS
<1>1. disk[f] \in Seq(Written)
  BY DEF FilesWritten
<1>2. k \in 1 .. Len(disk[f])
  BY <1>1
<1>3. /\ \A l \in Written : tags'[l] = tags[l]
      /\ \A j \in 1 .. Len(disk[f]) : disk'[f][j] = disk[f][j]
      /\ wal \subseteq wal'
  BY Zenon DEF Onward
<1>4. disk'[f][k] = disk[f][k]
  BY <1>2, <1>3, Zenon
<1>5. disk[f][k] \in Written
  BY <1>1, <1>2
<1>6. tags[disk[f][k]] = "F"
  BY <1>3, <1>4, <1>5, Zenon
<1>7. disk[f][k] \in wal
  BY <1>6, Zenon DEF Pushed
<1> QED
  BY <1>3, <1>4, <1>7, Zenon

\* A reader or a cursor that a step leaves alone stays good.
LEMMA GoodStays ==
  ASSUME TypeOK, FilesWritten, Onward
  PROVE  GoodReaders \subseteq GoodReaders' /\ \A n \in Logs : GoodCursors[n] \subseteq GoodCursors'[n]
<1>0. /\ Len(tags) \in Nat /\ Len(disk) \in Nat /\ Written \subseteq Written'
      /\ Len(tags') \in Nat /\ Len(disk') \in Nat
      /\ \A f \in 1 .. Len(disk) : Len(disk[f]) \in Nat /\ Len(disk'[f]) \in Nat
  BY DEF Onward, Written, TypeOK
<1>1. ASSUME NEW r \in GoodReaders PROVE r \in GoodReaders'
  <2>1. /\ r \in Reader /\ r.todo \in Seq(Written) /\ r.partial \in Seq(Written) /\ r.ino \in 0 .. Len(disk)
        /\ r.pc # "read" => r.used = 0 /\ r.todo = <<>>
        /\ r.pc \in {"stat", "read"} => r.ino # 0
    BY DEF GoodReaders
  <2>2. r.todo \in Seq(Written') /\ r.partial \in Seq(Written') /\ r.ino \in 0 .. Len(disk')
    BY <1>0, <2>1 DEF Onward
  <2>3. ASSUME r.ino # 0, r.ino = dir'[r.log]
        PROVE  /\ r.off + r.used + Len(r.todo) <= Len(disk'[r.ino])
               /\ \A k \in 1 .. Len(r.todo) : r.todo[k] = disk'[r.ino][r.off + r.used + k]
               /\ \A k \in r.from + 1 .. r.off + r.used :
                    tags'[disk'[r.ino][k]] = "F" => disk'[r.ino][k] \in wal'
    <3>1. r.log \in Logs /\ r.off \in Nat /\ r.used \in Nat /\ r.from \in Nat /\ Len(r.todo) \in Nat
      BY <2>1 DEF Reader
    <3>2. r.ino \in 1 .. Len(disk) /\ r.ino = dir[r.log]
      <4>1. dir'[r.log] = dir[r.log] \/ dir'[r.log] = 0 \/ dir'[r.log] > Len(disk)
        BY <3>1 DEF Onward
      <4>2. r.ino \in 1 .. Len(disk)
        BY <1>0, <2>1, <2>3
      <4> QED
        BY <1>0, <2>3, <4>1, <4>2
    <3>3. /\ r.off + r.used + Len(r.todo) <= Len(disk[r.ino])
          /\ \A k \in 1 .. Len(r.todo) : r.todo[k] = disk[r.ino][r.off + r.used + k]
          /\ Pushed(r.ino, r.from, r.off + r.used)
      BY <2>3, <3>2 DEF GoodReaders
    <3>4. /\ Len(disk[r.ino]) \in Nat /\ Len(disk[r.ino]) <= Len(disk'[r.ino])
          /\ \A k \in 1 .. Len(disk[r.ino]) : disk'[r.ino][k] = disk[r.ino][k]
      BY <1>0, <3>2 DEF Onward
    <3>5. Len(disk'[r.ino]) \in Nat
      BY <1>0, <3>2
    <3>6. \A k \in 1 .. Len(r.todo) : r.off + r.used + k \in 1 .. Len(disk[r.ino])
      BY <3>1, <3>3, <3>4
    <3>7. r.off + r.used \in Nat /\ r.off + r.used <= Len(disk[r.ino])
      BY <3>1, <3>3, <3>4
    <3>8. r.off + r.used + Len(r.todo) <= Len(disk'[r.ino])
      BY <3>1, <3>3, <3>4, <3>5
    <3>9. \A k \in 1 .. Len(r.todo) : r.todo[k] = disk'[r.ino][r.off + r.used + k]
      BY <3>3, <3>4, <3>6
    <3>10. \A k \in r.from + 1 .. r.off + r.used :
             tags'[disk'[r.ino][k]] = "F" => disk'[r.ino][k] \in wal'
      <4> DEFINE e == r.off + r.used
      <4>1. e \in Nat /\ e <= Len(disk[r.ino]) /\ Pushed(r.ino, r.from, e)
        BY <3>3, <3>7
      <4> HIDE DEF e
      <4>2. \A k \in r.from + 1 .. e : tags'[disk'[r.ino][k]] = "F" => disk'[r.ino][k] \in wal'
        BY <3>1, <3>2, <4>1, PushedStays
      <4> QED
        BY <4>2 DEF e
    <3> QED
      BY <3>8, <3>9, <3>10
  <2> QED
    BY <2>1, <2>2, <2>3 DEF GoodReaders, Pushed
<1>2. ASSUME NEW n \in Logs, NEW c \in GoodCursors[n] PROVE c \in GoodCursors'[n]
  <2>1. c \in Cursor
    BY DEF GoodCursors
  <2>2. ASSUME c # NoCursor
        PROVE  /\ c.ino \in 1 .. Len(disk')
               /\ c.ino = dir'[n] =>
                    /\ c.off <= Len(disk'[c.ino])
                    /\ \A k \in c.from + 1 .. c.off : tags'[disk'[c.ino][k]] = "F" => disk'[c.ino][k] \in wal'
    <3>1. c.ino \in 1 .. Len(disk) /\ c.off \in Nat /\ c.from \in Nat
      BY <2>1, <2>2 DEF GoodCursors, Cursor
    <3>2. c.ino \in 1 .. Len(disk')
      BY <1>0, <3>1 DEF Onward
    <3>3. ASSUME c.ino = dir'[n] PROVE c.ino = dir[n]
      <4>1. dir'[n] = dir[n] \/ dir'[n] = 0 \/ dir'[n] > Len(disk)
        BY DEF Onward
      <4> QED
        BY <1>0, <3>1, <3>3, <4>1
    <3>4. ASSUME c.ino = dir[n] PROVE c.off <= Len(disk[c.ino]) /\ Pushed(c.ino, c.from, c.off)
      BY <2>2, <3>4 DEF GoodCursors
    <3>5. Len(disk[c.ino]) \in Nat /\ Len(disk[c.ino]) <= Len(disk'[c.ino]) /\ Len(disk'[c.ino]) \in Nat
      BY <1>0, <3>1 DEF Onward
    <3>6. ASSUME c.ino = dir'[n]
          PROVE  /\ c.off <= Len(disk'[c.ino])
                 /\ \A k \in c.from + 1 .. c.off : tags'[disk'[c.ino][k]] = "F" => disk'[c.ino][k] \in wal'
      <4>1. c.off <= Len(disk[c.ino]) /\ Pushed(c.ino, c.from, c.off)
        BY <3>3, <3>4, <3>6
      <4>2. c.off <= Len(disk'[c.ino])
        BY <3>1, <3>5, <4>1
      <4>3. \A k \in c.from + 1 .. c.off : tags'[disk'[c.ino][k]] = "F" => disk'[c.ino][k] \in wal'
        BY <3>1, <4>1, PushedStays
      <4> QED
        BY <4>2, <4>3
    <3> QED
      BY <3>2, <3>6
  <2> QED
    BY <2>1, <2>2 DEF GoodCursors, Pushed
<1> QED
  BY <1>1, <1>2

\* The invariant survives a step that leaves readers and cursors alone.
LEMMA OthersGood ==
  ASSUME IInv, Onward, TypeOK', FilesWritten', UNCHANGED <<rd, cursors, saved>>
  PROVE  IInv'
<1>1. GoodReaders \subseteq GoodReaders' /\ \A n \in Logs : GoodCursors[n] \subseteq GoodCursors'[n]
  BY GoodStays DEF IInv
<1>2. ReadersGood'
  BY <1>1 DEF IInv, ReadersGood
<1>3. CursorsGood'
  BY <1>1 DEF IInv, CursorsGood
<1> QED
  BY <1>2, <1>3 DEF IInv

\* Files of fewer lines are files of more.
LEMMA Widen ==
  ASSUME NEW A, NEW B, A \subseteq B, NEW s \in Seq(Seq(A))
  PROVE  s \in Seq(Seq(B))
<1>1. \A i \in 1 .. Len(s) : s[i] \in Seq(B)
  OBVIOUS
<1> QED
  BY <1>1

LEMMA InitIInv == ASSUME Init PROVE IInv
<1>1. /\ tags = <<>> /\ disk = << <<>> >> /\ rd = <<>> /\ wal = {}
      /\ Len(tags) = 0 /\ Len(disk) = 1 /\ Len(rd) = 0
  BY DEF Init
<1>2. disk \in Seq(Seq(Lines)) /\ disk \in Seq(Seq(Written))
  BY <1>1
<1>3. NoCursor \in Cursor
  BY DEF Cursor
<1>4. TypeOK
  <2>1. dir \in [Logs -> 0 .. Len(disk)] /\ table \in [Logs -> 0 .. Len(rd)]
    BY <1>1 DEF Init
  <2>2. cursors \in [Logs -> Cursor] /\ saved \in [Logs -> Cursor]
    BY <1>3 DEF Init
  <2>3. tags \in Seq({"F", "P"}) /\ rd \in Seq(Reader)
    BY <1>1
  <2> QED
    BY <1>1, <1>2, <2>1, <2>2, <2>3 DEF TypeOK
<1>5. FilesWritten
  BY <1>1, <1>2, TailAssumption DEF FilesWritten
<1>6. ReadersGood
  BY <1>1 DEF ReadersGood
<1>7. CursorsGood
  BY <1>3 DEF CursorsGood, GoodCursors, Init
<1> QED
  BY <1>4, <1>5, <1>6, <1>7 DEF IInv

\* A line is added at the end of the file of the running instance.
LEMMA WriteKeeps == ASSUME IInv, NEW tag \in {"F", "P"}, Write(tag) PROVE IInv'
<1> USE DEF IInv
<1> DEFINE n == Len(tags)
           f == dir[Highest]
<1>1. /\ n \in Nat /\ n + 1 \in Lines /\ MaxLines \in Nat /\ tags \in Seq({"F", "P"})
      /\ disk \in Seq(Seq(Written)) /\ Len(disk) \in Nat
  BY TailAssumption DEF Write, TypeOK, FilesWritten, Lines
<1>2. f \in 1 .. Len(disk)
  BY <1>1, HighestExists DEF Write, TypeOK, Existing
<1>3. /\ tags' = Append(tags, tag) /\ tags' \in Seq({"F", "P"}) /\ Len(tags') = n + 1
      /\ \A l \in 1 .. n : tags'[l] = tags[l]
  BY <1>1 DEF Write
<1>4. /\ UNCHANGED <<dir, rd, table, cursors, saved, wal>>
      /\ disk' = [disk EXCEPT ![f] = Append(@, n + 1)]
  BY DEF Write
<1> DEFINE W == 1 .. n + 1
<1>5. disk \in Seq(Seq(W))
  BY <1>1, Widen DEF Written
<1>6. disk[f] \in Seq(W) /\ n + 1 \in W
  BY <1>1, <1>2, <1>5
<1> DEFINE g == Append(disk[f], n + 1)
<1>7. /\ g \in Seq(W) /\ Len(g) = Len(disk[f]) + 1 /\ Len(disk[f]) \in Nat
      /\ \A k \in 1 .. Len(disk[f]) : g[k] = disk[f][k]
  BY <1>6
<1> HIDE DEF g, W
<1>8. disk' = [disk EXCEPT ![f] = g]
  BY <1>4 DEF g
<1>9. disk' \in Seq(Seq(W)) /\ Len(disk') = Len(disk)
  BY <1>2, <1>5, <1>7, <1>8
<1>10. disk' \in Seq(Seq(Lines))
  <2>1. W \subseteq Lines
    BY <1>1 DEF W, Lines
  <2> QED
    BY <1>9, <2>1, Widen
<1>11. FilesWritten'
  BY <1>1, <1>3, <1>9 DEF FilesWritten, Written, W, Lines
<1>12. Onward
  <2>1. \A h \in 1 .. Len(disk) : /\ Len(disk[h]) <= Len(disk'[h])
                                  /\ \A k \in 1 .. Len(disk[h]) : disk'[h][k] = disk[h][k]
    <3> SUFFICES ASSUME NEW h \in 1 .. Len(disk)
                 PROVE  /\ Len(disk[h]) <= Len(disk'[h])
                        /\ \A k \in 1 .. Len(disk[h]) : disk'[h][k] = disk[h][k]
      OBVIOUS
    <3>1. CASE h = f
      <4>1. disk'[h] = g
        BY <1>2, <1>5, <1>8, <3>1
      <4> QED
        BY <1>7, <3>1, <4>1
    <3>2. CASE h # f
      <4>1. disk'[h] = disk[h] /\ Len(disk[h]) \in Nat
        BY <1>5, <1>8, <3>2
      <4> QED
        BY <4>1
    <3> QED
      BY <3>1, <3>2
  <2> QED
    BY <1>1, <1>3, <1>4, <1>9, <1>10, <2>1 DEF Onward, Written
<1>13. TypeOK'
  <2>1. wal' \subseteq 1 .. Len(tags')
    BY <1>1, <1>3, <1>4 DEF TypeOK
  <2>2. dir' \in [Logs -> 0 .. Len(disk')]
    BY <1>4, <1>9 DEF TypeOK
  <2> HIDE DEF f, n
  <2> QED
    BY <1>3, <1>4, <1>10, <2>1, <2>2 DEF TypeOK
<1> QED
  BY <1>4, <1>11, <1>12, <1>13, OthersGood

\* A new file gets a name; its inode was never used.
LEMMA NewFileKeeps == ASSUME IInv, NEW n \in Logs, NewFile(n) PROVE IInv'
<1> USE DEF IInv
<1>1. /\ Len(disk) \in Nat /\ disk \in Seq(Seq(Written)) /\ disk \in Seq(Seq(Lines)) /\ <<>> \in Seq(Written)
      /\ <<>> \in Seq(Lines)
  BY DEF FilesWritten, TypeOK
<1>2. /\ disk' = Append(disk, <<>>) /\ dir' = [dir EXCEPT ![n] = Len(disk) + 1]
      /\ UNCHANGED <<tags, rd, table, cursors, saved, wal>>
  BY DEF NewFile
<1>3. /\ disk' \in Seq(Seq(Written)) /\ disk' \in Seq(Seq(Lines)) /\ Len(disk') = Len(disk) + 1
      /\ \A f \in 1 .. Len(disk) : disk'[f] = disk[f]
  BY <1>1, <1>2
<1>4. TypeOK'
  <2>0. 0 .. Len(disk) \subseteq 0 .. Len(disk') /\ Len(disk) + 1 \in 0 .. Len(disk')
    BY <1>1, <1>3
  <2>1. dir' \in [Logs -> 0 .. Len(disk')]
    BY <1>2, <2>0 DEF TypeOK
  <2> QED
    BY <1>2, <1>3, <2>1 DEF TypeOK
<1>5. FilesWritten'
  BY <1>2, <1>3 DEF FilesWritten, Written
<1>6. Onward
  <2>1. \A m \in Logs : dir'[m] = dir[m] \/ dir'[m] > Len(disk)
    BY <1>1, <1>2 DEF TypeOK
  <2>2. \A f \in 1 .. Len(disk) : Len(disk[f]) \in Nat
    BY <1>1
  <2>3. tags' \in Seq({"F", "P"}) /\ Len(tags) \in Nat
    BY <1>2 DEF TypeOK
  <2> QED
    BY <1>1, <1>2, <1>3, <2>1, <2>2, <2>3 DEF Onward
<1> QED
  BY <1>2, <1>4, <1>5, <1>6, OthersGood

\* Nothing but names and the log WAL changes.
LEMMA Same ==
  ASSUME IInv, UNCHANGED <<tags, disk>>, wal \subseteq wal',
         \A n \in Logs : dir'[n] = dir[n] \/ dir'[n] = 0
  PROVE  Onward /\ FilesWritten' /\ Written' = Written
<1>1. /\ tags' \in Seq({"F", "P"}) /\ disk' \in Seq(Seq(Lines)) /\ Len(tags) \in Nat /\ Len(disk) \in Nat
      /\ \A f \in 1 .. Len(disk) : Len(disk[f]) \in Nat
  BY DEF IInv, TypeOK
<1> QED
  BY <1>1 DEF IInv, Onward, FilesWritten, Written

LEMMA RemoveLogKeeps == ASSUME IInv, NEW n \in Logs, RemoveLog(n) PROVE IInv'
<1>1. /\ dir' = [dir EXCEPT ![n] = 0] /\ UNCHANGED <<tags, disk, rd, table, cursors, saved, wal>>
  BY DEF RemoveLog
<1>2. TypeOK'
  <2>1. dir' \in [Logs -> 0 .. Len(disk)]
    BY <1>1 DEF IInv, TypeOK
  <2> QED
    BY <1>1, <2>1 DEF IInv, TypeOK
<1>3. \A m \in Logs : dir'[m] = dir[m] \/ dir'[m] = 0
  BY <1>1 DEF IInv, TypeOK
<1> QED
  BY <1>1, <1>2, <1>3, Same, OthersGood

-----------------------------------------------------------------------------
(* The steps of a reader *)

LEMMA FieldsGood ==
  ASSUME IInv, NEW i \in DOMAIN rd
  PROVE  LET r == rd[i] IN
         /\ r \in GoodReaders /\ r \in Reader /\ r.log \in Logs /\ r.off \in Nat /\ r.used \in Nat
         /\ r.from \in Nat /\ r.size \in Nat /\ r.ino \in Nat /\ r.todo \in Seq(Written)
         /\ r.partial \in Seq(Written) /\ r.ino \in 0 .. Len(disk) /\ Len(disk) \in Nat
         /\ dir[r.log] \in 0 .. Len(disk) /\ dir[r.log] \in Nat
         /\ \A f \in 1 .. Len(disk) : disk[f] \in Seq(Written) /\ Len(disk[f]) \in Nat
<1>1. rd[i] \in GoodReaders
  BY DEF IInv, ReadersGood
<1>2. rd[i] \in Reader /\ rd[i].todo \in Seq(Written) /\ rd[i].partial \in Seq(Written)
      /\ rd[i].ino \in 0 .. Len(disk)
  BY <1>1 DEF GoodReaders
<1>3. rd[i].log \in Logs
  BY <1>2 DEF Reader
<1>4. dir[rd[i].log] \in 0 .. Len(disk) /\ Len(disk) \in Nat
  BY <1>3 DEF IInv, TypeOK
<1>5. \A f \in 1 .. Len(disk) : disk[f] \in Seq(Written) /\ Len(disk[f]) \in Nat
  BY DEF IInv, FilesWritten
<1> QED
  BY <1>1, <1>2, <1>3, <1>4, <1>5 DEF Reader

\* One reader moves and perhaps sets its cursor or pushes lines.
LEMMA ReaderMoves ==
  ASSUME IInv, NEW i \in DOMAIN rd, NEW q, rd' = [rd EXCEPT ![i] = q], q \in GoodReaders',
         UNCHANGED <<tags, disk, dir, table, saved>>, wal \subseteq wal', wal' \subseteq 1 .. Len(tags),
         cursors' \in [Logs -> Cursor],
         \A n \in Logs : cursors'[n] = cursors[n] \/ cursors'[n] \in GoodCursors'[n]
  PROVE  IInv'
<1>1. Onward /\ FilesWritten' /\ Written' = Written
  BY Same
<1>2. GoodReaders \subseteq GoodReaders' /\ \A n \in Logs : GoodCursors[n] \subseteq GoodCursors'[n]
  BY <1>1, GoodStays DEF IInv
<1>3. q \in Reader
  BY DEF GoodReaders
<1>4. rd \in Seq(Reader) /\ rd' \in Seq(Reader) /\ Len(rd') = Len(rd) /\ DOMAIN rd' = DOMAIN rd
  BY <1>3 DEF IInv, TypeOK
<1>5. TypeOK'
  BY <1>4 DEF IInv, TypeOK
<1>6. ReadersGood'
  <2> SUFFICES ASSUME NEW j \in DOMAIN rd PROVE rd'[j] \in GoodReaders'
    BY <1>4 DEF ReadersGood
  <2>1. CASE j = i
    BY <2>1
  <2>2. CASE j # i
    BY <1>2, <2>2 DEF IInv, ReadersGood
  <2> QED
    BY <2>1, <2>2
<1>7. CursorsGood'
  BY <1>2 DEF IInv, CursorsGood
<1> QED
  BY <1>1, <1>5, <1>6, <1>7 DEF IInv

\* ... without pushing or setting a cursor.
LEMMA ReaderTurns ==
  ASSUME IInv, NEW i \in DOMAIN rd, NEW q, rd' = [rd EXCEPT ![i] = q], q \in GoodReaders,
         UNCHANGED <<tags, disk, dir, table, cursors, saved, wal>>
  PROVE  IInv'
<1>1. GoodReaders' = GoodReaders
  BY DEF GoodReaders, Pushed, Written
<1>2. wal' \subseteq 1 .. Len(tags) /\ cursors' \in [Logs -> Cursor]
  BY DEF IInv, TypeOK
<1> QED
  BY <1>1, <1>2, ReaderMoves

\* A reader that holds nothing is good if what it consumed was pushed.
LEMMA Resting ==
  ASSUME NEW p \in Reader, p.pc # "read", p.pc = "stat" => p.ino # 0, p.used = 0, p.todo = <<>>,
         p.partial \in Seq(Written), p.ino \in 0 .. Len(disk),
         p.ino # 0 /\ p.ino = dir[p.log] => p.off <= Len(disk[p.ino]) /\ Pushed(p.ino, p.from, p.off)
  PROVE  p \in GoodReaders
<1>1. p.todo \in Seq(Written) /\ Len(p.todo) = 0 /\ p.off \in Nat
  BY DEF Reader
<1>2. p.off + p.used + Len(p.todo) = p.off /\ p.off + p.used = p.off
  BY <1>1
<1>3. p.ino # 0 /\ p.ino = dir[p.log] =>
        /\ p.off + p.used + Len(p.todo) <= Len(disk[p.ino])
        /\ \A k \in 1 .. Len(p.todo) : p.todo[k] = disk[p.ino][p.off + p.used + k]
        /\ Pushed(p.ino, p.from, p.off + p.used)
  BY <1>1, <1>2
<1> QED
  BY <1>1, <1>3 DEF GoodReaders

\* A reader begins at a good cursor, or with nothing read.
LEMMA BeginKeeps == ASSUME IInv, NEW i \in DOMAIN rd, Begin(i) PROVE IInv'
<1> DEFINE r == rd[i]
           n == r.log
           at(off, ino, from) == [r EXCEPT !.pc = "idle", !.off = off, !.ino = ino, !.from = from]
           eof == Len(disk[dir[n]])
           q == IF cursors[n] # NoCursor THEN at(cursors[n].off, cursors[n].ino, cursors[n].from)
                ELSE IF dir[n] # 0 THEN at(eof, dir[n], eof)
                ELSE at(0, 0, 0)
<1>1. r.pc = "start" /\ rd' = [rd EXCEPT ![i] = q]
      /\ UNCHANGED <<tags, disk, dir, table, cursors, saved, wal>>
  BY DEF Begin, files
<1>2. r.used = 0 /\ r.todo = <<>>
  BY <1>1, FieldsGood DEF GoodReaders
<1>3. ASSUME NEW off \in Nat, NEW ino \in 0 .. Len(disk), NEW from \in Nat,
             ino # 0 /\ ino = dir[n] => off <= Len(disk[ino]) /\ Pushed(ino, from, off)
      PROVE  at(off, ino, from) \in GoodReaders
  <2> DEFINE p == at(off, ino, from)
  <2>0. r \in Reader /\ ino \in Nat
    BY FieldsGood
  <2>1. p \in Reader
    BY <2>0 DEF Reader
  <2>2. /\ p.todo = <<>> /\ p.used = 0 /\ p.partial = r.partial /\ p.ino = ino /\ p.off = off
        /\ p.from = from /\ p.pc = "idle" /\ p.log = n
    BY <1>2, FieldsGood DEF Reader
  <2> HIDE DEF p
  <2>3. p.partial \in Seq(Written)
    BY <2>2, FieldsGood
  <2>4. p \in GoodReaders
    BY <1>3, <2>1, <2>2, <2>3, Resting
  <2> QED
    BY <2>4 DEF p
<1>4. q \in GoodReaders
  <2>1. CASE cursors[n] # NoCursor
    <3>1. n \in Logs /\ cursors[n] \in GoodCursors[n]
      BY FieldsGood DEF IInv, CursorsGood
    <3>2. cursors[n].off \in Nat /\ cursors[n].ino \in 1 .. Len(disk) /\ cursors[n].from \in Nat
      BY <2>1, <3>1 DEF GoodCursors, Cursor
    <3>3. cursors[n].ino = dir[n] =>
            cursors[n].off <= Len(disk[cursors[n].ino]) /\ Pushed(cursors[n].ino, cursors[n].from, cursors[n].off)
      BY <2>1, <3>1 DEF GoodCursors
    <3>4. cursors[n].ino \in 0 .. Len(disk)
      BY <3>2
    <3> HIDE DEF r, n, at
    <3> QED
      BY <1>3, <2>1, <3>2, <3>3, <3>4
  <2>2. CASE cursors[n] = NoCursor /\ dir[n] # 0
    <3>1. dir[n] \in 0 .. Len(disk) /\ eof \in Nat /\ eof <= Len(disk[dir[n]])
      BY <2>2, FieldsGood
    <3>2. Pushed(dir[n], eof, eof)
      BY <3>1 DEF Pushed
    <3> HIDE DEF r, n, at, eof
    <3>3. at(eof, dir[n], eof) \in GoodReaders
      BY <1>3, <3>1, <3>2
    <3> QED
      BY <2>2, <3>3
  <2>3. CASE cursors[n] = NoCursor /\ dir[n] = 0
    <3>1. 0 \in 0 .. Len(disk)
      BY FieldsGood
    <3> HIDE DEF r, n, at
    <3>2. at(0, 0, 0) \in GoodReaders
      BY <1>3, <3>1
    <3> QED
      BY <2>3, <3>2
  <2> QED
    BY <2>1, <2>2, <2>3
<1> HIDE DEF q
<1> QED
  BY <1>1, <1>4, ReaderTurns

\* The facts about a reader that holds nothing, and about the file it reads.
LEMMA RestingGood ==
  ASSUME IInv, NEW i \in DOMAIN rd, rd[i].pc # "read"
  PROVE  LET r == rd[i] IN
         /\ r.used = 0 /\ r.todo = <<>> /\ (r.pc = "stat" => r.ino # 0)
         /\ r.ino # 0 /\ r.ino = dir[r.log] => r.off <= Len(disk[r.ino]) /\ Pushed(r.ino, r.from, r.off)
<1>1. /\ rd[i].used = 0 /\ rd[i].todo = <<>> /\ (rd[i].pc = "stat" => rd[i].ino # 0)
      /\ rd[i].ino # 0 /\ rd[i].ino = dir[rd[i].log] =>
           /\ rd[i].off + rd[i].used + Len(rd[i].todo) <= Len(disk[rd[i].ino])
           /\ Pushed(rd[i].ino, rd[i].from, rd[i].off + rd[i].used)
  BY FieldsGood DEF GoodReaders
<1>2. rd[i].off + rd[i].used + Len(rd[i].todo) = rd[i].off /\ rd[i].off + rd[i].used = rd[i].off
  BY <1>1, FieldsGood
<1> QED
  BY <1>1, <1>2

\* A file of another inode, or a shorter one, is read from its start.
LEMMA StatKeeps == ASSUME IInv, NEW i \in DOMAIN rd, Stat(i) PROVE IInv'
<1> DEFINE r == rd[i]
           ino == dir[r.log]
           size == Len(disk[ino])
           anew == ino # r.ino \/ size < r.off
           q == IF anew THEN [r EXCEPT !.off = 0, !.ino = ino, !.from = 0, !.partial = <<>>] ELSE r
           p == IF size <= q.off THEN q ELSE [q EXCEPT !.pc = "stat", !.size = size]
<1>1. /\ r.pc = "idle" /\ ino # 0 /\ rd' = [rd EXCEPT ![i] = p]
      /\ UNCHANGED <<tags, disk, dir, table, cursors, saved, wal>>
  BY DEF Stat, files
<1>2. /\ r \in Reader /\ r.used = 0 /\ r.todo = <<>> /\ r.partial \in Seq(Written)
      /\ r.ino # 0 /\ r.ino = dir[r.log] => r.off <= Len(disk[r.ino]) /\ Pushed(r.ino, r.from, r.off)
  BY <1>1, FieldsGood, RestingGood
<1>3. ino \in 0 .. Len(disk) /\ ino \in Nat /\ size \in Nat
  BY <1>1, FieldsGood
<1>4. /\ q \in Reader /\ q.pc = "idle" /\ q.ino = ino /\ q.used = 0 /\ q.todo = <<>> /\ q.log = r.log
      /\ q.partial \in Seq(Written) /\ q.off <= size /\ Pushed(ino, q.from, q.off)
  <2>1. CASE anew
    <3>1. /\ q \in Reader /\ q.pc = "idle" /\ q.ino = ino /\ q.used = 0 /\ q.todo = <<>> /\ q.log = r.log
          /\ q.partial = <<>> /\ q.off = 0 /\ q.from = 0
      BY <1>1, <1>2, <1>3, <2>1 DEF Reader
    <3>2. Pushed(ino, 0, 0) /\ <<>> \in Seq(Written)
      BY DEF Pushed
    <3> HIDE DEF q, r, anew
    <3> QED
      BY <1>3, <3>1, <3>2
  <2>2. CASE ~anew
    <3>1. q = r /\ ino = r.ino
      BY <2>2
    <3> HIDE DEF q, r, anew
    <3> QED
      BY <1>1, <1>2, <3>1
  <2> QED
    BY <2>1, <2>2
<1> HIDE DEF q
<1>5. /\ p \in Reader /\ p.pc \in {"idle", "stat"} /\ p.ino = ino /\ p.used = 0 /\ p.todo = <<>>
      /\ p.log = r.log /\ p.partial = q.partial /\ p.off = q.off /\ p.from = q.from
  BY <1>3, <1>4 DEF Reader
<1> HIDE DEF p, r
<1>6. p \in GoodReaders
  BY <1>1, <1>3, <1>4, <1>5, Resting
<1> QED
  BY <1>1, <1>6, ReaderTurns

\* The file is opened by its name, which may be that of a newer file by now.
LEMMA OpenFileKeeps == ASSUME IInv, NEW i \in DOMAIN rd, OpenFile(i) PROVE IInv'
<1> DEFINE r == rd[i]
           ino == dir[r.log]
           end == Smaller(Smaller(r.size, r.off + Chunk), Len(disk[ino]))
           t == SubSeq(disk[ino], r.off + 1, end)
           p == IF ino = 0 THEN [r EXCEPT !.pc = "idle", !.size = 0]
                ELSE [r EXCEPT !.pc = "read", !.size = 0, !.todo = t]
<1>1. /\ r.pc = "stat" /\ rd' = [rd EXCEPT ![i] = p]
      /\ UNCHANGED <<tags, disk, dir, table, cursors, saved, wal>>
  BY DEF OpenFile, files
<1>2. /\ r \in Reader /\ r.used = 0 /\ r.todo = <<>> /\ r.partial \in Seq(Written) /\ r.ino # 0
      /\ r.ino \in 0 .. Len(disk) /\ r.off \in Nat /\ r.size \in Nat
      /\ r.ino = dir[r.log] => r.off <= Len(disk[r.ino]) /\ Pushed(r.ino, r.from, r.off)
  BY <1>1, FieldsGood, RestingGood
<1>3. CASE ino = 0
  <2>1. /\ p \in Reader /\ p.pc = "idle" /\ p.ino = r.ino /\ p.used = 0 /\ p.todo = <<>>
        /\ p.log = r.log /\ p.partial = r.partial /\ p.off = r.off /\ p.from = r.from
    BY <1>2, <1>3 DEF Reader
  <2> HIDE DEF p, r
  <2>2. p \in GoodReaders
    BY <1>2, <2>1, Resting
  <2> QED
    BY <1>1, <2>2, ReaderTurns
<1>4. CASE ino # 0
  <2>1. ino \in 1 .. Len(disk) /\ disk[ino] \in Seq(Written) /\ Len(disk[ino]) \in Nat
    BY <1>4, FieldsGood
  <2>2. end \in Nat /\ end <= Len(disk[ino])
    BY <1>2, <2>1, TailAssumption DEF Smaller
  <2>3. /\ t \in Seq(Written) /\ \A k \in 1 .. Len(t) : t[k] = disk[ino][r.off + k]
        /\ r.off <= Len(disk[ino]) => r.off + Len(t) <= Len(disk[ino])
    <3> HIDE DEF r, end
    <3> QED
      BY <1>2, <2>1, <2>2, Window
  <2> HIDE DEF t
  <2>4. t \in Seq(Lines)
    <3>1. Written \subseteq Lines
      BY TailAssumption DEF IInv, FilesWritten, TypeOK, Written, Lines
    <3> QED
      BY <2>3, <3>1
  <2>5. /\ p \in Reader /\ p.pc = "read" /\ p.ino = r.ino /\ p.used = 0 /\ p.todo = t
        /\ p.log = r.log /\ p.partial = r.partial /\ p.off = r.off /\ p.from = r.from
    BY <1>2, <1>4, <2>4 DEF Reader
  <2> HIDE DEF p, r
  <2>6. p.off + p.used = r.off
    BY <1>2, <2>5
  <2>7. p.ino # 0 /\ p.ino = dir[p.log] =>
          /\ p.off + p.used + Len(p.todo) <= Len(disk[p.ino])
          /\ \A k \in 1 .. Len(p.todo) : p.todo[k] = disk[p.ino][p.off + p.used + k]
          /\ Pushed(p.ino, p.from, p.off + p.used)
    BY <1>2, <2>3, <2>5, <2>6
  <2>8. p \in GoodReaders
    BY <1>2, <2>3, <2>5, <2>7 DEF GoodReaders
  <2> QED
    BY <1>1, <2>8, ReaderTurns
<1> QED
  BY <1>3, <1>4

\* A complete line is pushed before it is counted as consumed.
LEMMA HandleLineKeeps == ASSUME IInv, NEW i \in DOMAIN rd, HandleLine(i) PROVE IInv'
<1> DEFINE r == rd[i]
           line == Head(r.todo)
           fragment == tags[line] = "P"
           rest == Tail(r.todo)
           held == IF fragment THEN Append(r.partial, line) ELSE <<>>
           p == [r EXCEPT !.todo = rest, !.used = r.used + 1, !.partial = held]
<1>0. /\ r \in Reader /\ r.todo \in Seq(Written) /\ r.partial \in Seq(Written) /\ r.ino \in 0 .. Len(disk)
      /\ r.log \in Logs /\ r.off \in Nat /\ r.used \in Nat /\ r.from \in Nat
  BY FieldsGood
<1>1. /\ r.pc = "read" /\ r.todo # <<>>
      /\ wal' = IF fragment THEN wal ELSE wal \cup Elements(r.partial) \cup {line}
      /\ UNCHANGED <<tags, disk, dir, table, cursors, saved>>
  BY DEF HandleLine, files
<1>2. rd' = [rd EXCEPT ![i] = p]
  BY <1>0 DEF HandleLine, Reader, IInv, TypeOK
<1>3. /\ line \in Written /\ rest \in Seq(Written) /\ Len(r.todo) \in Nat /\ Len(r.todo) = Len(rest) + 1
      /\ Len(rest) \in Nat /\ line = r.todo[1] /\ \A k \in 1 .. Len(rest) : rest[k] = r.todo[k + 1]
  BY <1>0, <1>1
<1>4. held \in Seq(Written)
  BY <1>0, <1>3
<1>5. wal \subseteq wal' /\ wal' \subseteq 1 .. Len(tags) /\ (fragment \/ line \in wal')
  <2>1. Elements(r.partial) \subseteq Written
    BY <1>0 DEF Elements
  <2> HIDE DEF r, line
  <2> QED
    BY <1>1, <1>3, <2>1 DEF IInv, TypeOK, Written
<1>6. Written \subseteq Lines
  BY TailAssumption DEF IInv, FilesWritten, TypeOK, Written, Lines
<1>7. rest \in Seq(Lines) /\ held \in Seq(Lines)
  <2> HIDE DEF rest, held
  <2> QED
    BY <1>3, <1>4, <1>6
<1> HIDE DEF rest, held, line
<1>8. /\ p \in Reader /\ p.pc = "read" /\ p.ino = r.ino /\ p.used = r.used + 1 /\ p.todo = rest
      /\ p.log = r.log /\ p.partial = held /\ p.off = r.off /\ p.from = r.from
  <2>1. r.pc = "read" /\ r.used + 1 \in Nat
    BY <1>0, <1>1
  <2> HIDE DEF r
  <2>2. p \in Reader
    BY <1>0, <1>7, <2>1 DEF Reader
  <2> QED
    BY <1>0, <2>1, <2>2 DEF Reader
<1>9. r.ino # 0
  BY <1>1, FieldsGood DEF GoodReaders
<1>10. ASSUME p.ino = dir[p.log]
       PROVE  /\ p.off + p.used + Len(p.todo) <= Len(disk[p.ino])
              /\ \A k \in 1 .. Len(p.todo) : p.todo[k] = disk[p.ino][p.off + p.used + k]
              /\ \A k \in p.from + 1 .. p.off + p.used :
                   tags[disk[p.ino][k]] = "F" => disk[p.ino][k] \in wal'
  <2>1. /\ r.off + r.used + Len(r.todo) <= Len(disk[r.ino])
        /\ \A k \in 1 .. Len(r.todo) : r.todo[k] = disk[r.ino][r.off + r.used + k]
        /\ Pushed(r.ino, r.from, r.off + r.used)
    BY <1>8, <1>9, <1>10, FieldsGood DEF GoodReaders
  <2> DEFINE a == r.off + r.used
  <2>2. a \in Nat /\ p.off + p.used = a + 1 /\ Len(disk[r.ino]) \in Nat
    <3>1. Len(disk[r.ino]) \in Nat
      BY <1>0, <1>9, FieldsGood
    <3> HIDE DEF r, p
    <3> QED
      BY <1>0, <1>8, <3>1
  <2>3. line = disk[r.ino][a + 1]
    BY <1>3, <2>1
  <2>4. \A k \in 1 .. Len(rest) : rest[k] = disk[r.ino][a + 1 + k]
    <3> SUFFICES ASSUME NEW k \in 1 .. Len(rest) PROVE rest[k] = disk[r.ino][a + 1 + k]
      OBVIOUS
    <3>1. k + 1 \in 1 .. Len(r.todo) /\ a + (k + 1) = a + 1 + k
      BY <1>3, <2>2
    <3> QED
      BY <1>3, <2>1, <3>1
  <2>5. a + 1 + Len(rest) <= Len(disk[r.ino])
    BY <1>3, <2>1, <2>2
  <2>6. \A k \in r.from + 1 .. a : tags[disk[r.ino][k]] = "F" => disk[r.ino][k] \in wal'
    BY <1>5, <2>1 DEF Pushed
  <2> HIDE DEF a, r, p
  <2>7. \A k \in r.from + 1 .. a + 1 : tags[disk[r.ino][k]] = "F" => disk[r.ino][k] \in wal'
    <3> SUFFICES ASSUME NEW k \in r.from + 1 .. a + 1, tags[disk[r.ino][k]] = "F"
                 PROVE  disk[r.ino][k] \in wal'
      OBVIOUS
    <3>1. CASE k = a + 1
      BY <1>5, <2>3, <3>1
    <3>2. CASE k # a + 1
      BY <1>0, <2>2, <2>6, <3>2
    <3> QED
      BY <3>1, <3>2
  <2> QED
    BY <1>8, <2>2, <2>4, <2>5, <2>7
<1>11. p \in GoodReaders'
  <2> HIDE DEF p, r
  <2>1. Written' = Written
    BY <1>1 DEF Written
  <2> QED
    BY <1>0, <1>1, <1>3, <1>4, <1>8, <1>9, <1>10, <2>1 DEF GoodReaders, Pushed
<1>12. cursors' \in [Logs -> Cursor]
  BY <1>1 DEF IInv, TypeOK
<1> HIDE DEF p, r
<1> QED
  BY <1>1, <1>2, <1>5, <1>11, <1>12, ReaderMoves

\* The cursor is set to what was consumed.
LEMMA SetCursorKeeps == ASSUME IInv, NEW i \in DOMAIN rd, SetCursor(i) PROVE IInv'
<1> DEFINE r == rd[i]
           a == r.off + r.used
           p == [r EXCEPT !.pc = "idle", !.off = a, !.used = 0]
           c == [off |-> a, ino |-> r.ino, from |-> r.from]
<1>0. /\ r \in Reader /\ r.partial \in Seq(Written) /\ r.ino \in 0 .. Len(disk) /\ r.ino \in Nat
      /\ r.log \in Logs /\ r.off \in Nat /\ r.used \in Nat /\ r.from \in Nat /\ a \in Nat
  BY FieldsGood
<1>1. /\ r.pc = "read" /\ r.todo = <<>> /\ cursors' = [cursors EXCEPT ![r.log] = c]
      /\ UNCHANGED <<tags, disk, dir, table, saved, wal>>
  BY DEF SetCursor, files
<1>2. rd' = [rd EXCEPT ![i] = p]
  BY <1>0 DEF SetCursor, Reader, IInv, TypeOK
<1>3. r.ino # 0
  BY <1>1, FieldsGood DEF GoodReaders
<1>4. r.ino = dir[r.log] => a <= Len(disk[r.ino]) /\ Pushed(r.ino, r.from, a)
  <2>1. r.ino = dir[r.log] => a + Len(r.todo) <= Len(disk[r.ino]) /\ Pushed(r.ino, r.from, a)
    BY <1>3, FieldsGood DEF GoodReaders
  <2>2. a + Len(r.todo) = a
    BY <1>0, <1>1
  <2> QED
    BY <2>1, <2>2
<1> HIDE DEF a
<1>5. /\ p \in Reader /\ p.pc = "idle" /\ p.ino = r.ino /\ p.used = 0 /\ p.todo = <<>>
      /\ p.log = r.log /\ p.partial = r.partial /\ p.off = a /\ p.from = r.from
  BY <1>0, <1>1 DEF Reader
<1>6. c \in Cursor /\ c.off = a /\ c.ino = r.ino /\ c.from = r.from
  BY <1>0 DEF Cursor
<1> HIDE DEF p, c, r
<1>7. GoodReaders' = GoodReaders /\ GoodCursors' = GoodCursors
  BY <1>1 DEF GoodReaders, GoodCursors, Pushed, Written
<1>8. p \in GoodReaders
  BY <1>0, <1>4, <1>5, Resting
<1>9. r.ino \in 1 .. Len(disk)
  BY <1>0, <1>3
<1>10. c \in GoodCursors[r.log]
  BY <1>0, <1>4, <1>6, <1>9 DEF GoodCursors
<1>11. cursors' \in [Logs -> Cursor]
  BY <1>1, <1>6 DEF IInv, TypeOK
<1>12. \A n \in Logs : cursors'[n] = cursors[n] \/ cursors'[n] \in GoodCursors'[n]
  BY <1>1, <1>7, <1>10 DEF IInv, TypeOK
<1>13. wal' \subseteq 1 .. Len(tags)
  BY <1>1 DEF IInv, TypeOK
<1> QED
  BY <1>1, <1>2, <1>7, <1>8, <1>11, <1>12, <1>13, ReaderMoves

\* A reader that has read nothing is good.
LEMMA NewGood ==
  ASSUME NEW n \in Logs, Len(disk) \in Nat
  PROVE  /\ NewReader(n) \in GoodReaders
         /\ [NewReader(n) EXCEPT !.pc = "gone", !.closed = TRUE] \in GoodReaders
<1> DEFINE q == NewReader(n)
           p == [q EXCEPT !.pc = "gone", !.closed = TRUE]
<1>1. <<>> \in Seq(Lines) /\ <<>> \in Seq(Written) /\ 0 \in Nat /\ 0 \in 0 .. Len(disk)
  OBVIOUS
<1>2. /\ q \in Reader /\ q.pc = "start" /\ q.used = 0 /\ q.todo = <<>> /\ q.partial = <<>> /\ q.ino = 0
  BY <1>1 DEF Reader, NewReader
<1> HIDE DEF q
<1>3. /\ p \in Reader /\ p.pc = "gone" /\ p.used = 0 /\ p.todo = <<>> /\ p.partial = <<>> /\ p.ino = 0
  BY <1>2 DEF Reader
<1> HIDE DEF p
<1>4. q \in GoodReaders
  BY <1>1, <1>2, Resting
<1>5. p \in GoodReaders
  BY <1>1, <1>3, Resting
<1> QED
  BY <1>4, <1>5 DEF q, p

LEMMA ExitKeeps == ASSUME IInv, NEW i \in DOMAIN rd, Exit(i) PROVE IInv'
<1> DEFINE p == [NewReader(rd[i].log) EXCEPT !.pc = "gone", !.closed = TRUE]
<1>1. rd' = [rd EXCEPT ![i] = p] /\ UNCHANGED <<tags, disk, dir, table, cursors, saved, wal>>
  BY DEF Exit, files
<1>2. p \in GoodReaders
  BY FieldsGood, NewGood
<1> HIDE DEF p
<1> QED
  BY <1>1, <1>2, ReaderTurns

\* Readers are told to stop, at most one starts, and the cursors of those stopped go.
LEMMA DiscoverKeeps == ASSUME IInv, NEW readable \in BOOLEAN, Discover(readable) PROVE IInv'
<1> DEFINE active == Active(readable)
           fresh == {n \in active : table[n] = 0}
           stop(i) == \E n \in Logs \ active : table[n] = i
           A == [i \in DOMAIN rd |-> [rd[i] EXCEPT !.closed = @ \/ stop(i)]]
           B == [i \in 1 .. Cardinality(fresh) |-> NewReader(Highest)]
<1>1. /\ rd' = A \o B
      /\ table' = [n \in Logs |-> IF n \in fresh THEN Len(rd) + 1 ELSE IF n \in active THEN table[n] ELSE 0]
      /\ cursors' = [n \in Logs |-> IF table[n] # 0 /\ n \notin active THEN NoCursor ELSE cursors[n]]
      /\ UNCHANGED <<tags, disk, dir, saved, wal>>
  BY DEF Discover, files
<1>2. /\ rd \in Seq(Reader) /\ Len(rd) \in Nat /\ DOMAIN rd = 1 .. Len(rd) /\ Len(disk) \in Nat
      /\ table \in [Logs -> 0 .. Len(rd)] /\ cursors \in [Logs -> Cursor] /\ saved \in [Logs -> Cursor]
  BY DEF IInv, TypeOK
<1>3. fresh = {} \/ (fresh = {Highest} /\ Highest \in Logs)
  BY HighestExists DEF Active
<1>4. /\ Cardinality(fresh) \in Nat /\ (fresh # {} => Cardinality(fresh) = 1)
      /\ (Cardinality(fresh) # 0 => Highest \in Logs)
  <2>1. CASE fresh = {}
    BY <2>1, FS_EmptySet
  <2>2. CASE fresh = {Highest} /\ Highest \in Logs
    BY <2>2, FS_Singleton
  <2> QED
    BY <1>3, <2>1, <2>2
<1>5. ASSUME NEW i \in DOMAIN rd PROVE A[i] \in GoodReaders
  <2> DEFINE r == rd[i]
             b == r.closed \/ stop(i)
             p == [r EXCEPT !.closed = b]
  <2>1. r \in GoodReaders
    BY FieldsGood
  <2>2. A[i] = p
    OBVIOUS
  <2>3. b \in BOOLEAN
    OBVIOUS
  <2> HIDE DEF b, r
  <2>4. r \in Reader
    BY <2>1 DEF GoodReaders
  <2>5. /\ p \in Reader /\ p.log = r.log /\ p.pc = r.pc /\ p.off = r.off /\ p.ino = r.ino /\ p.from = r.from
        /\ p.todo = r.todo /\ p.used = r.used /\ p.partial = r.partial
    BY <2>3, <2>4 DEF Reader
  <2> HIDE DEF p
  <2>6. p \in GoodReaders
    BY <2>1, <2>5 DEF GoodReaders
  <2> QED
    BY <2>2, <2>6
<1>6. ASSUME NEW i \in 1 .. Cardinality(fresh) PROVE B[i] \in GoodReaders
  <2>1. Highest \in Logs
    BY <1>4
  <2>2. NewReader(Highest) \in GoodReaders
    BY <1>2, <2>1, NewGood
  <2> QED
    BY <2>2
<1>7. A \in Seq(GoodReaders) /\ Len(A) = Len(rd)
  <2>1. A = [i \in 1 .. Len(rd) |-> A[i]]
    BY <1>2
  <2> HIDE DEF A
  <2> QED
    BY <1>2, <1>5, <2>1
<1>8. B \in Seq(GoodReaders) /\ Len(B) = Cardinality(fresh)
  <2>1. B = [i \in 1 .. Cardinality(fresh) |-> B[i]]
    OBVIOUS
  <2> HIDE DEF B, fresh
  <2> QED
    BY <1>4, <1>6, <2>1
<1> HIDE DEF A, B, fresh, active
<1>9. rd' \in Seq(GoodReaders) /\ Len(rd') = Len(rd) + Cardinality(fresh) /\ Len(rd') \in Nat
  <2>1. A \o B \in Seq(GoodReaders) /\ Len(A \o B) = Len(A) + Len(B)
    BY <1>7, <1>8
  <2> QED
    BY <1>1, <1>2, <1>4, <1>7, <1>8, <2>1
<1>10. rd' \in Seq(Reader)
  <2>1. GoodReaders \subseteq Reader
    BY DEF GoodReaders
  <2> QED
    BY <1>9, <2>1
<1>11. GoodReaders' = GoodReaders /\ GoodCursors' = GoodCursors /\ Written' = Written
  BY <1>1 DEF GoodReaders, GoodCursors, Pushed, Written
<1>12. NoCursor \in Cursor /\ \A n \in Logs : NoCursor \in GoodCursors[n]
  BY DEF Cursor, GoodCursors
<1>13. cursors' \in [Logs -> Cursor]
  BY <1>1, <1>2, <1>12
<1>14. table' \in [Logs -> 0 .. Len(rd')]
  <2> SUFFICES ASSUME NEW n \in Logs PROVE table'[n] \in 0 .. Len(rd')
    BY <1>1
  <2>1. CASE n \in fresh
    <3>1. Cardinality(fresh) = 1
      BY <1>4, <2>1
    <3> QED
      BY <1>1, <1>2, <1>9, <2>1, <3>1
  <2>2. CASE n \notin fresh
    <3>1. table'[n] \in 0 .. Len(rd)
      BY <1>1, <1>2, <2>2
    <3> QED
      BY <1>2, <1>4, <1>9, <3>1
  <2> QED
    BY <2>1, <2>2
<1>15. TypeOK'
  BY <1>1, <1>10, <1>13, <1>14 DEF IInv, TypeOK
<1>16. ReadersGood'
  BY <1>9, <1>11 DEF ReadersGood
<1>17. CursorsGood'
  BY <1>1, <1>11, <1>12 DEF IInv, CursorsGood
<1>18. FilesWritten'
  BY <1>1, <1>11 DEF IInv, FilesWritten
<1> QED
  BY <1>15, <1>16, <1>17, <1>18 DEF IInv

-----------------------------------------------------------------------------
(* CursorStore and the process *)

LEMMA FlushKeeps == ASSUME IInv, Flush PROVE IInv'
<1>1. saved' = cursors /\ UNCHANGED <<tags, disk, dir, rd, table, cursors, wal>>
  BY DEF Flush, files
<1>2. TypeOK'
  BY <1>1 DEF IInv, TypeOK
<1>3. GoodReaders' = GoodReaders /\ GoodCursors' = GoodCursors /\ Written' = Written
  BY <1>1 DEF GoodReaders, GoodCursors, Pushed, Written
<1>4. FilesWritten' /\ ReadersGood' /\ CursorsGood'
  BY <1>1, <1>3 DEF IInv, FilesWritten, ReadersGood, CursorsGood
<1> QED
  BY <1>2, <1>4 DEF IInv

\* A crash loses readers and cursors; those of the file are good.
LEMMA RestartKeeps == ASSUME IInv, Restart PROVE IInv'
<1>1. /\ rd' = <<>> /\ table' = [n \in Logs |-> 0] /\ cursors' = saved
      /\ UNCHANGED <<tags, disk, dir, saved, wal>>
  BY DEF Restart, files
<1>2. rd' \in Seq(Reader) /\ Len(rd') = 0 /\ DOMAIN rd' = {}
  BY <1>1
<1>3. TypeOK'
  <2>1. table' \in [Logs -> 0 .. Len(rd')]
    BY <1>1, <1>2
  <2> QED
    BY <1>1, <1>2, <2>1 DEF IInv, TypeOK
<1>4. GoodCursors' = GoodCursors /\ Written' = Written
  BY <1>1 DEF GoodCursors, Pushed, Written
<1>5. FilesWritten' /\ ReadersGood' /\ CursorsGood'
  BY <1>1, <1>2, <1>4 DEF IInv, FilesWritten, ReadersGood, CursorsGood
<1> QED
  BY <1>3, <1>5 DEF IInv

LEMMA StepIInv == ASSUME IInv, [Next]_vars PROVE IInv'
<1>1. CASE Rotate
  BY <1>1, NewFileKeeps, HighestExists DEF Rotate
<1>2. CASE ContainerRestarts
  BY <1>2, NewFileKeeps DEF ContainerRestarts
<1>3. ASSUME NEW i \in DOMAIN rd, ReaderStep(i) \/ Exit(i) PROVE IInv'
  BY <1>3, BeginKeeps, StatKeeps, OpenFileKeeps, HandleLineKeeps, SetCursorKeeps, ExitKeeps DEF ReaderStep
<1>4. CASE UNCHANGED vars
  <2>1. TypeOK'
    BY <1>4 DEF vars, IInv, TypeOK
  <2> QED
    BY <1>4, <2>1, Same, OthersGood DEF vars
<1> QED
  BY <1>1, <1>2, <1>3, <1>4, WriteKeeps, RemoveLogKeeps, DiscoverKeeps, FlushKeeps, RestartKeeps DEF Next

-----------------------------------------------------------------------------
(* Theorems *)

\* The inductive invariant holds in every run of the log reader.
THEOREM TailInvariant == Spec => []IInv
<1>1. Init => IInv
  BY InitIInv
<1>2. IInv /\ [Next]_vars => IInv'
  BY StepIInv
<1> QED
  BY <1>1, <1>2, PTL DEF Spec

\* Readers, cursors and the table of the tailer keep their types; in particular the
\* table only names readers that were started.
THEOREM TailTypeCorrect == Spec => []TypeOK
<1>1. IInv => TypeOK
  BY DEF IInv
<1> QED
  BY <1>1, TailInvariant, PTL

\* A cursor, in memory or in its file, never passes a complete line that is not in the
\* log WAL, whatever the kubelet renames or removes between the steps of the readers,
\* however many readers of one log overlap, and wherever the agent is killed.
THEOREM CursorNeverAhead == Spec => []CursorBehindWal
<1>1. ASSUME IInv PROVE CursorBehindWal
  <2> SUFFICES ASSUME NEW n \in Logs, NEW c \in {cursors[n], saved[n]}, c # NoCursor, c.ino = dir[n]
               PROVE  \A k \in c.from + 1 .. c.off : tags[disk[c.ino][k]] = "F" => disk[c.ino][k] \in wal
    BY DEF CursorBehindWal
  <2>1. c \in GoodCursors[n]
    BY <1>1 DEF IInv, CursorsGood
  <2> QED
    BY <2>1 DEF GoodCursors, Pushed
<1> QED
  BY <1>1, TailInvariant, PTL
=============================================================================
