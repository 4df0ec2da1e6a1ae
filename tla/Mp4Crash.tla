-------------------------------- MODULE Mp4Crash --------------------------------
(***************************************************************************)
(* What the file of a recording holds at every moment: the invariant from  *)
(* which it follows that neither a crash nor a reader at the wrong moment  *)
(* finds an index that names data the file does not have.                  *)
(*                                                                         *)
(* The layers under the recorder keep the order of its writes, so that     *)
(* what the kernel will hold next is the disk with some first part of what *)
(* is waiting laid over it.  Everything is said of each of those contents; *)
(* a call only adds the one that has everything, View(f), or makes it the  *)
(* only one.                                                               *)
(***************************************************************************)
EXTENDS Mp4Playback

----------------------------------------------------------------------------------
(* The front of the file.                                                         *)

Second(ord, tb) == 1 + Room(ord, tb, 1)
End(ord, tb) == Second(ord, tb) + Room(ord, tb, 2)

Blank(c) == c \in {Skip, Zeros}

\* The cell at y of the index of the tables tb, from 1 on; the headers of the
\* tracks say s1 and s2.
TrakAt(ord, tb, i, size, j) == TrakCell(ord[i], tb[ord[i]], size, j)

\* d holds at y what the index of tb has there.
IsCell(d, ord, tb, s1, s2, y) ==
  /\ y < Second(ord, tb) => d[y] = TrakAt(ord, tb, 1, s1, y)
  /\ y >= Second(ord, tb) /\ y < End(ord, tb)
       => d[y] = TrakAt(ord, tb, 2, s2, y - Second(ord, tb) + 1)
  /\ y >= End(ord, tb) => Blank(d[y])

Old(d, ord, tb, y) == IsCell(d, ord, tb, Room(ord, tb, 1), Room(ord, tb, 2), y)

\* The index of tb, all of it, is at the front of d.
Indexes(d, ord, tb) == \A y \in 1..(MdatAt - 1) : Old(d, ord, tb, y)

\* The index of tb has been written over that of tb0 up to address a, with s1
\* and s2 for the sizes of its tracks.
Mixed(d, ord, tb0, tb, a, s1, s2) ==
  \A y \in 1..(MdatAt - 1) :
    /\ y < a => IsCell(d, ord, tb, s1, s2, y)
    /\ y >= a => Old(d, ord, tb0, y)

----------------------------------------------------------------------------------
(* A rewriting after k of its calls.                                              *)

\* How many calls a track takes: its cells, and three for its size.
Calls(r) == IF r = 0 THEN 0 ELSE r + 3

Min2(x, y) == IF x <= y THEN x ELSE y

\* With r1 and r2 cells of the tracks, and for a file that was at e: where the
\* file is, up to where the new index goes, and whether a track has its size.
PosAfter(r1, r2, e, k) ==
  LET b1 == 5
      b2 == 5 + Calls(r1)
      b3 == b2 + Calls(r2)
  IN CASE k = 0 -> e
       [] k = 1 -> MdatAt
       [] k = 2 -> MdatAt + 1
       [] k = 3 -> e
       [] k = 4 -> 0
       [] k >= 5 /\ k <= 5 + r1 -> k - 4
       [] k = b1 + r1 + 1 /\ r1 > 0 -> 1
       [] k = b1 + r1 + 2 /\ r1 > 0 -> 2
       [] k = b1 + r1 + 3 /\ r1 > 0 -> 1 + r1
       [] k > b2 /\ k <= b2 + r2 -> 1 + r1 + (k - b2)
       [] k = b2 + r2 + 1 /\ r2 > 0 -> 1 + r1
       [] k = b2 + r2 + 2 /\ r2 > 0 -> 2 + r1
       [] k = b2 + r2 + 3 /\ r2 > 0 -> 1 + r1 + r2
       [] k = b3 + 1 -> 0
       [] k = b3 + 2 -> 1
       [] k = b3 + 3 -> 1 + r1 + r2
       [] k = b3 + 4 -> 2 + r1 + r2
       [] OTHER -> e

EdgeAfter(r1, r2, k) ==
  LET b2 == 5 + Calls(r1)
      b3 == b2 + Calls(r2)
  IN CASE k <= 5 -> 1
       [] k > 5 /\ k <= b2 -> 1 + Min2(k - 5, r1)
       [] k > b2 /\ k <= b3 -> 1 + r1 + Min2(k - b2, r2)
       [] k > b3 /\ k <= b3 + 3 -> 1 + r1 + r2
       [] OTHER -> 2 + r1 + r2

Size1After(r1, k) == IF k >= 5 + r1 + 2 THEN r1 ELSE 0
Size2After(r1, r2, k) == IF k >= 5 + Calls(r1) + r2 + 2 THEN r2 ELSE 0

----------------------------------------------------------------------------------
(* The invariant.  ss stands for the samples of the tracks, ind for the tables   *)
(* of the last finished index, e for where the media data ends.                   *)

\* Where the media data ends.
DataEnd == IF todo = <<>> THEN f.tell ELSE todo[Len(todo)].at

\* Tracks are added with their first sample.
TracksHaveSamples(ord, ss) ==
  \A t \in Tracks : (\E i \in DOMAIN ord : ord[i] = t) <=> ss[t] # <<>>

\* Samples lie between the head of the mdat box and its end.
SamplesLie(ss, e) ==
  \A t \in Tracks : \A i \in DOMAIN ss[t] :
    ss[t][i].off >= DataAt /\ ss[t][i].off + ss[t][i].len <= e

\* The file is no longer than the samples can make it.
Reach(ss, e) == e >= DataAt /\ e <= DataAt + (Len(ss[Video]) + Len(ss[Audio])) * MaxLen

\* v has all data.
AllWritten(v, ss) ==
  \A t \in Tracks : \A i \in DOMAIN ss[t] : Holds(v, ss[t][i].off, DataOf(ss[t][i]))

\* A table of entries that are a track's first samples.
Names(es, s) ==
  /\ es \in Seq(Entry)
  /\ Len(es) <= Len(s)
  /\ \A i \in 1..Len(es) : es[i] = EntryOf(s[i])

\* What a reader makes of d, it finds in d.
Sound(d, ss) ==
  LET tb == mov_reader_root(d).tab IN
  \A t \in Tracks :
    /\ Names(tb[t], ss[t])
    /\ \A i \in 1..Len(tb[t]) : Holds(d, ss[t][i].off, DataOf(ss[t][i]))

\* Where a sample lies d has its data or nothing, and nothing behind them all.
DataOrHole(d, ss, e) ==
  /\ \A t \in Tracks : \A i \in DOMAIN ss[t] : \A j \in 1..ss[t][i].len :
       ss[t][i].off + j - 1 \in Addr
         => d[ss[t][i].off + j - 1] \in {Hole, Data(ss[t][i].id, j)}
  /\ \A x \in Addr : x >= e => d[x] = Hole

\* What holds of the file g whatever the recorder is doing.
Kept(g, ord, ss, ind, e) ==
  /\ TracksHaveSamples(ord, ss)
  /\ SamplesLie(ss, e)
  /\ Reach(ss, e)
  /\ AllWritten(View(g), ss)
  /\ \A d \in Futures(g) : Sound(d, ss) /\ DataOrHole(d, ss, e)
  /\ \A t \in Tracks : Names(ind[t], ss[t])
  /\ Present(ord, ind, 2) => Present(ord, ind, 1)

\* The index on disk, and whatever comes of it, is the one of ind.
Durable(g, ord, ind) == \A d \in Futures(g) : Indexes(d, ord, ind)

\* How far a rewriting has come, with td of its calls still to make.
Rewriting(g, ord, ss, ind, e, td) ==
  LET tb == Table(ss)
      q == mov_writer_update_moov(ord, tb, e - DataAt, e)
      k == Len(q) - Len(td)
      r1 == Room(ord, tb, 1)
      r2 == Room(ord, tb, 2)
  IN /\ k \in 0..Len(q)
     /\ \A i \in 1..Len(td) : td[i] = q[k + i]
     /\ g.tell = PosAfter(r1, r2, e, k)
     /\ Mixed(View(g), ord, ind, tb, EdgeAfter(r1, r2, k), Size1After(r1, k), Size2After(r1, r2, k))
     /\ td = <<>> => \A d \in Futures(g) : d = View(g)

\* No moment finds an index on disk that names data that is not there, and
\* none but a rewriting an index that is not whole.
CrashInv ==
  /\ Kept(f, order, samples, indexed, DataEnd)
  /\ phase \in {"record", "closed"} => Durable(f, order, indexed)
  /\ phase = "closed" => indexed = Table(samples)
  /\ phase \in {"update", "close"} => Rewriting(f, order, samples, indexed, DataEnd, todo)
  /\ moov_mutex <=> phase = "update"

\* The player's tables name samples, in their order.
PlayInv == \A t \in Tracks : Names(tab[t], samples[t])
==================================================================================
