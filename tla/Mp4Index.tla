-------------------------------- MODULE Mp4Index --------------------------------
(***************************************************************************)
(* The index of a recording, its moov box: what mov_write_moov_ex writes   *)
(* at the front of the file, cell by cell, and what mov_reader_root makes  *)
(* of the cells it finds there, half-written ones included.                *)
(*                                                                         *)
(* A cell is <<kind, a, b>>.  Of the boxes of a track the model has the    *)
(* track's own header, whose size is 0 until the track is written, the     *)
(* table of sizes (stsz, with the key frames of stss) and the table of     *)
(* places (stco, with the chunks of stsc undone: MovTables has those); the *)
(* boxes of constant length around them are left out.  The reader knows a  *)
(* trak at the top level as well as in a moov (MOV_ROOT == parent->type),  *)
(* so that the size of the moov box is of no consequence to it.            *)
(***************************************************************************)
EXTENDS Mp4File

CONSTANTS
  MoovCap,       \* 8 + MOOV_LEN: the cells kept free for the moov box
  MaxSamples,    \* bound: samples written to one file
  MaxLen,        \* bound: the length of a sample
  Lens           \* the lengths samples are given

Video == 1
Audio == 2
Tracks == {Video, Audio}

\* A sample of mov_track_t as the index keeps it.
Entry == [off : Nat, len : Nat, key : {0, 1}]

Moov(n) == <<"moov", n, 0>>
Trak(t, n) == <<"trak", t, n>>
Stsz(n) == <<"stsz", n, 0>>
Stco(n) == <<"stco", n, 0>>
Size(e) == <<"len", e.len, e.key>>
Place(e) == <<"off", e.off, 0>>
Skip == <<"skip", 0, 0>>
Zeros == <<"zero", 0, 0>>
Mdat(n) == <<"mdat", n, 0>>
Data(id, j) == <<"data", id, j>>

MdatAt == MoovCap
DataAt == MoovCap + 1

----------------------------------------------------------------------------------
(* Writing: one step per call into the cache.                                     *)

Wr(c) == [op |-> "write", cell |-> c, at |-> 0]
Sk(x) == [op |-> "seek", cell |-> Zeros, at |-> x]

\* mov_write_size: to the box, its size, and back to where the file was.
mov_write_size(x, c, back) == <<Sk(x), Wr(c), Sk(back)>>

TrakCells(n) == 3 + 2 * n

\* The j-th cell of the boxes of track t, whose own header says size.
TrakCell(t, es, size, j) ==
  LET n == Len(es) IN
  CASE j = 1 -> Trak(t, size)
    [] j = 2 -> Stsz(n)
    [] j \in 3..(2 + n) -> Size(es[j - 2])
    [] j = 3 + n -> Stco(n)
    [] OTHER -> Place(es[j - 3 - n])

\* mov_write_trak, of track t at address x: the size is filled in afterwards.
mov_write_trak(t, x, es) ==
  LET room == TrakCells(Len(es)) IN
  [j \in 1..room |-> Wr(TrakCell(t, es, 0, j))]
    \o mov_write_size(x, Trak(t, room), x + room)

\* The cells and the calls of the i-th track; one without samples has none.
Present(order, tab, i) == i \in DOMAIN order /\ tab[order[i]] # <<>>

Room(order, tab, i) ==
  IF Present(order, tab, i) THEN TrakCells(Len(tab[order[i]])) ELSE 0

TrakOf(order, tab, i, x) ==
  IF Present(order, tab, i) THEN mov_write_trak(order[i], x, tab[order[i]]) ELSE <<>>

\* mov_write_moov_ex: the box without its size, the tracks, of which there are
\* two at most, the size, and a skip box over what is left of the room.
mov_write_moov_ex(order, tab) ==
  LET second == 1 + Room(order, tab, 1)
      end == second + Room(order, tab, 2)
  IN <<Wr(Moov(8))>>
       \o TrakOf(order, tab, 1, 1) \o TrakOf(order, tab, 2, second)
       \o mov_write_size(0, Moov(end), end)
       \o <<Wr(Skip)>>

\* Mistake: the file is left where the index ends.
mov_writer_update_moov_staying(order, tab, mdat_size, end) ==
  mov_write_size(MdatAt, Mdat(mdat_size), end)
    \o <<Sk(0)>> \o mov_write_moov_ex(order, tab)

\* mov_writer_update_moov, of a file whose position is end.
mov_writer_update_moov(order, tab, mdat_size, end) ==
  mov_write_size(MdatAt, Mdat(mdat_size), end)
    \o <<Sk(0)>> \o mov_write_moov_ex(order, tab) \o <<Sk(end)>>

----------------------------------------------------------------------------------
(* Reading.                                                                       *)

NoTrack == [t \in Tracks |-> <<>>]

Kind(d, x) == IF x \in Addr /\ d[x] # Hole THEN d[x][1] ELSE "none"

\* mov_reader_box goes on, or ends well, at one of these.
Boundary(d, x) == Kind(d, x) \in {"trak", "skip", "zero", "mdat"}

\* The tables of the track whose box is at x; n and the entries are what the
\* cells say, whatever they are.
TrackWhole(d, x) ==
  /\ Kind(d, x + 1) = "stsz"
  /\ LET n == d[x + 1][2] IN
     /\ \A i \in 1..n : Kind(d, x + 1 + i) = "len"
     /\ Kind(d, x + 2 + n) = "stco"
     /\ d[x + 2 + n][2] = n
     /\ \A i \in 1..n : Kind(d, x + 2 + n + i) = "off"

TrackEntries(d, x) ==
  LET n == d[x + 1][2] IN
  [i \in 1..n |-> [off |-> d[x + 2 + n + i][2],
                   len |-> d[x + 1 + i][2],
                   key |-> d[x + 1 + i][3]]]

\* The box at x as mov_reader_box takes it: the track it is, if it is one the
\* reader gets through, and where it goes on.  Inside a trak whose size is
\* still 0 it takes what follows for more of that trak, and goes on nowhere.
BoxIsTrack(d, x) ==
  /\ Kind(d, x) = "trak"
  /\ TrackWhole(d, x)
  /\ d[x][3] = 0 => Boundary(d, x + TrakCells(d[x + 1][2]))

GoesOn(d, x) == BoxIsTrack(d, x) /\ d[x][3] # 0

After(d, x) == x + TrakCells(d[x + 1][2])

With(tab, d, x) == [tab EXCEPT ![d[x][2]] = TrackEntries(d, x)]

\* mov_reader_root over the room of the moov box: the tracks it finds, and
\* whether it got to the end without meeting the remains of another index.
\* A recording has two tracks: the loop is written out.
mov_reader_root(d) ==
  LET one == BoxIsTrack(d, 1)
      two == GoesOn(d, 1) /\ BoxIsTrack(d, After(d, 1))
      Ends(x) == Boundary(d, x) /\ Kind(d, x) # "trak"
  IN [tab |-> IF two THEN With(With(NoTrack, d, 1), d, After(d, 1))
              ELSE IF one THEN With(NoTrack, d, 1)
              ELSE NoTrack,
      whole |-> IF two THEN d[After(d, 1)][3] = 0 \/ Ends(After(d, After(d, 1)))
                ELSE IF one THEN d[1][3] = 0 \/ Ends(After(d, 1))
                ELSE Ends(1)]
==================================================================================
