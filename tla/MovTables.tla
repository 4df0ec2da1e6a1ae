-------------------------------- MODULE MovTables --------------------------------
(***************************************************************************)
(* The tables of a track as pure functions: how the samples become the     *)
(* chunks of stco and stsc and the runs of stts when the index is written, *)
(* what the reader makes of them, and the searches in the table it gets.   *)
(* Mp4Index has the samples' places and the nearest samples in their place;*)
(* MCRecorder checks that it may.                                          *)
(*                                                                         *)
(* A sample is [off, len, dts]; samples lie in the file in order.          *)
(***************************************************************************)
EXTENDS Integers, Sequences, SequencesExt

----------------------------------------------------------------------------------
(* Places: samples that follow one another in the file make a chunk.               *)

mov_build_stco(ss) ==
  LET Next(chunks, s) ==
        IF chunks # <<>> /\ Last(chunks).off + Last(chunks).bytes = s.off
        THEN [chunks EXCEPT ![Len(chunks)].n = @ + 1, ![Len(chunks)].bytes = @ + s.len]
        ELSE Append(chunks, [off |-> s.off, n |-> 1, bytes |-> s.len])
  IN FoldLeft(Next, <<>>, ss)

mov_write_stco(chunks) == [c \in DOMAIN chunks |-> chunks[c].off]

\* The chunks with another number of samples than the chunk before.
mov_write_stsc(chunks) ==
  LET Changes(c) == c = 1 \/ chunks[c].n # chunks[c - 1].n
      firsts == SetToSortSeq({c \in DOMAIN chunks : Changes(c)}, <)
  IN [i \in DOMAIN firsts |-> [first_chunk |-> firsts[i],
                               samples_per_chunk |-> chunks[firsts[i]].n]]

\* The places of the samples of one chunk, by their lengths.
ChunkPlaces(off, lens) ==
  [k \in DOMAIN lens |-> off + FoldLeft(+, 0, SubSeq(lens, 1, k - 1))]

\* mov_apply_stco: from the tables and the lengths of stsz.
mov_apply_stco(stsc, stco, lens) ==
  LET EntryOfChunk(c) ==
        CHOOSE i \in DOMAIN stsc :
          /\ stsc[i].first_chunk <= c
          /\ i + 1 \in DOMAIN stsc => c < stsc[i + 1].first_chunk
      Place(places, c) ==
        LET from == Len(places) + 1
            n == stsc[EntryOfChunk(c)].samples_per_chunk
        IN places \o ChunkPlaces(stco[c], SubSeq(lens, from, from + n - 1))
  IN FoldLeft(Place, <<>>, [c \in DOMAIN stco |-> c])

----------------------------------------------------------------------------------
(* Times: runs of equal distances.  The last sample, and one whose successor has   *)
(* the same time, is given the distance 1.                                         *)

Delta(ss, i) ==
  IF i < Len(ss) /\ ss[i + 1].dts > ss[i].dts THEN ss[i + 1].dts - ss[i].dts ELSE 1

mov_build_stts(ss) ==
  LET Run(runs, i) ==
        IF runs # <<>> /\ Last(runs).delta = Delta(ss, i)
        THEN [runs EXCEPT ![Len(runs)].count = @ + 1]
        ELSE Append(runs, [count |-> 1, delta |-> Delta(ss, i)])
  IN FoldLeft(Run, <<>>, [i \in DOMAIN ss |-> i])

\* mov_apply_stts: the time of the first sample is 0.
mov_apply_stts(runs) ==
  LET Step(times, run) ==
        times \o [k \in 1..run.count |-> Last(times) + k * run.delta]
  IN Front(FoldLeft(Step, <<0>>, runs))

----------------------------------------------------------------------------------
(* Searches.                                                                       *)

DIFF(a, b) == IF a > b THEN a - b ELSE b - a

\* The loop of mov_stss_seek and mov_sample_seek over [start, end), from 0.
RECURSIVE Middle(_, _, _, _, _)
Middle(times, when, start, end, mid) ==
  LET m == (start + end) \div 2 IN
  IF start >= end THEN mid
  ELSE IF times[m + 1] > when THEN Middle(times, when, start, m, m)
  ELSE IF times[m + 1] < when THEN Middle(times, when, m + 1, end, m)
  ELSE m

\* What is found: where the loop ends or one of its neighbours, from 0.
mov_sample_seek(times, when) ==
  LET mid == Middle(times, when, 0, Len(times), 0)
      prev == IF mid > 0 THEN mid - 1 ELSE mid
      next == IF mid + 1 < Len(times) THEN mid + 1 ELSE mid
      Nearer(a, b) == IF DIFF(times[a + 1], when) < DIFF(times[b + 1], when) THEN a ELSE b
  IN Nearer(next, Nearer(prev, mid))
==================================================================================
