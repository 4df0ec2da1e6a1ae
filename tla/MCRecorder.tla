------------------------------- MODULE MCRecorder -------------------------------
(***************************************************************************)
(* Instances of Mp4Playback for TLC, with the invariants of Mp4Crash: the  *)
(* addresses of a file; and the checks of MovTables over all small tracks. *)
(***************************************************************************)
EXTENDS Mp4Crash, FiniteSets

MCAddr == 0..(MoovCap + MaxSamples * MaxLen)

M == INSTANCE MovTables

\* All tracks of up to four samples, by the gap before a sample, its length
\* and its distance in time from the one before.
Shapes == UNION {[1..n -> (0..1) \X (0..2) \X (0..2)] : n \in 1..3}
             \cup [1..4 -> {<<0, 1, 1>>, <<0, 2, 1>>, <<1, 1, 2>>, <<1, 0, 0>>}]

SampleOf(shape, i) ==
  LET before == SubSeq(shape, 1, i - 1)
      Sum(k) == M!FoldLeft(LAMBDA acc, s : acc + s[k], 0, before)
  IN [off |-> Sum(1) + Sum(2) + shape[i][1], len |-> shape[i][2], dts |-> Sum(3) + shape[i][3]]

Track(shape) == [i \in DOMAIN shape |-> SampleOf(shape, i)]

\* The reader finds every sample where it was written (mov-stco.c 121-174).
ASSUME PlacesSurvive ==
  \A shape \in Shapes :
    LET ss == Track(shape)
        chunks == M!mov_build_stco(ss)
    IN M!mov_apply_stco(M!mov_write_stsc(chunks), M!mov_write_stco(chunks),
                        [i \in DOMAIN ss |-> ss[i].len])
         = [i \in DOMAIN ss |-> ss[i].off]

\* The reader's times count from the first sample, and are late by one for
\* every two samples that were given one time (mov-stts.c 145-222).
ASSUME TimesSurvive ==
  \A shape \in Shapes :
    LET ss == Track(shape)
        Ties(i) == {j \in 2..i : ss[j].dts = ss[j - 1].dts}
        times == M!mov_apply_stts(M!mov_build_stts(ss))
    IN /\ DOMAIN times = DOMAIN ss
       /\ \A i \in DOMAIN ss : times[i] = ss[i].dts - ss[1].dts + Cardinality(Ties(i))

\* The searches find one of the samples nearest in time (mov-reader.c 650-734).
ASSUME SearchFindsNearest ==
  \A shape \in Shapes : \A when \in 0..8 :
    LET times == [i \in DOMAIN shape |-> Track(shape)[i].dts]
        found == M!mov_sample_seek(times, when) + 1
    IN \A i \in DOMAIN times : M!DIFF(times[found], when) <= M!DIFF(times[i], when)
=================================================================================
