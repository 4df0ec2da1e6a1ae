------------------------------- MODULE Mp4Recorder -------------------------------
(***************************************************************************)
(* One channel's recording, as the storage thread makes it: imp_write_video*)
(* and imp_write_audio put frames behind one another in the mdat box; now  *)
(* and then imp_update_moov rewrites the index at the front of the file in *)
(* place, one call into the cache after another; imp_close_mp4 does so a   *)
(* last time and closes the file.  A crash of the process leaves what the  *)
(* kernel holds at that moment, f.disk: what must survive one is said of   *)
(* f.disk in every state.                                                  *)
(*                                                                         *)
(* Whether the interval of imp_update_moov is over is a choice; frames are *)
(* numbered as they come, and the number stands for the timestamp.         *)
(***************************************************************************)
EXTENDS Mp4Index

VARIABLES
  f,           \* the file and its cache
  order,       \* the tracks, in the order they were added
  samples,     \* the samples of each track, written or in the cache
  todo,        \* calls of mov_writer_update_moov still to make
  phase,       \* what they are made for: "record", "update", "close", "closed"
  moov_mutex,  \* MOOV_MUTEX is held by the storage thread
  sync_rd,     \* Mp4Info's sync_rd: the player shall take the new table over
  indexed      \* auxiliary: the tables the last finished index was made of

recVars == <<f, order, samples, todo, phase, moov_mutex, sync_rd, indexed>>

\* A sample of the recorder also has the number and the length of its frame.
Sample == [off : Nat, len : 0..MaxLen, key : {0, 1}, id : 1..MaxSamples, size : 1..MaxLen]

EntryOf(s) == [off |-> s.off, len |-> s.len, key |-> s.key]
Entries(ss) == [i \in DOMAIN ss |-> EntryOf(ss[i])]
Table(tab) == [t \in Tracks |-> Entries(tab[t])]

\* The cells of frame id, n of them, and what was written of sample s.
FrameData(id, n) == [j \in 1..n |-> Data(id, j)]
DataOf(s) == FrameData(s.id, s.len)

Written == Len(samples[Video]) + Len(samples[Audio])

\* What mdat_size has come to.
mdat_size == f.tell - DataAt

\* The largest index leaves room for its skip box.
ASSUME IndexAssumption ==
  /\ MoovCap \in Nat /\ MaxSamples \in Nat \ {0} /\ MaxLen \in Nat \ {0}
  /\ Lens \subseteq 1..MaxLen
  /\ 2 + 2 * TrakCells(0) + 2 * MaxSamples <= MoovCap
  /\ Addr = 0..(MoovCap + MaxSamples * MaxLen)

\* create_mp4_by_path and write_start_time: an empty moov box in its room,
\* the head of the mdat box, and nothing left in the cache.
Created ==
  [disk |-> [x \in Addr |-> CASE x = 0 -> Moov(8)
                              [] 0 < x /\ x < MdatAt -> Zeros
                              [] x = MdatAt -> Mdat(0)
                              [] OTHER -> Hole],
   base |-> DataAt, pend |-> <<>>, cache |-> <<>>, tell |-> DataAt]

RecInit ==
  /\ f = Created
  /\ order = <<>>
  /\ samples = [t \in Tracks |-> <<>>]
  /\ todo = <<>>
  /\ phase = "record"
  /\ moov_mutex = FALSE
  /\ sync_rd = FALSE
  /\ indexed = NoTrack

----------------------------------------------------------------------------------
\* Mistake: the track is added with every frame.
Added_again(t) == Append(order, t)

\* add_video, add_audio: the first time only.
Added(t) == IF \E i \in DOMAIN order : order[i] = t THEN order ELSE Append(order, t)

\* Mistake: the sample is entered at the place the file has reached after it.
mov_writer_write_late(t, len, key) ==
  LET id == Written + 1
      g == write_data(f, FrameData(id, len))
      s == [off |-> g.tell, len |-> wrote_len(f, FrameData(id, len)),
            key |-> key, id |-> id, size |-> len]
  IN /\ samples' = [samples EXCEPT ![t] = Append(@, s)]
     /\ f' = g

\* mov_writer_write: the sample is entered at the place the file has reached,
\* with the length write_data says it has written.
mov_writer_write(t, len, key) ==
  LET id == Written + 1
      s == [off |-> f.tell, len |-> wrote_len(f, FrameData(id, len)),
            key |-> key, id |-> id, size |-> len]
  IN /\ samples' = [samples EXCEPT ![t] = Append(@, s)]
     /\ f' = write_data(f, FrameData(id, len))

Recording == phase = "record" /\ Written < MaxSamples

\* imp_update_moov, when its interval is over: update_moov takes MOOV_MUTEX.
imp_update_moov ==
  /\ todo' = mov_writer_update_moov(order', Table(samples'), f'.tell - DataAt, f'.tell)
  /\ phase' = "update"
  /\ moov_mutex' = TRUE

NoUpdate == UNCHANGED <<todo, phase, moov_mutex>>

\* imp_write_video: only a key frame can add the track, and without a track
\* the frame is refused; the index may be rewritten all the same.
imp_write_video(len, key) ==
  /\ Recording
  /\ order' = IF key = 1 THEN Added(Video) ELSE order
  /\ \/ /\ \E i \in DOMAIN order' : order'[i] = Video
        /\ mov_writer_write(Video, len, key)
     \/ /\ ~\E i \in DOMAIN order' : order'[i] = Video
        /\ UNCHANGED <<f, samples>>
  /\ imp_update_moov \/ NoUpdate
  /\ UNCHANGED <<sync_rd, indexed>>

\* imp_write_audio: never a reason to rewrite the index.
imp_write_audio(len) ==
  /\ Recording
  /\ order' = Added(Audio)
  /\ mov_writer_write(Audio, len, 0)
  /\ NoUpdate
  /\ UNCHANGED <<sync_rd, indexed>>

\* imp_close_mp4, to the call of mov_writer_destroy, which rewrites the index
\* without MOOV_MUTEX.  That it makes the player take the table over first is
\* in Mp4Playback.
imp_close_mp4 ==
  /\ phase = "record"
  /\ todo' = mov_writer_update_moov(order, Table(samples), mdat_size, f.tell)
  /\ phase' = "close"
  /\ sync_rd' = FALSE
  /\ UNCHANGED <<f, order, samples, moov_mutex, indexed>>

\* One call into the cache, by mov_writer_update_moov.
Call ==
  /\ todo # <<>>
  /\ f' = IF Head(todo).op = "seek" THEN mov_file_cache_seek(f, Head(todo).at)
          ELSE mov_file_cache_write(f, <<Head(todo).cell>>)
  /\ todo' = Tail(todo)
  /\ UNCHANGED <<order, samples, phase, moov_mutex, sync_rd, indexed>>

\* update_moov returns, and imp_write_video asks the player to sync.
UpdateDone ==
  /\ phase = "update" /\ todo = <<>>
  /\ phase' = "record"
  /\ moov_mutex' = FALSE
  /\ sync_rd' = TRUE
  /\ indexed' = Table(samples)
  /\ UNCHANGED <<f, order, samples, todo>>

\* close_mp4 frees the cache as it is; fclose.
CloseDone ==
  /\ phase = "close" /\ todo = <<>>
  /\ f' = [fseek(f, f.tell) EXCEPT !.cache = <<>>]
  /\ phase' = "closed"
  /\ indexed' = Table(samples)
  /\ UNCHANGED <<order, samples, todo, moov_mutex, sync_rd>>

\* stdio writes out a part of its buffer.
Spill ==
  /\ f.pend # <<>>
  /\ f' = Spilt(f, 1)
  /\ UNCHANGED <<order, samples, todo, phase, moov_mutex, sync_rd, indexed>>

Storage ==
  \/ \E len \in Lens, key \in {0, 1} : imp_write_video(len, key)
  \/ \E len \in Lens : imp_write_audio(len)
  \/ Call
  \/ UpdateDone
  \/ CloseDone
  \/ Spill

----------------------------------------------------------------------------------
(* Properties.                                                                    *)

Step == [op : {"write", "seek"}, cell : Cell, at : Nat]

RecTypeOK ==
  /\ f \in File
  /\ order \in {<<>>, <<Video>>, <<Audio>>, <<Video, Audio>>, <<Audio, Video>>}
  /\ samples \in [Tracks -> Seq(Sample)]
  /\ todo \in Seq(Step)
  /\ phase \in {"record", "update", "close", "closed"}
  /\ moov_mutex \in BOOLEAN /\ sync_rd \in BOOLEAN
  /\ indexed \in [Tracks -> Seq(Entry)]

\* What the library takes for the position is the position: no call finds
\* mov_file_cache_tell answering -1, and no copy leaves the cache.
CacheKept == TellHolds(f) /\ CacheFits(f)

\* At every moment, a rewriting of the index included, a track the index on
\* disk describes has all its data on disk, each sample at its place: the
\* data reaches the kernel before the index that names it does
\* (mov-writer.c 557, 581-584).
IndexNamesData ==
  \A t \in Tracks :
    LET es == mov_reader_root(f.disk).tab[t] IN
    \A i \in DOMAIN es :
      /\ i \in DOMAIN samples[t]
      /\ es[i] = EntryOf(samples[t][i])
      /\ Holds(f.disk, es[i].off, DataOf(samples[t][i]))

\* The index on disk is the last one finished, whatever has been recorded
\* since, except while it is being rewritten; after imp_close_mp4 it is
\* complete.
IndexIsDurable ==
  /\ phase = "record" =>
       mov_reader_root(f.disk) = [tab |-> indexed, whole |-> TRUE]
  /\ phase = "closed" =>
       mov_reader_root(f.disk) = [tab |-> Table(samples), whole |-> TRUE]

\* "这一帧特别大，超过缓存 直接写文件" (ImplementMp4.c 389): a frame longer
\* than the cache is written as well, to the file directly.
FramesAreWritten ==
  \A t \in Tracks : \A i \in DOMAIN samples[t] : samples[t][i].len = samples[t][i].size
==================================================================================
