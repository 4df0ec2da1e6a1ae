------------------------------ MODULE StreamIn ------------------------------
(***************************************************************************)
(* Reassembly of one incoming stream of lsquic: lsquic_stream_frame_in and *)
(* read_data_frames (lsquic_stream.c) over the two data-in implementations *)
(* they switch between, a list of frames (lsquic_di_nocopy.c) and blocks   *)
(* with a bit per byte (lsquic_di_hash.c).                                 *)
(*                                                                         *)
(* The peer is honest: it cuts a stream of Final bytes into frames, anew   *)
(* for every retransmission, and the network delivers them in any order    *)
(* and any number of times.  A byte is its offset.  Flow control, resets,  *)
(* HTTP/3's filter and a malloc that fails are left out.                   *)
(***************************************************************************)
EXTENDS Integers, FiniteSets

CONSTANTS Final,          \* the stream's final size
          DB_DATA_SIZE,   \* bytes in a block: 3616
          EffLow          \* EFF_CHECK_THRESH_LOW, 10: frames too few to switch

VARIABLES
  data_in,        \* the implementation: "nocopy" or "hash"
  frames,         \* ncdi_frames_in
  ncdi_fin,       \* NCDI_FIN_SET
  blocks,         \* hdi_buckets: the numbers of the blocks there are
  stored,         \* db_set: the bytes in them that are valid
  hdi_fin,        \* HDI_FIN
  read_offset,    \* of the stream
  fin_reached,    \* STREAM_FIN_REACHED: from now on a read returns 0
  reading,        \* the loop of read_data_frames is running
  failed,         \* INS_FRAME_ERR: the connection is aborted
  arrived,        \* ghost: the bytes of all frames that arrived
  fin_arrived     \* ghost: a frame with the end of the stream arrived
dataIn == <<data_in, frames, ncdi_fin, blocks, stored, hdi_fin>>
streamVars ==
  <<dataIn, read_offset, fin_reached, reading, failed, arrived, fin_arrived>>

\* struct data_frame; its df_read_off is read_offset - off in the frame that
\* is partly read, and 0 in the others.  A frame carries data or the end.
Frame == {f \in [off : 0..Final, end : 0..Final, fin : BOOLEAN] :
            /\ f.off < f.end \/ (f.off = f.end /\ f.fin)
            /\ f.fin => f.end = Final}
Bytes(f) == f.off..(f.end - 1)
Block(b) == b \div DB_DATA_SIZE
InBlock(k) == {b \in 0..Final : Block(b) = k}

StreamInit ==
  /\ data_in = "nocopy" /\ frames = {} /\ ncdi_fin = FALSE
  /\ blocks = {} /\ stored = {} /\ hdi_fin = FALSE
  /\ read_offset = 0 /\ fin_reached = FALSE /\ reading = FALSE /\ failed = FALSE
  /\ arrived = {} /\ fin_arrived = FALSE

-----------------------------------------------------------------------------
(* nocopy: insert_frame, its cases named by the letters of the source.     *)

is_prev(prev, new) ==
  /\ prev \in frames /\ prev.off <= new.off
  /\ \A g \in frames : g.off <= new.off => g.off <= prev.off
is_next(next, new) ==
  /\ next \in frames /\ next.off > new.off
  /\ \A g \in frames : g.off > new.off => g.off >= next.off

\* INS_FRAME_DUP: B; M and L; I.  F and G ask for what M and L have answered.
duplicate(new) ==
  \/ read_offset > new.end
  \/ read_offset = new.end /\ (ncdi_fin \/ ~new.fin)
  \/ \E prev \in frames : /\ is_prev(prev, new)
                          /\ prev.off = new.off /\ prev.end = new.end
                          /\ prev.fin \/ ~new.fin

\* INS_FRAME_OVERLAP, which the list cannot take: E and N without neighbours,
\* H and J on the left, K and, without a left neighbour or with both, O.
overlap(new) ==
  /\ ~duplicate(new)
  /\ \/ frames = {} /\ new.off < read_offset
     \/ \E prev \in frames : /\ is_prev(prev, new)
                             /\ \/ prev.off = new.off /\ prev.end = new.end
                                \/ prev.end > new.off
     \/ \E next \in frames : /\ is_next(next, new)
                             /\ new.end > next.off \/ read_offset > new.off

-----------------------------------------------------------------------------
(* hash: lsquic_data_in_hash_insert_data_frame.                            *)

\* The bytes of a frame that are not read yet.
unread(f) == {b \in Bytes(f) : b >= read_offset}

\* The blocks found or made: one at least, even for no bytes.  A frame that
\* ends below the read offset is a duplicate.
touched(f) ==
  IF f.end < read_offset THEN {}
  ELSE IF unread(f) = {} THEN {Block(f.end)}
  ELSE {Block(b) : b \in unread(f)}

BlocksOf(fs) == UNION {touched(f) : f \in fs}
UnreadOf(fs) == UNION {unread(f) : f \in fs}
HasFin(fs)   == \E f \in fs : f.fin

\* INS_FRAME_ERR: the frame ends the stream at the end of a block, and the
\* next block is there already.
fin_refused(f, bs) ==
  /\ f.fin /\ unread(f) # {}
  /\ Block(f.end - 1) + 1 \in bs

\* di_switch_impl of the list: its frames are put into a new hash.
to_hash(fs) ==
  /\ data_in' = "hash"
  /\ blocks' = BlocksOf(fs) /\ stored' = UnreadOf(fs) /\ hdi_fin' = HasFin(fs)
  /\ frames' = {} /\ ncdi_fin' = FALSE

\* di_switch_impl of the hash, which is empty: a new list.
to_nocopy ==
  /\ data_in' = "nocopy" /\ frames' = {} /\ ncdi_fin' = FALSE
  /\ blocks' = {} /\ stored' = {} /\ hdi_fin' = FALSE

-----------------------------------------------------------------------------
(* lsquic_stream_frame_in.                                                 *)

Arrives(f) ==
  /\ f \in Frame /\ ~reading /\ ~failed
  /\ arrived' = arrived \cup Bytes(f)
  /\ fin_arrived' = (fin_arrived \/ f.fin)
  /\ UNCHANGED <<read_offset, fin_reached, reading>>

FrameIsDuplicate(f) ==
  /\ data_in = "nocopy" /\ duplicate(f)
  /\ Arrives(f) /\ UNCHANGED <<dataIn, failed>>

FrameIsListed(f) ==
  /\ data_in = "nocopy" /\ ~duplicate(f) /\ ~overlap(f)
  /\ Arrives(f)
  /\ frames' = frames \cup {f} /\ ncdi_fin' = (ncdi_fin \/ f.fin)
  /\ UNCHANGED <<data_in, blocks, stored, hdi_fin, failed>>

\* check_efficiency: with enough frames, far traversals, holes or tiny frames
\* make the list ask to be switched; which of these there are is left open.
ListIsInefficient(f) ==
  /\ data_in = "nocopy" /\ ~duplicate(f) /\ ~overlap(f)
  /\ Cardinality(frames \cup {f}) > EffLow
  /\ Arrives(f)
  /\ to_hash(frames \cup {f}) /\ UNCHANGED failed

FrameOverlaps(f) ==
  /\ data_in = "nocopy" /\ overlap(f) /\ ~fin_refused(f, BlocksOf(frames))
  /\ Arrives(f)
  /\ to_hash(frames \cup {f}) /\ UNCHANGED failed

FrameIsHashed(f) ==
  /\ data_in = "hash" /\ ~fin_refused(f, blocks)
  /\ Arrives(f)
  /\ blocks' = blocks \cup touched(f)
  /\ stored' = stored \cup unread(f)
  /\ hdi_fin' = (hdi_fin \/ f.fin)
  /\ UNCHANGED <<data_in, frames, ncdi_fin, failed>>

FrameIsRefused(f) ==
  /\ \/ data_in = "hash" /\ fin_refused(f, blocks)
     \/ data_in = "nocopy" /\ overlap(f) /\ fin_refused(f, BlocksOf(frames))
  /\ Arrives(f) /\ failed' = TRUE /\ UNCHANGED dataIn

-----------------------------------------------------------------------------
(* read_data_frames: a loop over the frames the data-in implementation     *)
(* shows at the read offset, until the user's buffer is full.              *)

ReadStarts ==
  /\ ~reading /\ ~failed /\ ~fin_reached
  /\ reading' = TRUE
  /\ UNCHANGED <<dataIn, read_offset, fin_reached, failed, arrived, fin_arrived>>

\* The user takes n bytes of a frame that shows `left` of them; `done` says
\* what happens to the frame when those are all.
ReadFrame(n, left, fin, done) ==
  /\ reading /\ n \in 0..left
  /\ read_offset' = read_offset + n
  /\ fin_reached' = (n = left /\ fin)
  /\ reading' = (n = left /\ ~fin)
  /\ IF n = left THEN done ELSE UNCHANGED dataIn
  /\ UNCHANGED <<failed, arrived, fin_arrived>>

\* nocopy: the first frame, if it starts, or was left, at the read offset.
is_first(f) == f \in frames /\ \A g \in frames : f.off <= g.off
nocopy_shows(f) == data_in = "nocopy" /\ is_first(f) /\ f.off <= read_offset

nocopy_frame_done(f) ==
  frames' = frames \ {f} /\ UNCHANGED <<data_in, ncdi_fin, blocks, stored, hdi_fin>>

ReadListed == \E f \in frames, n \in 0..Final :
  /\ nocopy_shows(f)
  /\ ReadFrame(n, f.end - read_offset, f.fin, nocopy_frame_done(f))

\* setup_data_frame: valid bytes from the read offset on, up to the first that
\* is missing or the end of the block.  Its df_size counts them from the start
\* of the block, and the frame ends the stream if df_read_off + df_size is
\* hdi_fin_off.
hash_shows_data(end) ==
  /\ data_in = "hash" /\ read_offset < end
  /\ \A b \in read_offset..(end - 1) : b \in stored /\ Block(b) = Block(read_offset)
  /\ end \notin stored \/ Block(end) # Block(read_offset)
df_read_off == read_offset % DB_DATA_SIZE
df_size(end) == df_read_off + (end - read_offset)
df_fin(end) == hdi_fin /\ df_read_off + df_size(end) = Final

\* get_frame and setup_data_frame: the end, with a block or without.
hash_shows_fin ==
  /\ data_in = "hash" /\ hdi_fin
  /\ read_offset = Final /\ read_offset \notin stored

\* The block goes when it was read to its end or has no bytes after; the hash
\* goes when it has no blocks and the end is not known.
hash_frame_done(end) ==
  LET k    == Block(read_offset)
      gone == k \in blocks /\ (Block(end) # k \/ \A b \in stored : Block(b) = k => b < end)
      left == blocks \ {k}
  IN  IF gone /\ left = {} /\ ~hdi_fin THEN to_nocopy
      ELSE /\ blocks' = (IF gone THEN left ELSE blocks)
           /\ stored' = (IF gone THEN stored \ InBlock(k) ELSE stored)
           /\ UNCHANGED <<data_in, frames, ncdi_fin, hdi_fin>>

ReadHashed == \E end \in 0..Final, n \in 0..Final :
  /\ hash_shows_data(end)
  /\ ReadFrame(n, end - read_offset, df_fin(end), hash_frame_done(end))

ReadFin == hash_shows_fin /\ ReadFrame(0, 0, TRUE, hash_frame_done(read_offset))

ReadEnds ==
  /\ reading
  /\ ~ \E f \in frames : nocopy_shows(f)
  /\ ~ \E end \in 0..Final : hash_shows_data(end)
  /\ ~ hash_shows_fin
  /\ reading' = FALSE
  /\ UNCHANGED <<dataIn, read_offset, fin_reached, failed, arrived, fin_arrived>>

StreamNext ==
  \/ \E f \in Frame : \/ FrameIsDuplicate(f) \/ FrameIsListed(f)
                      \/ ListIsInefficient(f) \/ FrameOverlaps(f)
                      \/ FrameIsHashed(f) \/ FrameIsRefused(f)
  \/ ReadStarts \/ ReadListed \/ ReadHashed \/ ReadFin \/ ReadEnds

StreamSpec == StreamInit /\ [][StreamNext]_streamVars

-----------------------------------------------------------------------------
StreamTypeOK ==
  /\ data_in \in {"nocopy", "hash"}
  /\ frames \subseteq Frame
  /\ ncdi_fin \in BOOLEAN /\ hdi_fin \in BOOLEAN
  /\ blocks \subseteq Nat /\ stored \subseteq 0..(Final - 1)
  /\ read_offset \in 0..Final
  /\ fin_reached \in BOOLEAN /\ reading \in BOOLEAN /\ failed \in BOOLEAN
  /\ arrived \subseteq 0..(Final - 1) /\ fin_arrived \in BOOLEAN

Held == IF data_in = "nocopy" THEN UNION {Bytes(f) : f \in frames} ELSE stored

\* A byte that arrived was read or is still held, however the frames overlap
\* and whenever the implementation is switched, unless a frame was refused
\* and the connection aborted.
NothingIsLost == failed \/ \A b \in arrived : b < read_offset \/ b \in Held

\* Only bytes that arrived are read, each once and in order.
NothingIsInvented ==
  /\ \A b \in Held : b \in arrived
  /\ \A b \in 0..(read_offset - 1) : b \in arrived

\* The end of the stream that arrived is not forgotten by a switch.
EndIsKept ==
  \/ failed \/ fin_reached
  \/ fin_arrived => IF data_in = "nocopy" THEN HasFin(frames) ELSE hdi_fin

\* "Return value of zero indicates EOF" (lsquic.h 1303): a read returns zero
\* only when all of the stream was read.
EofMeansAll == fin_reached => read_offset = Final

=============================================================================
