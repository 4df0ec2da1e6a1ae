------------------------------- MODULE Mp4Playback -------------------------------
(***************************************************************************)
(* The recorder and a player that reads the file it is still writing, in a *)
(* thread of its own, through a FILE of its own.  imp_read_mp4 opens the   *)
(* file and reads its index; imp_read_once takes the recorder's table over *)
(* when it is told to, and reads one frame; when that fails it opens the   *)
(* file again and goes back to the frame it had last.                      *)
(***************************************************************************)
EXTENDS Mp4Recorder

VARIABLES
  at,      \* the player: "idle", "read", "reopen", "ended", or "none"
  tab,     \* the table it reads by
  next,    \* sample_offset of each track: the entry to be read next
  synced,  \* mp4_sync: the tracks of the copy of the recorder's table, or NoCopy
  last,    \* last_pts
  got,     \* auxiliary: the frame the last step delivered
  opened   \* auxiliary: the index as the last step read it

playVars == <<at, tab, next, synced, last, got, opened>>
vars == <<recVars, playVars>>

NoCopy == {0}
Nothing == [t |-> 0, i |-> 0, cells |-> <<>>]
Unread == [tab |-> NoTrack, whole |-> TRUE, locked |-> FALSE, was |-> NoTrack]

PlayInit ==
  /\ at = "none"
  /\ tab = NoTrack
  /\ next = [t \in Tracks |-> 1]
  /\ synced = NoCopy
  /\ last = 0
  /\ got = Nothing
  /\ opened = Unread

Init == RecInit /\ PlayInit

\* A step that neither delivers a frame nor reads an index.
NothingSeen == got' = Nothing /\ opened' = Unread

----------------------------------------------------------------------------------
Far(x, y) == IF x > y THEN x - y ELSE y - x

\* The time of an entry is the number of its frame; the entry is the
\* recorder's sample of the same place.
TimeOf(t, i) == IF i \in DOMAIN samples[t] THEN samples[t][i].id ELSE 0

\* One of the entries I whose time is nearest to now.
Nearest(t, I, now) ==
  CHOOSE i \in I : \A j \in I : Far(TimeOf(t, i), now) <= Far(TimeOf(t, j), now)

KeyEntries(es) == {i \in DOMAIN es : es[i].key = 1}

\* mov_reader_seek: the video to the key frame nearest to time now, the sound
\* to the entry nearest to that key frame.
mov_reader_seek(tb, nx, now) ==
  LET keys == KeyEntries(tb[Video])
      v == IF keys # {} THEN Nearest(Video, keys, now)
           ELSE IF tb[Video] # <<>> THEN Nearest(Video, DOMAIN tb[Video], now)
           ELSE nx[Video]
      when == IF keys # {} THEN TimeOf(Video, v) ELSE now
  IN [t \in Tracks |->
        IF t = Video THEN v
        ELSE IF tb[t] # <<>> THEN Nearest(t, DOMAIN tb[t], when) ELSE nx[t]]

----------------------------------------------------------------------------------
\* Mistake: the index is read without MOOV_MUTEX.
create_mp4_readctx_unlocked ==
  LET r == mov_reader_root(f.disk) IN
  /\ tab' = r.tab
  /\ synced' = NoCopy
  /\ opened' = [tab |-> r.tab, whole |-> r.whole, locked |-> phase # "close", was |-> indexed]

\* create_mp4_readctx: MOOV_MUTEX keeps it from an index half rewritten,
\* unless it is imp_close_mp4 that rewrites it.
create_mp4_readctx ==
  LET r == mov_reader_root(f.disk) IN
  /\ ~moov_mutex
  /\ tab' = r.tab
  /\ synced' = NoCopy
  /\ opened' = [tab |-> r.tab, whole |-> r.whole, locked |-> phase # "close", was |-> indexed]

\* imp_read_mp4.
imp_read_mp4 ==
  /\ at = "none"
  /\ create_mp4_readctx
  /\ next' = [t \in Tracks |-> 1]
  /\ last' = 0
  /\ at' = "idle"
  /\ got' = Nothing
  /\ UNCHANGED recVars

\* sync_context: the whole table is copied, with the samples that are still
\* in the recorder's cache, but of no track added since the first copy.  That
\* first time the place in a track is taken from the reader's track of the
\* same position, which need not be there: what it reads then is any number.
sync_context ==
  LET copied == IF synced = NoCopy THEN {order[i] : i \in DOMAIN order} ELSE synced
      Found == \A t \in copied : tab[t] # <<>>
  IN /\ synced' = copied
     /\ tab' = [t \in Tracks |-> IF t \in copied THEN Entries(samples[t]) ELSE <<>>]
     /\ next' \in IF synced # NoCopy \/ Found THEN {next} ELSE [Tracks -> 1..(MaxSamples + 1)]

\* sync_rw_context, at the head of imp_read_once: it is the same file.
sync_rw_context ==
  /\ at = "idle"
  /\ \/ /\ sync_rd
        /\ sync_context
        /\ sync_rd' = FALSE
     \/ ~sync_rd /\ UNCHANGED <<tab, synced, next, sync_rd>>
  /\ at' = "read"
  /\ NothingSeen
  /\ UNCHANGED <<f, order, samples, todo, phase, moov_mutex, indexed, last>>

\* mov_reader_next: of the entries to be read next, the one that comes first
\* in the file; an empty one shares its place with another, and either is read.
Candidates == {t \in Tracks : next[t] <= Len(tab[t])}

mov_reader_next ==
  {t \in Candidates : \A u \in Candidates : tab[t][next[t]].off <= tab[u][next[u]].off}

\* What fread gives of an entry.
CellsOf(e) == [j \in 1..e.len |-> f.disk[e.off + j - 1]]
Readable(e) ==
  \A j \in 1..e.len : e.off + j - 1 \in Addr /\ f.disk[e.off + j - 1] # Hole

\* read_mp4 at the end of the tables: imp_read_once returns -1.
ReadEnd ==
  /\ at = "read"
  /\ Candidates = {}
  /\ at' = "ended"
  /\ NothingSeen
  /\ UNCHANGED <<recVars, tab, next, synced, last>>

\* Mistake: a short read is taken for a frame.
ReadFrame_short ==
  /\ at = "read"
  /\ \E t \in mov_reader_next : LET e == tab[t][next[t]] IN
        /\ e.off + e.len - 1 \in Addr
        /\ got' = [t |-> t, i |-> next[t], cells |-> CellsOf(e)]
        /\ last' = TimeOf(t, next[t])
        /\ next' = [next EXCEPT ![t] = @ + 1]
  /\ at' = "idle"
  /\ opened' = Unread
  /\ UNCHANGED <<recVars, tab, synced>>

\* read_mp4: the frame is delivered.
ReadFrame ==
  /\ at = "read"
  /\ \E t \in mov_reader_next : LET e == tab[t][next[t]] IN
        /\ Readable(e)
        /\ got' = [t |-> t, i |-> next[t], cells |-> CellsOf(e)]
        /\ last' = TimeOf(t, next[t])
        /\ next' = [next EXCEPT ![t] = @ + 1]
  /\ at' = "idle"
  /\ opened' = Unread
  /\ UNCHANGED <<recVars, tab, synced>>

\* read_mp4: the data is not in the file yet, fread is short.
ReadShort ==
  /\ at = "read"
  /\ \E t \in mov_reader_next : ~Readable(tab[t][next[t]])
  /\ at' = "reopen"
  /\ NothingSeen
  /\ UNCHANGED <<recVars, tab, next, synced, last>>

\* reopen_mp4: a new FILE and a new context, without the recorder's table.
reopen_mp4 ==
  /\ at = "reopen"
  /\ create_mp4_readctx
  /\ next' = mov_reader_seek(tab', [t \in Tracks |-> 1], last)
  /\ at' = "idle"
  /\ got' = Nothing
  /\ UNCHANGED <<recVars, last>>

\* imp_mp4_seek, to any frame's time.
imp_mp4_seek(now) ==
  /\ at = "idle"
  /\ next' = mov_reader_seek(tab, next, now)
  /\ NothingSeen
  /\ UNCHANGED <<recVars, at, tab, synced, last>>

\* imp_close_mp4_reader.
imp_close_mp4_reader ==
  /\ at \in {"idle", "ended"}
  /\ at' = "none"
  /\ tab' = NoTrack /\ next' = [t \in Tracks |-> 1] /\ synced' = NoCopy /\ last' = 0
  /\ NothingSeen
  /\ UNCHANGED recVars

\* imp_close_mp4 makes the player take the table over, if there is a player.
CloseAndSync ==
  /\ imp_close_mp4
  /\ \/ at # "none" /\ sync_context
     \/ at = "none" /\ UNCHANGED <<tab, next, synced>>
  /\ NothingSeen
  /\ UNCHANGED <<at, last>>

Player ==
  \/ imp_read_mp4 \/ sync_rw_context \/ ReadEnd \/ ReadFrame \/ ReadShort
  \/ reopen_mp4 \/ imp_close_mp4_reader
  \/ \E now \in 1..MaxSamples : imp_mp4_seek(now)

\* A step of the storage thread alone.
Record == Storage /\ NothingSeen /\ UNCHANGED <<at, tab, next, synced, last>>

Next == Record \/ CloseAndSync \/ Player

Spec == Init /\ [][Next]_vars

----------------------------------------------------------------------------------
(* Properties.                                                                    *)

PlayTypeOK ==
  /\ at \in {"none", "idle", "read", "reopen", "ended"}
  /\ tab \in [Tracks -> Seq(Entry)]
  /\ next \in [Tracks -> Nat \ {0}]
  /\ synced \in {NoCopy} \cup SUBSET Tracks
  /\ last \in 0..MaxSamples

\* Every variable of the recorder and of the player stays within its type.
TypeOK == RecTypeOK /\ PlayTypeOK

\* A frame the player delivers is the frame that was recorded, all that was
\* written of it, though the table is taken over with samples the file does not have yet
\* and the file is rewritten in front while it is read.
DeliveredIntact ==
  got # Nothing => /\ got.i \in DOMAIN samples[got.t]
                   /\ got.cells = DataOf(samples[got.t][got.i])

\* An index read under MOOV_MUTEX is a whole one, the last one finished; only
\* imp_close_mp4, which rewrites it without the mutex, can be caught at it.
OpenedWhole ==
  opened.locked => opened.whole /\ opened.tab = opened.was

\* The file as a whole, all layers together, is one that is only written at
\* its position.
Plain == INSTANCE PlainFile WITH content <- View(f), pos <- f.tell

CacheKeepsPromise == Plain!Spec
==================================================================================
