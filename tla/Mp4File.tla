--------------------------------- MODULE Mp4File ---------------------------------
(***************************************************************************)
(* The file of a recording as the storage thread holds it: the cache       *)
(* mov_file_cache_t, over a stdio FILE, over the kernel's file.  A file is *)
(* a record                                                                *)
(*                                                                         *)
(*   disk    what the kernel holds, and all that a crash of the process or *)
(*           another FILE can see                                          *)
(*   base    where in it the FILE's buffer begins                          *)
(*   pend    the FILE's buffer: fwrite has taken it, write has not         *)
(*   cache   mov_file_cache_t's buffer; `off` is its length                *)
(*   tell    mov_file_cache_t's tell                                       *)
(*                                                                         *)
(* The operators are the operations of the cache, a function from file to  *)
(* file.  A cell is a box header, an entry of a table or a unit of media   *)
(* data.  The writing side never reads through the cache, so that its len  *)
(* stays 0, and the file does not fail (safe_write returns n): what a      *)
(* failed write does is said in the README.                                *)
(***************************************************************************)
EXTENDS Naturals, Sequences

CONSTANTS
  CacheSize,   \* CACHE_SIZE, in cells
  Addr,        \* the addresses of a file
  Hole         \* a cell beyond the end of the file

\* What a cell can hold: its kind and two numbers.
Cell ==
  {"moov", "trak", "stsz", "len", "stco", "off", "skip", "zero", "mdat", "data"}
    \X Nat \X Nat

ASSUME FileAssumption ==
  /\ CacheSize \in Nat
  /\ Addr \subseteq Nat
  /\ Hole \notin Cell

Contents == [Addr -> Cell \cup {Hole}]

File == [disk : Contents, base : Nat, pend : Seq(Cell), cache : Seq(Cell), tell : Nat]

\* The cells s laid over d from address at on.
Put(d, at, s) ==
  [x \in Addr |-> IF at <= x /\ x < at + Len(s) THEN s[x - at + 1] ELSE d[x]]

----------------------------------------------------------------------------------
(* stdio and the kernel.                                                          *)

ftell(f) == f.base + Len(f.pend)

\* fwrite, by way of safe_write, which holds FILE_MUTEX.
safe_write(f, s) == [f EXCEPT !.pend = @ \o s]

\* stdio hands the n oldest cells of its buffer to the kernel, when it likes.
Spilt(f, n) ==
  [f EXCEPT !.disk = Put(@, f.base, SubSeq(f.pend, 1, n)),
            !.base = @ + n,
            !.pend = SubSeq(@, n + 1, Len(@))]

\* fseek, which writes the buffer out first; fclose does that too.
fseek(f, x) == [Spilt(f, Len(f.pend)) EXCEPT !.base = x]

----------------------------------------------------------------------------------
(* The cache.                                                                     *)

Flushed(f) == [safe_write(f, f.cache) EXCEPT !.cache = <<>>]

Cached(f, s) == [f EXCEPT !.cache = @ \o s]

\* mov_file_cache_write: into the cache if there is room to spare, else the
\* cache is written out, and what is too long for it straight to the FILE.
mov_file_cache_write(f, s) ==
  LET g == [f EXCEPT !.tell = @ + Len(s)]
      Fits(h) == Len(h.cache) + Len(s) < CacheSize
  IN CASE Fits(g) -> Cached(g, s)
       [] ~Fits(g) /\ Fits(Flushed(g)) -> Cached(Flushed(g), s)
       [] OTHER -> safe_write(Flushed(g), s)

\* Mistake: a seek to another place drops the flush.
mov_file_cache_seek_dropping(f, x) ==
  IF x = f.tell THEN f
  ELSE [fseek([f EXCEPT !.cache = <<>>], x) EXCEPT !.tell = x]

\* mov_file_cache_seek: nothing if the file is there already, else the cache
\* is written out and the FILE, which writes its own buffer out, moved.
mov_file_cache_seek(f, x) ==
  IF x = f.tell THEN f
  ELSE [fseek(Flushed(f), x) EXCEPT !.tell = x]

\* Mistake: a frame leaves tell behind.
write_data_stale(f, s) ==
  LET g == IF Len(f.cache) + Len(s) > CacheSize THEN Flushed(f) ELSE f
  IN IF Len(g.cache) + Len(s) <= CacheSize THEN Cached(g, s) ELSE safe_write(g, s)

\* A frame longer than the cache that finds it empty: the fwrite of no bytes,
\* meant to empty the cache, returns 0, which is taken for an error, and
\* write_data returns ferror, 0, with nothing written.
Refused(f, s) == f.cache = <<>> /\ Len(s) > CacheSize

wrote_len(f, s) == IF Refused(f, s) THEN 0 ELSE Len(s)

\* write_data: the frame goes to the cache, emptied first if the frame does
\* not fit in what is left, or to the FILE if it is longer than the cache.
\* tell is set from the FILE's position.
write_data(f, s) ==
  LET g == IF Len(f.cache) + Len(s) > CacheSize THEN Flushed(f) ELSE f
      h == CASE Refused(f, s) -> f
             [] ~Refused(f, s) /\ Len(g.cache) + Len(s) <= CacheSize -> Cached(g, s)
             [] OTHER -> safe_write(g, s)
  IN [h EXCEPT !.tell = ftell(h) + Len(h.cache)]

----------------------------------------------------------------------------------
(* What a file holds, all layers together, and what its tell should be.           *)

View(f) == Put(Put(f.disk, f.base, f.pend), ftell(f), f.cache)

\* What waits above the kernel, oldest first; the contents to come.
Waiting(g) == g.pend \o g.cache
Future(g, k) == Put(g.disk, g.base, SubSeq(Waiting(g), 1, k))
Futures(g) == {Future(g, k) : k \in 0..Len(Waiting(g))}

\* mov_file_cache_tell answers -1 unless this holds.
TellHolds(f) == f.tell = ftell(f) + Len(f.cache)

\* The copies into the cache stay within its CACHE_SIZE bytes.
CacheFits(f) == Len(f.cache) <= CacheSize

\* x up to x + n - 1 have been written and have reached the kernel as s.
Holds(d, x, s) == \A i \in DOMAIN s : x + i - 1 \in Addr /\ d[x + i - 1] = s[i]
==================================================================================
