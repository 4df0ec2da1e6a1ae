--------------------------------- MODULE Mp4_proofs ---------------------------------
(***************************************************************************)
(* The recorder, for any size of the cache, of the room for the index, and *)
(* of frames, and whatever the player does: the position the cache         *)
(* believes in is the real one, and all layers together are a plain file.  *)
(***************************************************************************)
EXTENDS Mp4Crash, SequenceTheorems, TLAPS

-----------------------------------------------------------------------------
(* Laying cells over a file.                                               *)

\* Cells laid over a file make a file.
LEMMA PutType ==
  ASSUME NEW d \in Contents, NEW p \in Nat, NEW s \in Seq(Cell)
  PROVE  Put(d, p, s) \in Contents
<1> SUFFICES ASSUME NEW x \in Addr
             PROVE  (IF p <= x /\ x < p + Len(s) THEN s[x - p + 1] ELSE d[x]) \in Cell \cup {Hole}
  BY DEF Put, Contents
<1>1. CASE p <= x /\ x < p + Len(s)
  <2>1. x - p + 1 \in 1..Len(s)
    BY <1>1, FileAssumption, LenProperties
  <2> QED
    BY <1>1, <2>1, ElementOfSeq
<1>2. CASE ~(p <= x /\ x < p + Len(s))
  BY <1>2 DEF Contents
<1> QED
  BY <1>1, <1>2

\* What a file holds at one address after cells were laid over it.
LEMMA PutAt ==
  ASSUME NEW d, NEW p, NEW s, NEW x \in Addr
  PROVE  Put(d, p, s)[x] = IF p <= x /\ x < p + Len(s) THEN s[x - p + 1] ELSE d[x]
  BY DEF Put

\* Cells laid one lot after the other are laid at once.
LEMMA PutPut ==
  ASSUME NEW d \in Contents, NEW p \in Nat, NEW s \in Seq(Cell), NEW t \in Seq(Cell)
  PROVE  Put(Put(d, p, s), p + Len(s), t) = Put(d, p, s \o t)
<1> DEFINE st == s \o t
<1>1. Len(s) \in Nat /\ Len(t) \in Nat
  BY LenProperties
<1>2. /\ Len(st) = Len(s) + Len(t)
      /\ \A i \in 1..(Len(s) + Len(t)) :
           st[i] = IF i <= Len(s) THEN s[i] ELSE t[i - Len(s)]
  BY ConcatProperties
<1> HIDE DEF st
<1>3. ASSUME NEW x \in Addr
      PROVE  Put(Put(d, p, s), p + Len(s), t)[x] = Put(d, p, st)[x]
  <2>0. x \in Nat
    BY FileAssumption
  <2> DEFINE n == Len(s)
             k == Len(t)
             P == Put(d, p, s)
  <2>a. Put(P, p + n, t)[x] = IF p + n <= x /\ x < p + n + k THEN t[x - (p + n) + 1] ELSE P[x]
    BY PutAt
  <2>b. P[x] = IF p <= x /\ x < p + n THEN s[x - p + 1] ELSE d[x]
    BY PutAt
  <2>d. n \in Nat /\ k \in Nat
    BY <1>1
  <2>f. Len(st) = n + k
    BY <1>2
  <2>g. Put(d, p, st)[x] = IF p <= x /\ x < p + Len(st) THEN st[x - p + 1] ELSE d[x]
    BY PutAt
  <2>c. Put(d, p, st)[x] = IF p <= x /\ x < p + (n + k) THEN st[x - p + 1] ELSE d[x]
    BY <2>f, <2>g
  <2> SUFFICES Put(P, p + n, t)[x] = Put(d, p, st)[x]
    OBVIOUS
  <2>e. \A i \in 1..(n + k) : st[i] = IF i <= n THEN s[i] ELSE t[i - n]
    BY <1>2
  <2> HIDE DEF n, k, P
  <2>1. CASE x < p
    BY <2>0, <2>1, <2>a, <2>b, <2>c, <2>d
  <2>2. CASE p <= x /\ x < p + n
    <3>1. x - p + 1 \in 1..(n + k) /\ x - p + 1 <= n
      BY <2>0, <2>2, <2>d
    <3>2. st[x - p + 1] = s[x - p + 1]
      BY <3>1, <2>e
    <3> QED
      BY <2>0, <2>2, <3>2, <2>a, <2>b, <2>c, <2>d
  <2>3. CASE p + n <= x /\ x < p + n + k
    <3>1. x - p + 1 \in 1..(n + k) /\ ~(x - p + 1 <= n)
      BY <2>0, <2>3, <2>d
    <3>2. st[x - p + 1] = t[(x - p + 1) - n]
      BY <3>1, <2>e
    <3>3. (x - p + 1) - n = x - (p + n) + 1
      BY <2>0, <2>d
    <3> QED
      BY <2>0, <2>3, <3>2, <3>3, <2>a, <2>b, <2>c, <2>d
  <2>4. CASE p + n + k <= x
    BY <2>0, <2>4, <2>a, <2>b, <2>c, <2>d
  <2> QED
    BY <2>0, <2>1, <2>2, <2>3, <2>4, <2>d
<1>4. Put(Put(d, p, s), p + Len(s), t) =
        [x \in Addr |-> Put(Put(d, p, s), p + Len(s), t)[x]]
  BY DEF Put
<1>5. Put(d, p, st) = [x \in Addr |-> Put(d, p, st)[x]]
  BY DEF Put
<1> QED
  BY <1>3, <1>4, <1>5 DEF st

\* Laying no cells changes nothing.
LEMMA PutNothing ==
  ASSUME NEW d \in Contents, NEW p \in Nat
  PROVE  Put(d, p, <<>>) = d
  BY FileAssumption DEF Put, Contents

-----------------------------------------------------------------------------
(* The operations of the cache.                                            *)

\* A file with another cache, buffer, tell or base, field by field.
LEMMA NewCache ==
  ASSUME NEW g \in File, NEW e
  PROVE  [g EXCEPT !.cache = e] = [disk |-> g.disk, base |-> g.base, pend |-> g.pend,
                                   cache |-> e, tell |-> g.tell]
  BY DEF File

\* The same, for the buffer.
LEMMA NewPend ==
  ASSUME NEW g \in File, NEW e
  PROVE  [g EXCEPT !.pend = e] = [disk |-> g.disk, base |-> g.base, pend |-> e,
                                  cache |-> g.cache, tell |-> g.tell]
  BY DEF File

\* The same, for tell.
LEMMA NewTell ==
  ASSUME NEW g \in File, NEW e
  PROVE  [g EXCEPT !.tell = e] = [disk |-> g.disk, base |-> g.base, pend |-> g.pend,
                                  cache |-> g.cache, tell |-> e]
  BY DEF File

\* The same, for base.
LEMMA NewBase ==
  ASSUME NEW g \in File, NEW e
  PROVE  [g EXCEPT !.base = e] = [disk |-> g.disk, base |-> e, pend |-> g.pend,
                                  cache |-> g.cache, tell |-> g.tell]
  BY DEF File

\* The types of the parts of a file.
LEMMA FileFields ==
  ASSUME NEW g \in File
  PROVE  /\ g.disk \in Contents /\ g.base \in Nat /\ g.tell \in Nat
         /\ g.pend \in Seq(Cell) /\ g.cache \in Seq(Cell)
         /\ Len(g.pend) \in Nat /\ Len(g.cache) \in Nat
         /\ ftell(g) \in Nat
         /\ View(g) \in Contents
<1>1. /\ g.disk \in Contents /\ g.base \in Nat /\ g.tell \in Nat
      /\ g.pend \in Seq(Cell) /\ g.cache \in Seq(Cell)
  BY DEF File
<1>2. Len(g.pend) \in Nat /\ Len(g.cache) \in Nat
  BY <1>1, LenProperties
<1>3. ftell(g) \in Nat
  BY <1>1, <1>2 DEF ftell
<1> QED
  BY <1>1, <1>2, <1>3, PutType DEF View

\* Emptying the cache moves its cells one layer down.
LEMMA FlushedIs ==
  ASSUME NEW g \in File
  PROVE  /\ Flushed(g) \in File
         /\ Flushed(g).cache = <<>>
         /\ Flushed(g).tell = g.tell
         /\ ftell(Flushed(g)) = ftell(g) + Len(g.cache)
         /\ View(Flushed(g)) = View(g)
<1> DEFINE p == g.pend \o g.cache
<1>2. p \in Seq(Cell) /\ Len(p) = Len(g.pend) + Len(g.cache)
  BY FileFields, ConcatProperties
<1>8. Put(g.disk, g.base, p) = View(g)
  BY FileFields, PutPut DEF View, ftell
<1>9. Flushed(g) = [[g EXCEPT !.pend = p] EXCEPT !.cache = <<>>]
  BY DEF Flushed, safe_write
<1> HIDE DEF p
<1>1. Flushed(g) = [disk |-> g.disk, base |-> g.base, pend |-> p,
                    cache |-> <<>>, tell |-> g.tell]
  BY <1>9 DEF File
<1>3. Flushed(g) \in File
  BY <1>1, <1>2, FileFields, EmptySeq DEF File
<1>4. ftell(Flushed(g)) = ftell(g) + Len(g.cache)
  <2>1. g.base \in Nat /\ Len(g.pend) \in Nat /\ Len(g.cache) \in Nat
    BY FileFields
  <2>2. Flushed(g).base = g.base /\ Flushed(g).pend = p
    BY <1>1
  <2>3. ftell(Flushed(g)) = g.base + Len(p)
    BY <2>2 DEF ftell
  <2>4. ftell(g) = g.base + Len(g.pend)
    BY DEF ftell
  <2> DEFINE a == g.base
             b == Len(g.pend)
             c == Len(g.cache)
             l == Len(p)
  <2>5. a \in Nat /\ b \in Nat /\ c \in Nat /\ l = b + c
    BY <1>2, <2>1
  <2>6. ftell(Flushed(g)) = a + l /\ ftell(g) = a + b
    BY <2>3, <2>4
  <2> HIDE DEF a, b, c, l
  <2>7. ftell(Flushed(g)) = ftell(g) + c
    BY <2>5, <2>6
  <2> QED
    BY <2>7 DEF c
<1>6. View(Flushed(g)) = Put(Put(g.disk, g.base, p), ftell(Flushed(g)), <<>>)
  BY <1>1 DEF View
<1>7. Put(g.disk, g.base, p) \in Contents /\ ftell(Flushed(g)) \in Nat
  BY <1>2, <1>3, FileFields, PutType
<1> QED
  BY <1>1, <1>3, <1>4, <1>6, <1>7, <1>8, PutNothing

\* A write into the cache.
LEMMA CachedIs ==
  ASSUME NEW g \in File, NEW s \in Seq(Cell)
  PROVE  /\ Cached(g, s) \in File
         /\ Cached(g, s).tell = g.tell
         /\ Len(Cached(g, s).cache) = Len(g.cache) + Len(s)
         /\ ftell(Cached(g, s)) = ftell(g)
         /\ View(Cached(g, s)) = Put(View(g), ftell(g) + Len(g.cache), s)
<1>1. Cached(g, s) = [disk |-> g.disk, base |-> g.base, pend |-> g.pend,
                      cache |-> g.cache \o s, tell |-> g.tell]
  BY NewCache DEF Cached
<1>2. g.cache \o s \in Seq(Cell) /\ Len(g.cache \o s) = Len(g.cache) + Len(s)
  BY FileFields, ConcatProperties
<1>3. Cached(g, s) \in File
  BY <1>1, <1>2, FileFields DEF File
<1>4. ftell(Cached(g, s)) = ftell(g)
  BY <1>1 DEF ftell
<1>5. View(Cached(g, s)) = Put(Put(g.disk, g.base, g.pend), ftell(g), g.cache \o s)
  BY <1>1, <1>4 DEF View
<1>6. Put(g.disk, g.base, g.pend) \in Contents
  BY FileFields, PutType
<1>7. View(Cached(g, s)) = Put(View(g), ftell(g) + Len(g.cache), s)
  BY <1>5, <1>6, FileFields, PutPut DEF View
<1> QED
  BY <1>1, <1>2, <1>3, <1>4, <1>7

\* A write past an empty cache.
LEMMA WrittenPast ==
  ASSUME NEW g \in File, NEW s \in Seq(Cell), g.cache = <<>>
  PROVE  /\ safe_write(g, s) \in File
         /\ safe_write(g, s).tell = g.tell
         /\ safe_write(g, s).cache = <<>>
         /\ ftell(safe_write(g, s)) = ftell(g) + Len(s)
         /\ View(safe_write(g, s)) = Put(View(g), ftell(g), s)
<1>1. safe_write(g, s) = [disk |-> g.disk, base |-> g.base, pend |-> g.pend \o s,
                          cache |-> <<>>, tell |-> g.tell]
  BY NewPend DEF safe_write
<1>2. g.pend \o s \in Seq(Cell) /\ Len(g.pend \o s) = Len(g.pend) + Len(s) /\ Len(s) \in Nat
  BY FileFields, ConcatProperties, LenProperties
<1>3. safe_write(g, s) \in File
  BY <1>1, <1>2, FileFields, EmptySeq DEF File
<1>4. ftell(safe_write(g, s)) = ftell(g) + Len(s)
  BY <1>1, <1>2, FileFields DEF ftell
<1>5. View(g) = Put(g.disk, g.base, g.pend)
  BY FileFields, PutType, PutNothing DEF View
<1>6. Put(g.disk, g.base, g.pend \o s) = Put(View(g), ftell(g), s)
  <2>1. Put(Put(g.disk, g.base, g.pend), g.base + Len(g.pend), s) = Put(g.disk, g.base, g.pend \o s)
    BY FileFields, PutPut
  <2> QED
    BY <1>5, <2>1 DEF ftell
<1>7. View(safe_write(g, s)) = Put(Put(g.disk, g.base, g.pend \o s), ftell(safe_write(g, s)), <<>>)
  BY <1>1 DEF View
<1>8. Put(g.disk, g.base, g.pend \o s) \in Contents /\ ftell(safe_write(g, s)) \in Nat
  BY <1>2, <1>3, FileFields, PutType
<1> QED
  BY <1>1, <1>3, <1>4, <1>6, <1>7, <1>8, PutNothing

\* What stdio does with its buffer nobody above sees.
LEMMA SpiltIs ==
  ASSUME NEW g \in File, NEW n \in 0..Len(g.pend)
  PROVE  /\ Spilt(g, n) \in File
         /\ Spilt(g, n).tell = g.tell
         /\ Spilt(g, n).cache = g.cache
         /\ ftell(Spilt(g, n)) = ftell(g)
         /\ View(Spilt(g, n)) = View(g)
<1> DEFINE a == SubSeq(g.pend, 1, n)
           b == SubSeq(g.pend, n + 1, Len(g.pend))
<1>0. n \in Nat /\ n <= Len(g.pend) /\ Len(g.pend) \in Nat
  BY FileFields
<1>1. Spilt(g, n) = [disk |-> Put(g.disk, g.base, a), base |-> g.base + n, pend |-> b,
                     cache |-> g.cache, tell |-> g.tell]
  <2>1. Spilt(g, n) = [g EXCEPT !.disk = Put(g.disk, g.base, a), !.base = g.base + n, !.pend = b]
    BY DEF Spilt
  <2> HIDE DEF a, b
  <2> QED
    BY <2>1 DEF File
<1>2. a \in Seq(Cell) /\ Len(a) = n
  <2>1. \A i \in 1..n : g.pend[i] \in Cell
    BY <1>0, FileFields, ElementOfSeq
  <2> QED
    BY <1>0, <2>1, SubSeqProperties
<1>3. b \in Seq(Cell) /\ Len(b) = Len(g.pend) - n
  <2>1. \A i \in (n + 1)..Len(g.pend) : g.pend[i] \in Cell
    BY <1>0, FileFields, ElementOfSeq
  <2> QED
    BY <1>0, <2>1, SubSeqProperties
<1>4. a \o b = g.pend
  <2>0. g.pend \in Seq(Cell) /\ 1 \in 1..(Len(g.pend) + 1) /\ n \in (1 - 1)..Len(g.pend)
        /\ Len(g.pend) \in n..Len(g.pend)
    BY <1>0, FileFields
  <2>1. SubSeq(g.pend, 1, n) \o SubSeq(g.pend, n + 1, Len(g.pend)) = SubSeq(g.pend, 1, Len(g.pend))
    BY <2>0, ConcatAdjacentSubSeq
  <2> QED
    BY <2>1, FileFields, SubSeqFull
<1>5. Put(g.disk, g.base, a) \in Contents
  BY <1>2, FileFields, PutType
<1>6. Spilt(g, n) \in File
  BY <1>0, <1>1, <1>3, <1>5, FileFields DEF File
<1>7. ftell(Spilt(g, n)) = ftell(g)
  <2> HIDE DEF a, b
  <2> QED
    BY <1>0, <1>1, <1>3, FileFields DEF ftell
<1>8. Put(Put(g.disk, g.base, a), g.base + n, b) = Put(g.disk, g.base, g.pend)
  <2> HIDE DEF a, b
  <2>1. Put(Put(g.disk, g.base, a), g.base + Len(a), b) = Put(g.disk, g.base, a \o b)
    BY <1>2, <1>3, FileFields, PutPut
  <2> QED
    BY <1>2, <1>4, <2>1
<1> QED
  BY <1>1, <1>6, <1>7, <1>8 DEF View

-----------------------------------------------------------------------------
(* What each call into the cache keeps and does.                           *)

GoodFile(g) == g \in File /\ TellHolds(g) /\ CacheFits(g)

\* fseek writes the buffer out and moves.
LEMMA fseekIs ==
  ASSUME NEW g \in File, NEW x \in Nat, g.cache = <<>>
  PROVE  /\ fseek(g, x) \in File
         /\ fseek(g, x).cache = <<>> /\ fseek(g, x).tell = g.tell
         /\ ftell(fseek(g, x)) = x
         /\ View(fseek(g, x)) = View(g)
<1> DEFINE h == Spilt(g, Len(g.pend))
<1>1. h \in File /\ h.tell = g.tell /\ h.cache = <<>> /\ View(h) = View(g)
  <2>1. Len(g.pend) \in 0..Len(g.pend)
    BY FileFields
  <2> QED
    BY <2>1, SpiltIs
<1>2. h.pend = <<>>
  <2> DEFINE b == SubSeq(g.pend, Len(g.pend) + 1, Len(g.pend))
  <2>1. b = <<>>
    BY FileFields, SubSeqEmpty
  <2>2. h.pend = SubSeq(g.pend, Len(g.pend) + 1, Len(g.pend))
    BY DEF Spilt, File
  <2> QED
    BY <2>1, <2>2
<1>3. fseek(g, x) = [h EXCEPT !.base = x]
  BY DEF fseek
<1> HIDE DEF h
<1>4. fseek(g, x) = [disk |-> h.disk, base |-> x, pend |-> <<>>, cache |-> <<>>, tell |-> g.tell]
  BY <1>1, <1>2, <1>3, NewBase
<1>5. fseek(g, x) \in File
  BY <1>4, <1>1, FileFields, EmptySeq DEF File
<1>6. h.disk \in Contents /\ h.base \in Nat /\ Len(h.pend) = 0
  BY <1>1, <1>2, FileFields
<1>7. View(h) = h.disk
  <2>1. View(h) = Put(Put(h.disk, h.base, <<>>), ftell(h), <<>>)
    BY <1>1, <1>2 DEF View
  <2> QED
    BY <2>1, <1>1, <1>6, FileFields, PutNothing
<1>8. ftell(fseek(g, x)) = x
  BY <1>4, EmptySeq DEF ftell
<1>9. View(fseek(g, x)) = h.disk
  <2>1. View(fseek(g, x)) = Put(Put(h.disk, x, <<>>), x, <<>>)
    BY <1>4, <1>8 DEF View
  <2> QED
    BY <2>1, <1>6, PutNothing
<1> QED
  BY <1>1, <1>4, <1>5, <1>7, <1>8, <1>9

\* A seek of the cache: it is at x, and nothing of the file has changed.
LEMMA SeekKeeps ==
  ASSUME NEW g, GoodFile(g), NEW x \in Nat
  PROVE  LET h == mov_file_cache_seek(g, x) IN
         /\ GoodFile(h)
         /\ View(h) = View(g)
         /\ h.tell = x
         /\ x # g.tell => h.cache = <<>>
<1>1. CASE x = g.tell
  BY <1>1 DEF mov_file_cache_seek
<1>2. CASE x # g.tell
  <2> DEFINE k == fseek(Flushed(g), x)
             h == [k EXCEPT !.tell = x]
  <2>1. mov_file_cache_seek(g, x) = h
    BY <1>2 DEF mov_file_cache_seek
  <2>2. /\ k \in File /\ k.cache = <<>> /\ ftell(k) = x /\ View(k) = View(g)
    BY FlushedIs, fseekIs DEF GoodFile
  <2> HIDE DEF k
  <2>3. h = [disk |-> k.disk, base |-> k.base, pend |-> k.pend, cache |-> <<>>, tell |-> x]
    BY <2>2, NewTell
  <2> HIDE DEF h
  <2>4. h \in File
    BY <2>2, <2>3, FileFields, EmptySeq DEF File
  <2>5. ftell(h) = x
    BY <2>2, <2>3 DEF ftell
  <2>6. View(h) = View(k)
    BY <2>2, <2>3, <2>5 DEF View
  <2>7. TellHolds(h)
    BY <2>3, <2>5, EmptySeq DEF TellHolds
  <2>8. CacheFits(h)
    BY <2>3, EmptySeq, FileAssumption DEF CacheFits
  <2> QED
    BY <2>1, <2>2, <2>3, <2>4, <2>6, <2>7, <2>8 DEF GoodFile
<1> QED
  BY <1>1, <1>2

\* Another tell changes nothing but tell.
LEMMA TellIs ==
  ASSUME NEW g \in File, NEW x \in Nat, NEW h, h = [g EXCEPT !.tell = x]
  PROVE  /\ h \in File
         /\ h.tell = x
         /\ h.cache = g.cache
         /\ ftell(h) = ftell(g)
         /\ View(h) = View(g)
<1>1. h = [disk |-> g.disk, base |-> g.base, pend |-> g.pend, cache |-> g.cache, tell |-> x]
  BY NewTell
<1>2. h \in File
  BY <1>1, FileFields DEF File
<1>3. ftell(h) = ftell(g)
  BY <1>1 DEF ftell
<1> QED
  BY <1>1, <1>2, <1>3 DEF View

\* A write into the cache: behind it, and over what was at the position.
LEMMA WriteKeeps ==
  ASSUME NEW g, GoodFile(g), NEW s \in Seq(Cell)
  PROVE  LET h == mov_file_cache_write(g, s) IN
         /\ GoodFile(h)
         /\ View(h) = Put(View(g), g.tell, s)
         /\ h.tell = g.tell + Len(s)
<1> DEFINE n == Len(s)
           c == Len(g.cache)
           x == g.tell
           y == x + n
           k == [g EXCEPT !.tell = y]
           l == Flushed(k)
<1>1. /\ g \in File /\ n \in Nat /\ c \in Nat /\ x \in Nat /\ y \in Nat
      /\ ftell(g) + c = x /\ c <= CacheSize
  BY FileFields, LenProperties DEF GoodFile, TellHolds, CacheFits
<1>2. k \in File /\ k.tell = y /\ k.cache = g.cache /\ ftell(k) = ftell(g) /\ View(k) = View(g)
  <2> HIDE DEF y
  <2> QED
    BY <1>1, TellIs
<1>3. l \in File /\ l.tell = y /\ l.cache = <<>> /\ ftell(l) = x /\ View(l) = View(g)
  <2>1. Len(k.cache) = c
    BY <1>2
  <2> HIDE DEF k
  <2> QED
    BY <1>1, <1>2, <2>1, FlushedIs
<1>4. mov_file_cache_write(g, s) = CASE c + n < CacheSize -> Cached(k, s)
                                     [] ~(c + n < CacheSize) /\ 0 + n < CacheSize -> Cached(l, s)
                                     [] OTHER -> safe_write(l, s)
  <2>1. Len(k.cache) = c /\ Len(l.cache) = 0
    BY <1>2, <1>3, EmptySeq
  <2>2. mov_file_cache_write(g, s) =
          CASE Len(k.cache) + n < CacheSize -> Cached(k, s)
            [] ~(Len(k.cache) + n < CacheSize) /\ Len(l.cache) + n < CacheSize -> Cached(l, s)
            [] OTHER -> safe_write(l, s)
    BY DEF mov_file_cache_write
  <2> QED
    BY <2>1, <2>2
<1> DEFINE h == mov_file_cache_write(g, s)
<1> SUFFICES GoodFile(h) /\ View(h) = Put(View(g), x, s) /\ h.tell = y
  OBVIOUS
<1> HIDE DEF k, l, h, y
<1>5. CASE c + n < CacheSize
  <2>1. h = Cached(k, s)
    BY <1>4, <1>5 DEF h
  <2>2. Len(k.cache) = c
    BY <1>2
  <2>3. /\ h \in File /\ h.tell = y
        /\ Len(h.cache) = c + n /\ ftell(h) = ftell(g) /\ View(h) = Put(View(g), x, s)
    BY <1>1, <1>2, <2>1, <2>2, CachedIs
  <2>4. ftell(h) + Len(h.cache) = y
    <3> DEFINE t == ftell(g)
    <3>1. t \in Nat /\ t + c = x /\ ftell(h) + Len(h.cache) = t + (c + n)
      BY <1>1, <2>3, FileFields
    <3> HIDE DEF t, c, n, x
    <3> QED
      BY <1>1, <3>1 DEF y
  <2>5. Len(h.cache) <= CacheSize
    <3> HIDE DEF c, n
    <3> QED
      BY <1>1, <1>5, <2>3, FileAssumption
  <2> QED
    BY <2>3, <2>4, <2>5 DEF GoodFile, TellHolds, CacheFits
<1>6. CASE ~(c + n < CacheSize) /\ 0 + n < CacheSize
  <2>1. h = Cached(l, s)
    BY <1>4, <1>6 DEF h
  <2>2. Len(l.cache) = 0 /\ x + 0 = x
    BY <1>1, <1>3, EmptySeq
  <2>3. /\ h \in File /\ h.tell = y
        /\ Len(h.cache) = 0 + n /\ ftell(h) = x /\ View(h) = Put(View(g), x, s)
    BY <1>1, <1>3, <2>1, <2>2, CachedIs
  <2>4. ftell(h) + Len(h.cache) = y /\ Len(h.cache) <= CacheSize
    <3> HIDE DEF c, n, x
    <3> QED
      BY <1>1, <1>6, <2>3, FileAssumption DEF y
  <2> QED
    BY <2>3, <2>4 DEF GoodFile, TellHolds, CacheFits
<1>7. CASE ~(c + n < CacheSize) /\ ~(0 + n < CacheSize)
  <2>1. h = safe_write(l, s)
    BY <1>4, <1>7 DEF h
  <2>3. /\ h \in File /\ h.tell = y
        /\ h.cache = <<>> /\ ftell(h) = x + n /\ View(h) = Put(View(g), x, s)
    BY <1>1, <1>3, <2>1, WrittenPast
  <2>4. Len(h.cache) = 0
    BY <2>3, EmptySeq
  <2>5. ftell(h) + Len(h.cache) = y /\ Len(h.cache) <= CacheSize
    <3> HIDE DEF n, x
    <3> QED
      BY <1>1, <2>3, <2>4, FileAssumption DEF y
  <2> QED
    BY <2>3, <2>5 DEF GoodFile, TellHolds, CacheFits
<1> QED
  BY <1>5, <1>6, <1>7

\* A frame: as a write, unless it is refused, when nothing changes.
LEMMA FrameKeeps ==
  ASSUME NEW g, GoodFile(g), NEW s \in Seq(Cell)
  PROVE  LET h == write_data(g, s) IN
         /\ GoodFile(h)
         /\ View(h) = IF Refused(g, s) THEN View(g) ELSE Put(View(g), g.tell, s)
         /\ h.tell = g.tell + wrote_len(g, s)
<1> DEFINE n == Len(s)
           c == Len(g.cache)
           x == g.tell
           r == Refused(g, s)
           full == c + n > CacheSize
           l == IF full THEN Flushed(g) ELSE g
           k == CASE r -> g [] ~r /\ Len(l.cache) + n <= CacheSize -> Cached(l, s)
                  [] OTHER -> safe_write(l, s)
           z == ftell(k) + Len(k.cache)
           h == write_data(g, s)
           w == wrote_len(g, s)
<1>1. /\ g \in File /\ n \in Nat /\ c \in Nat /\ x \in Nat
      /\ ftell(g) \in Nat /\ ftell(g) + c = x /\ c <= CacheSize
  BY FileFields, LenProperties DEF GoodFile, TellHolds, CacheFits
<1>2. h = [k EXCEPT !.tell = z]
  BY DEF write_data
<1>3. w \in Nat /\ (r => w = 0) /\ (~r => w = n)
  BY <1>1 DEF wrote_len
<1>4. ASSUME NEW V, k \in File, Len(k.cache) <= CacheSize, View(k) = V, z = x + w
      PROVE  GoodFile(h) /\ View(h) = V /\ h.tell = x + w
  <2>1. z \in Nat
    <3>1. w \in Nat /\ x \in Nat /\ z = x + w
      BY <1>1, <1>3, <1>4
    <3> HIDE DEF z, x, w
    <3> QED
      BY <3>1
  <2>2. /\ h \in File /\ h.tell = z /\ h.cache = k.cache /\ ftell(h) = ftell(k) /\ View(h) = View(k)
    <3> HIDE DEF z, h, k
    <3> QED
      BY <1>2, <1>4, <2>1, TellIs
  <2>3. TellHolds(h)
    <3>1. ftell(h) + Len(h.cache) = z
      BY <2>2
    <3> HIDE DEF z, h, k
    <3> QED
      BY <2>2, <3>1 DEF TellHolds
  <2>4. CacheFits(h)
    <3> HIDE DEF h, k
    <3> QED
      BY <1>4, <2>2 DEF CacheFits
  <2> HIDE DEF z, h, k, x, w
  <2> QED
    BY <1>4, <2>2, <2>3, <2>4 DEF GoodFile
<1>5. CASE r
  <2>1. k = g
    BY <1>5
  <2>2. z = x + w
    <3>1. z = x
      BY <1>1, <2>1
    <3>2. w = 0 /\ x \in Nat
      BY <1>1, <1>3, <1>5
    <3> HIDE DEF x, w, z
    <3> QED
      BY <3>1, <3>2
  <2>3. GoodFile(h) /\ View(h) = View(g) /\ h.tell = x + w
    <3>1. k \in File /\ Len(k.cache) <= CacheSize /\ View(k) = View(g)
      BY <1>1, <2>1
    <3> HIDE DEF k, z, h, x, w
    <3> QED
      BY <1>4, <2>2, <3>1
  <2> QED
    BY <1>5, <2>3
<1>6. CASE ~r
  <2>1. /\ l \in File /\ l.tell = x /\ View(l) = View(g)
        /\ ftell(l) + Len(l.cache) = x /\ ftell(l) \in Nat /\ Len(l.cache) \in Nat
        /\ full => l.cache = <<>>
    <3>1. CASE full
      <4>1. l = Flushed(g)
        BY <3>1
      <4>2. /\ Flushed(g) \in File /\ Flushed(g).tell = x /\ View(Flushed(g)) = View(g)
            /\ ftell(Flushed(g)) = x /\ Flushed(g).cache = <<>>
        BY <1>1, FlushedIs
      <4>3. Len(Flushed(g).cache) = 0 /\ x + 0 = x
        BY <1>1, <4>2, EmptySeq
      <4> HIDE DEF l
      <4> QED
        BY <1>1, <4>1, <4>2, <4>3
    <3>2. CASE ~full
      BY <1>1, <3>2
    <3> QED
      BY <3>1, <3>2
  <2> HIDE DEF l
  <2> DEFINE m == Len(l.cache)
             t == ftell(l)
             V == Put(View(g), x, s)
  <2>2. SUFFICES /\ k \in File /\ Len(k.cache) <= CacheSize /\ View(k) = V
                 /\ z = x + w
    <3>1. GoodFile(h) /\ View(h) = V /\ h.tell = x + w
      <4> HIDE DEF k, z, h, x, w, V
      <4> QED
        BY <1>4, <2>2
    <3> QED
      BY <1>6, <3>1
  <2>3. CASE m + n <= CacheSize
    <3>1. k = Cached(l, s)
      BY <1>6, <2>3
    <3>2. k \in File /\ Len(k.cache) = m + n /\ ftell(k) = t /\ View(k) = Put(View(g), t + m, s)
      BY <2>1, <3>1, CachedIs
    <3>3. z = t + (m + n)
      BY <3>2
    <3>4. m \in Nat /\ t \in Nat /\ t + m = x
      BY <2>1
    <3>8. w = n /\ n \in Nat
      BY <1>1, <1>3, <1>6
    <3>5. z = x + w
      <4> HIDE DEF z, m, t, n, x, w
      <4> QED
        BY <3>3, <3>4, <3>8
    <3>6. View(k) = V
      BY <3>2, <3>4
    <3>7. Len(k.cache) <= CacheSize
      BY <2>3, <3>2
    <3> QED
      BY <3>2, <3>5, <3>6, <3>7
  <2>4. CASE ~(m + n <= CacheSize)
    <3>1. k = safe_write(l, s)
      BY <1>6, <2>4
    <3>2. full
      <4>1. CASE ~full
        <5>1. l = g
          BY <4>1 DEF l
        <5>2. m = c
          BY <5>1
        <5> HIDE DEF m, c, n
        <5> QED
          BY <1>1, <2>4, <4>1, <5>2, FileAssumption
      <4> QED
        BY <4>1
    <3>3. k \in File /\ k.cache = <<>> /\ ftell(k) = t + n /\ View(k) = Put(View(g), t, s)
      BY <2>1, <3>1, <3>2, WrittenPast
    <3>4. m = 0 /\ t \in Nat /\ t + m = x
      BY <2>1, <3>2, EmptySeq
    <3>5. Len(k.cache) = 0
      BY <3>3, EmptySeq
    <3>6. z = (t + n) + 0
      BY <3>3, <3>5
    <3>7. t = x
      <4> HIDE DEF t, m, x
      <4> QED
        BY <1>1, <3>4
    <3>11. w = n /\ n \in Nat /\ x \in Nat
      BY <1>1, <1>3, <1>6
    <3>8. z = x + w
      <4> HIDE DEF z, t, n, x, w
      <4> QED
        BY <3>6, <3>7, <3>11
    <3>9. View(k) = V
      BY <3>3, <3>7
    <3>10. Len(k.cache) <= CacheSize
      BY <3>5, FileAssumption
    <3> QED
      BY <3>3, <3>8, <3>9, <3>10
  <2> QED
    BY <2>3, <2>4
<1> QED
  BY <1>5, <1>6

-----------------------------------------------------------------------------
(* What the kernel may come to hold.                                       *)

\* The first k elements of a sequence, one by one.
LEMMA FirstOnes ==
  ASSUME NEW s \in Seq(Cell), NEW k \in 0..Len(s)
  PROVE  /\ SubSeq(s, 1, k) \in Seq(Cell) /\ Len(SubSeq(s, 1, k)) = k
         /\ \A i \in 1..k : SubSeq(s, 1, k)[i] = s[i]
<1>1. Len(s) \in Nat /\ k \in Nat /\ k <= Len(s)
  BY LenProperties
<1>2. \A i \in 1..k : s[i] \in Cell
  BY <1>1, ElementOfSeq
<1>3. k = 0 \/ k \in 1..Len(s)
  BY <1>1
<1>4. SubSeq(s, 1, k) \in Seq(Cell)
  BY <1>1, <1>2, SubSeqProperties
<1> QED
  BY <1>1, <1>4, SubSeqProperties

\* The cells waiting are cells, those of the FILE's buffer first.
LEMMA WaitingIs ==
  ASSUME NEW g \in File
  PROVE  /\ Waiting(g) \in Seq(Cell) /\ Len(Waiting(g)) \in Nat
         /\ Len(Waiting(g)) = Len(g.pend) + Len(g.cache)
         /\ View(g) = Put(g.disk, g.base, Waiting(g))
<1>1. g.pend \in Seq(Cell) /\ g.cache \in Seq(Cell) /\ g.disk \in Contents /\ g.base \in Nat
  BY FileFields
<1>2. Waiting(g) \in Seq(Cell) /\ Len(Waiting(g)) = Len(g.pend) + Len(g.cache)
  BY <1>1, ConcatProperties DEF Waiting
<1>3. View(g) = Put(g.disk, g.base, Waiting(g))
  BY <1>1, PutPut DEF View, ftell, Waiting
<1> QED
  BY <1>2, <1>3, LenProperties

\* One of the contents to come, address by address.
LEMMA FutureAt ==
  ASSUME NEW g \in File, NEW k \in 0..Len(Waiting(g))
  PROVE  /\ Future(g, k) \in Contents
         /\ \A x \in Addr : Future(g, k)[x] =
              IF g.base <= x /\ x < g.base + k THEN Waiting(g)[x - g.base + 1] ELSE g.disk[x]
<1> DEFINE w == Waiting(g)
           s == SubSeq(w, 1, k)
<1>1. w \in Seq(Cell) /\ g.disk \in Contents /\ g.base \in Nat /\ k \in Nat
  <2>1. w \in Seq(Cell) /\ g.disk \in Contents /\ g.base \in Nat
    BY WaitingIs, FileFields
  <2>2. k \in Nat
    <3>1. Len(Waiting(g)) \in Nat
      BY WaitingIs
    <3> QED
      BY <3>1
  <2> QED
    BY <2>1, <2>2
<1>2. s \in Seq(Cell) /\ Len(s) = k /\ \A i \in 1..k : s[i] = w[i]
  BY <1>1, FirstOnes
<1>3. Future(g, k) = Put(g.disk, g.base, s)
  BY DEF Future
<1>4. Future(g, k) \in Contents
  BY <1>1, <1>2, <1>3, PutType
<1>5. ASSUME NEW x \in Addr
      PROVE  Future(g, k)[x] =
               IF g.base <= x /\ x < g.base + k THEN w[x - g.base + 1] ELSE g.disk[x]
  <2> DEFINE b == g.base
  <2>1. Put(g.disk, b, s)[x] = IF b <= x /\ x < b + Len(s) THEN s[x - b + 1] ELSE g.disk[x]
    <3> HIDE DEF s, b
    <3> QED
      BY PutAt
  <2>2. x \in Nat /\ b \in Nat
    BY <1>1, FileAssumption
  <2>6. Len(s) = k /\ \A i \in 1..k : s[i] = w[i]
    BY <1>2
  <2>7. Future(g, k)[x] = IF b <= x /\ x < b + k THEN s[x - b + 1] ELSE g.disk[x]
    BY <1>3, <2>1, <2>6
  <2> DEFINE y == g.disk[x]
             z == Future(g, k)[x]
  <2> HIDE DEF b, s, w, y, z
  <2>3. b <= x /\ x < b + k => x - b + 1 \in 1..k
    BY <1>1, <2>2
  <2>8. z = IF b <= x /\ x < b + k THEN s[x - b + 1] ELSE y
    BY <2>7 DEF y, z
  <2>4. z = IF b <= x /\ x < b + k THEN w[x - b + 1] ELSE y
    BY <2>8, <2>3, <2>6
  <2> QED
    BY <2>4 DEF b, y, z
<1> QED
  BY <1>4, <1>5

\* Two contents that agree at every address are the same.
LEMMA SameContents ==
  ASSUME NEW d \in Contents, NEW e \in Contents, \A x \in Addr : d[x] = e[x]
  PROVE  d = e
  BY DEF Contents

\* The disk is one of the contents to come, and the file as a whole another.
LEMMA FuturesHave ==
  ASSUME NEW g \in File
  PROVE  /\ Futures(g) \subseteq Contents
         /\ g.disk \in Futures(g) /\ View(g) \in Futures(g)
<1> DEFINE w == Waiting(g)
           n == Len(w)
<1>1. w \in Seq(Cell) /\ n \in Nat /\ View(g) = Put(g.disk, g.base, w)
  BY WaitingIs
<1>2. 0 \in 0..n /\ n \in 0..n
  BY <1>1
<1>3. Futures(g) \subseteq Contents
  BY FutureAt DEF Futures
<1>4. Future(g, n) = View(g)
  <2>1. SubSeq(w, 1, n) = w
    BY <1>1, SubSeqFull
  <2> QED
    BY <1>1, <2>1 DEF Future
<1>5. Future(g, 0) = g.disk
  <2>1. g.disk \in Contents /\ g.base \in Nat
    BY FileFields
  <2>2. Future(g, 0) \in Contents
    BY <1>2, FutureAt
  <2>3. \A x \in Addr : Future(g, 0)[x] = g.disk[x]
    <3>1. \A x \in Addr : Future(g, 0)[x] =
            IF g.base <= x /\ x < g.base + 0 THEN w[x - g.base + 1] ELSE g.disk[x]
      BY <1>2, FutureAt
    <3>2. \A x \in Addr : x \in Nat
      BY FileAssumption
    <3> DEFINE b == g.base
    <3>3. \A x \in Nat : ~(b <= x /\ x < b + 0)
      <4>1. b \in Nat
        BY <2>1
      <4> HIDE DEF b
      <4> QED
        BY <4>1
    <3> QED
      BY <3>1, <3>2, <3>3
  <2> QED
    BY <2>1, <2>2, <2>3, SameContents
<1> HIDE DEF n
<1>6. Future(g, n) \in Futures(g) /\ Future(g, 0) \in Futures(g)
  BY <1>2 DEF Futures, n
<1> QED
  BY <1>3, <1>4, <1>5, <1>6

\* With nothing waiting there is one content only.
LEMMA NothingWaits ==
  ASSUME NEW g \in File, g.pend = <<>>, g.cache = <<>>
  PROVE  \A d \in Futures(g) : d = View(g)
<1>1. Len(Waiting(g)) = 0
  <2>1. Len(g.pend) = 0 /\ Len(g.cache) = 0
    BY EmptySeq
  <2>2. Len(Waiting(g)) = Len(g.pend) + Len(g.cache)
    BY WaitingIs
  <2> QED
    BY <2>1, <2>2
<1>2. \A d \in Futures(g) : d = Future(g, 0)
  <2>1. \A k \in 0..0 : k = 0
    OBVIOUS
  <2>2. \A d \in Futures(g) : \E k \in 0..0 : d = Future(g, k)
    BY <1>1, Zenon DEF Futures
  <2> QED
    BY <2>1, <2>2, Zenon
<1>3. View(g) \in Futures(g)
  BY FuturesHave
<1> QED
  BY <1>2, <1>3

\* What stdio writes out was to come.
LEMMA SpiltFutures ==
  ASSUME NEW g \in File, g.pend # <<>>
  PROVE  Futures(Spilt(g, 1)) \subseteq Futures(g)
<1> DEFINE h == Spilt(g, 1)
           w == Waiting(g)
           v == Waiting(h)
           p == SubSeq(g.pend, 1, 1)
           r == SubSeq(g.pend, 2, Len(g.pend))
           n == Len(w)
           b == g.base
<1>1. /\ g.pend \in Seq(Cell) /\ g.cache \in Seq(Cell) /\ g.disk \in Contents /\ b \in Nat
      /\ Len(g.pend) \in Nat /\ Len(g.pend) >= 1 /\ 1 \in 0..Len(g.pend)
  BY FileFields, EmptySeq
<1>2. h \in File
  BY <1>1, SpiltIs
<1>3. h.disk = Put(g.disk, b, p) /\ h.base = b + 1 /\ h.pend = r /\ h.cache = g.cache
  BY DEF Spilt, File
<1>4. p \in Seq(Cell) /\ Len(p) = 1 /\ p[1] = g.pend[1]
  BY <1>1, FirstOnes
<1>5. /\ r \in Seq(Cell) /\ Len(r) = Len(g.pend) - 1
      /\ \A i \in 1..(Len(g.pend) - 1) : r[i] = g.pend[i + 1]
  <2>1. \A i \in 2..Len(g.pend) : g.pend[i] \in Cell
    BY <1>1, ElementOfSeq
  <2>2. Len(g.pend) - 2 + 1 = Len(g.pend) - 1 /\ 2 \in 1..(Len(g.pend) + 1)
    BY <1>1
  <2>3. r \in Seq(Cell)
    BY <1>1, <2>1, SubSeqProperties
  <2>4. Len(r) = Len(g.pend) - 1 /\ \A i \in 1..(Len(g.pend) - 1) : r[i] = g.pend[2 + i - 1]
    BY <1>1, <2>2, SubSeqProperties
  <2>5. \A i \in 1..(Len(g.pend) - 1) : 2 + i - 1 = i + 1
    BY <1>1
  <2> QED
    BY <2>3, <2>4, <2>5
<1>6. /\ w \in Seq(Cell) /\ n \in Nat /\ n = Len(g.pend) + Len(g.cache) /\ n >= 1
      /\ w[1] = g.pend[1]
      /\ Len(v) = n - 1 /\ \A i \in 1..(n - 1) : v[i] = w[i + 1]
  <2> DEFINE a == Len(g.pend)
             c == Len(g.cache)
  <2>1. a \in Nat /\ c \in Nat /\ a >= 1 /\ n = a + c /\ w \in Seq(Cell)
    BY <1>1, WaitingIs, LenProperties
  <2>2. \A i \in 1..(a + c) : w[i] = IF i <= a THEN g.pend[i] ELSE g.cache[i - a]
    BY <1>1, ConcatProperties DEF Waiting
  <2>3. /\ Len(v) = (a - 1) + c
        /\ \A i \in 1..((a - 1) + c) :
             v[i] = IF i <= a - 1 THEN r[i] ELSE g.cache[i - (a - 1)]
    <3>1. v = r \o g.cache
      BY <1>3 DEF Waiting
    <3>2. /\ Len(r \o g.cache) = Len(r) + c
          /\ \A i \in 1..(Len(r) + c) :
               (r \o g.cache)[i] = IF i <= Len(r) THEN r[i] ELSE g.cache[i - Len(r)]
      BY <1>1, <1>5, ConcatProperties
    <3>3. Len(r) = a - 1
      BY <1>5
    <3> HIDE DEF a, c, r, v
    <3> QED
      BY <3>1, <3>2, <3>3
  <2>4. \A i \in 1..(a - 1) : r[i] = g.pend[i + 1]
    BY <1>5
  <2> HIDE DEF a, c, r, v, w, n
  <2>5. w[1] = g.pend[1] /\ n >= 1
    BY <2>1, <2>2
  <2>6. ASSUME NEW i \in 1..(n - 1) PROVE v[i] = w[i + 1]
    <3> DEFINE y == i + 1
    <3>1. y \in 1..(a + c) /\ i \in 1..((a - 1) + c) /\ (y <= a <=> i <= a - 1)
          /\ y - a = i - (a - 1) /\ (i <= a - 1 => i \in 1..(a - 1))
      BY <2>1
    <3>2. i <= a - 1 => r[i] = g.pend[y]
      BY <2>4, <3>1
    <3> HIDE DEF y
    <3>3. w[y] = IF y <= a THEN g.pend[y] ELSE g.cache[y - a]
      BY <2>2, <3>1
    <3>4. v[i] = IF i <= a - 1 THEN r[i] ELSE g.cache[i - (a - 1)]
      BY <2>3, <3>1
    <3> QED
      BY <3>1, <3>2, <3>3, <3>4 DEF y
  <2>7. Len(v) = n - 1
    BY <2>1, <2>3
  <2>8. n \in Nat
    BY <2>1
  <2> QED
    BY <2>1, <2>5, <2>6, <2>7, <2>8, Zenon DEF a, c
<1>7. ASSUME NEW k \in 0..Len(v) PROVE Future(h, k) \in Futures(g)
  <2> DEFINE m == k + 1
  <2>1. m \in 0..n /\ k \in Nat /\ m \in Nat /\ m = k + 1 /\ k <= n - 1
    <3>1. n \in Nat /\ n >= 1 /\ Len(v) = n - 1
      BY <1>6
    <3> HIDE DEF n, v
    <3>2. k \in 0..(n - 1)
      BY <1>7, <3>1
    <3> QED
      BY <3>1, <3>2
  <2>2. /\ Future(h, k) \in Contents
        /\ \A x \in Addr : Future(h, k)[x] =
             IF h.base <= x /\ x < h.base + k THEN v[x - h.base + 1] ELSE h.disk[x]
    BY <1>2, FutureAt
  <2>3. /\ Future(g, m) \in Contents
        /\ \A x \in Addr : Future(g, m)[x] =
             IF b <= x /\ x < b + m THEN w[x - b + 1] ELSE g.disk[x]
    BY <2>1, FutureAt
  <2>4. \A x \in Addr : h.disk[x] = IF b <= x /\ x < b + 1 THEN p[x - b + 1] ELSE g.disk[x]
    <3>1. h.disk = Put(g.disk, b, p) /\ Len(p) = 1
      BY <1>3, <1>4
    <3> HIDE DEF h, b, p
    <3>2. \A x \in Addr :
            Put(g.disk, b, p)[x] = IF b <= x /\ x < b + Len(p) THEN p[x - b + 1] ELSE g.disk[x]
      BY PutAt
    <3> QED
      BY <3>1, <3>2
  <2>5. ASSUME NEW x \in Addr PROVE Future(h, k)[x] = Future(g, m)[x]
    <3>1. x \in Nat
      BY FileAssumption
    <3>2. Future(h, k)[x] = IF b + 1 <= x /\ x < (b + 1) + k THEN v[x - (b + 1) + 1] ELSE h.disk[x]
      <4>1. Future(h, k)[x] =
              IF h.base <= x /\ x < h.base + k THEN v[x - h.base + 1] ELSE h.disk[x]
        BY <2>2
      <4>2. h.base = b + 1
        BY <1>3
      <4> HIDE DEF h, b, v
      <4> QED
        BY <4>1, <4>2
    <3>3. Future(g, m)[x] = IF b <= x /\ x < b + m THEN w[x - b + 1] ELSE g.disk[x]
      BY <2>3
    <3>4. h.disk[x] = IF b <= x /\ x < b + 1 THEN p[x - b + 1] ELSE g.disk[x]
      BY <2>4
    <3>0. b \in Nat /\ n \in Nat /\ n >= 1 /\ w[1] = p[1]
          /\ \A i \in 1..(n - 1) : v[i] = w[i + 1]
      BY <1>1, <1>4, <1>6
    <3> DEFINE fh == Future(h, k)
               fg == Future(g, m)
               hd == h.disk
               gd == g.disk
    <3> HIDE DEF b, n, w, v, p, m, fh, fg, hd, gd
    <3>5. CASE x < b
      BY <2>1, <3>0, <3>1, <3>2, <3>3, <3>4, <3>5
    <3>6. CASE x = b
      <4>1. x - b + 1 = 1
        BY <3>0, <3>1, <3>6
      <4> QED
        BY <2>1, <3>0, <3>1, <3>2, <3>3, <3>4, <3>6, <4>1
    <3>7. CASE b < x /\ x < b + m
      <4> DEFINE i == x - b
      <4>1. i \in 1..(n - 1) /\ x - (b + 1) + 1 = i /\ x - b + 1 = i + 1
        BY <2>1, <3>0, <3>1, <3>7
      <4>2. v[i] = w[i + 1]
        BY <3>0, <4>1
      <4> HIDE DEF i
      <4>3. b + 1 <= x /\ x < (b + 1) + k /\ b <= x
        BY <2>1, <3>0, <3>1, <3>7
      <4> QED
        BY <3>2, <3>3, <3>7, <4>1, <4>2, <4>3
    <3>8. CASE x >= b + m
      BY <2>1, <3>0, <3>1, <3>2, <3>3, <3>4, <3>8
    <3> QED
      BY <2>1, <3>0, <3>1, <3>5, <3>6, <3>7, <3>8
  <2>6. Future(h, k) = Future(g, m)
    BY <2>2, <2>3, <2>5, SameContents
  <2> QED
    BY <2>1, <2>6 DEF Futures
<1> QED
  BY <1>7 DEF Futures

\* h is g, but for its tell and for what of it is still in the cache; the same
\* with s waiting behind all else.
Like(h, g) ==
  /\ g \in File /\ h \in File /\ h.disk = g.disk /\ h.base = g.base /\ Waiting(h) = Waiting(g)

Behind(h, g, s) ==
  /\ g \in File /\ h \in File /\ h.disk = g.disk /\ h.base = g.base
  /\ Waiting(h) = Waiting(g) \o s

\* What comes of g with a first part of s written behind everything.
Newer(g, s) == {Put(View(g), ftell(g) + Len(g.cache), SubSeq(s, 1, j)) : j \in 1..Len(s)}

\* Cells that come to wait behind those there make more contents to come, and
\* only such that have everything else.
LEMMA BehindFutures ==
  ASSUME NEW g, NEW h, NEW s \in Seq(Cell), Behind(h, g, s)
  PROVE  Futures(h) \subseteq Futures(g) \cup Newer(g, s)
<1> DEFINE w == Waiting(g)
           v == Waiting(h)
           n == Len(w)
           m == Len(s)
           b == g.base
           y == ftell(g) + Len(g.cache)
<1>1. /\ g \in File /\ h \in File /\ w \in Seq(Cell) /\ n \in Nat /\ m \in Nat /\ b \in Nat
      /\ View(g) = Put(g.disk, b, w) /\ g.disk \in Contents /\ h.disk = g.disk /\ h.base = b
      /\ v = w \o s
  BY WaitingIs, FileFields, LenProperties DEF Behind
<1>2. y = b + n
  <2> DEFINE p == Len(g.pend)
             c == Len(g.cache)
  <2>1. p \in Nat /\ c \in Nat /\ n = p + c /\ y = (b + p) + c
    BY <1>1, WaitingIs, FileFields DEF ftell
  <2> HIDE DEF p, c, n, b, y
  <2> QED
    BY <1>1, <2>1
<1>3. Len(v) = n + m /\ \A i \in 1..(n + m) : v[i] = IF i <= n THEN w[i] ELSE s[i - n]
  BY <1>1, ConcatProperties
<1>4. ASSUME NEW k \in 0..(n + m)
      PROVE  \/ Future(h, k) \in Futures(g)
             \/ \E j \in 1..m : Future(h, k) = Put(View(g), y, SubSeq(s, 1, j))
  <2>0. k \in Nat /\ k \in 0..Len(v)
    <3> HIDE DEF n, m, v
    <3> QED
      BY <1>1, <1>3, <1>4
  <2>1. /\ Future(h, k) \in Contents
        /\ \A x \in Addr : Future(h, k)[x] =
             IF b <= x /\ x < b + k THEN v[x - b + 1] ELSE g.disk[x]
    <3>1. /\ Future(h, k) \in Contents
          /\ \A x \in Addr : Future(h, k)[x] =
               IF h.base <= x /\ x < h.base + k THEN v[x - h.base + 1] ELSE h.disk[x]
      BY <1>1, <2>0, FutureAt
    <3> HIDE DEF v, b
    <3> QED
      BY <1>1, <3>1
  <2>2. CASE k <= n
    <3>1. k \in 0..n
      <4> HIDE DEF n
      <4> QED
        BY <1>1, <2>0, <2>2
    <3>2. /\ Future(g, k) \in Contents
          /\ \A x \in Addr : Future(g, k)[x] =
               IF b <= x /\ x < b + k THEN w[x - b + 1] ELSE g.disk[x]
      BY <1>1, <3>1, FutureAt
    <3>3. ASSUME NEW x \in Addr PROVE Future(h, k)[x] = Future(g, k)[x]
      <4> DEFINE fh == Future(h, k)[x]
                 fg == Future(g, k)[x]
                 dx == g.disk[x]
      <4>1. /\ x \in Nat
            /\ fh = IF b <= x /\ x < b + k THEN v[x - b + 1] ELSE dx
            /\ fg = IF b <= x /\ x < b + k THEN w[x - b + 1] ELSE dx
        BY <2>1, <3>2, FileAssumption
      <4> HIDE DEF fh, fg, dx, v, w, n, m, b
      <4>2. ASSUME b <= x, x < b + k PROVE v[x - b + 1] = w[x - b + 1]
        <5> DEFINE i == x - b + 1
        <5>1. i \in 1..(n + m) /\ i <= n
          BY <1>1, <2>0, <2>2, <4>1, <4>2
        <5> HIDE DEF i
        <5>2. v[i] = w[i]
          BY <1>3, <5>1
        <5> QED
          BY <5>2 DEF i
      <4>3. fh = fg
        BY <4>1, <4>2
      <4> QED
        BY <4>3 DEF fh, fg
    <3>4. Future(h, k) = Future(g, k)
      BY <2>1, <3>2, <3>3, SameContents
    <3> QED
      BY <3>1, <3>4 DEF Futures
  <2>3. CASE ~(k <= n)
    <3> DEFINE j == k - n
               u == SubSeq(s, 1, j)
               V == Put(View(g), y, u)
    <3>1. j \in 1..m /\ j \in 0..m /\ k = n + j /\ j \in Nat
      <4> HIDE DEF n, m
      <4> QED
        BY <1>1, <1>4, <2>0, <2>3
    <3>2. u \in Seq(Cell) /\ Len(u) = j /\ \A i \in 1..j : u[i] = s[i]
      <4> HIDE DEF j
      <4> QED
        BY <3>1, FirstOnes
    <3> HIDE DEF u, j
    <3>3. V \in Contents
      <4>1. y \in Nat /\ View(g) \in Contents
        BY <1>1, FileFields
      <4> QED
        BY <3>2, <4>1, PutType
    <3>4. ASSUME NEW x \in Addr PROVE Future(h, k)[x] = V[x]
      <4> DEFINE fh == Future(h, k)[x]
                 vg == View(g)
                 vx == vg[x]
                 dx == g.disk[x]
                 ux == V[x]
                 D == g.disk
      <4>1. ux = IF y <= x /\ x < y + Len(u) THEN u[x - y + 1] ELSE vx
        <5>1. ux = Put(vg, y, u)[x]
          OBVIOUS
        <5> HIDE DEF vg, y, V, ux
        <5>2. Put(vg, y, u)[x] = IF y <= x /\ x < y + Len(u) THEN u[x - y + 1] ELSE vg[x]
          BY PutAt
        <5> QED
          BY <5>1, <5>2
      <4>2. vx = IF b <= x /\ x < b + n THEN w[x - b + 1] ELSE dx
        <5>1. vg = Put(D, b, w)
          BY <1>1
        <5> HIDE DEF vg, b, w, D
        <5>2. vx = IF b <= x /\ x < b + Len(w) THEN w[x - b + 1] ELSE D[x]
          BY <5>1, PutAt
        <5> QED
          BY <5>2 DEF D
      <4>3. /\ x \in Nat
            /\ fh = IF b <= x /\ x < b + k THEN v[x - b + 1] ELSE dx
        BY <2>1, FileAssumption
      <4> HIDE DEF fh, vx, dx, ux, v, w, n, m, b, y
      <4>4. CASE b <= x /\ x < b + n
        <5> DEFINE i == x - b + 1
        <5>1. i \in 1..(n + m) /\ i <= n /\ x < b + k /\ ~(y <= x)
          BY <1>1, <1>2, <3>1, <4>3, <4>4
        <5> HIDE DEF i
        <5>2. v[i] = w[i]
          BY <1>3, <5>1
        <5>3. fh = ux
          BY <4>1, <4>2, <4>3, <4>4, <5>1, <5>2 DEF i
        <5> QED
          BY <5>3 DEF fh, ux
      <4>5. CASE b + n <= x /\ x < b + n + j
        <5> DEFINE i == x - b + 1
                   l == x - y + 1
        <5>1. /\ i \in 1..(n + m) /\ ~(i <= n) /\ i - n = l /\ l \in 1..j
              /\ b <= x /\ x < b + k /\ ~(x < b + n) /\ y <= x /\ x < y + j
          BY <1>1, <1>2, <3>1, <4>3, <4>5
        <5> HIDE DEF i, l
        <5>2. v[i] = s[l] /\ u[l] = s[l]
          BY <1>3, <3>2, <5>1
        <5>3. fh = v[i] /\ ux = u[l]
          BY <3>2, <4>1, <4>3, <5>1 DEF i, l
        <5>4. fh = ux
          BY <5>2, <5>3
        <5> QED
          BY <5>4 DEF fh, ux
      <4>6. CASE x < b \/ x >= b + n + j
        <5>1. /\ ~(b <= x /\ x < b + k) /\ ~(y <= x /\ x < y + j) /\ ~(b <= x /\ x < b + n)
          BY <1>1, <1>2, <3>1, <4>3, <4>6
        <5>2. fh = dx /\ vx = dx /\ ux = vx
          BY <3>2, <4>1, <4>2, <4>3, <5>1
        <5> QED
          BY <5>2 DEF fh, ux
      <4>7. x < b \/ x >= b + n + j \/ (b <= x /\ x < b + n) \/ (b + n <= x /\ x < b + n + j)
        BY <1>1, <3>1, <4>3
      <4> QED
        BY <4>4, <4>5, <4>6, <4>7
    <3>5. Future(h, k) = V
      <4> HIDE DEF V
      <4> QED
        BY <2>1, <3>3, <3>4, SameContents
    <3> QED
      BY <3>1, <3>5 DEF u
  <2> QED
    BY <2>2, <2>3
<1>5. \A d \in Futures(h) : \E k \in 0..(n + m) : d = Future(h, k)
  <2>1. Len(Waiting(h)) = n + m
    BY <1>3
  <2> QED
    BY <2>1 DEF Futures
<1>6. \A d \in Futures(h) :
        \/ d \in Futures(g)
        \/ \E j \in 1..m : d = Put(View(g), y, SubSeq(s, 1, j))
  BY <1>4, <1>5
<1> QED
  BY <1>6 DEF Newer

\* The layers of the file are passed through in order.
LEMMA FlushedLike ==
  ASSUME NEW g \in File
  PROVE  Like(Flushed(g), g)
<1>1. Flushed(g) \in File /\ Flushed(g).cache = <<>>
  BY FlushedIs
<1>2. /\ Flushed(g).disk = g.disk /\ Flushed(g).base = g.base
      /\ Flushed(g).pend = g.pend \o g.cache
  BY DEF Flushed, safe_write, File
<1>3. Waiting(Flushed(g)) = (g.pend \o g.cache) \o <<>>
  BY <1>1, <1>2 DEF Waiting
<1>4. g.pend \o g.cache \in Seq(Cell)
  BY FileFields, ConcatProperties
<1>5. (g.pend \o g.cache) \o <<>> = g.pend \o g.cache
  BY <1>4, ConcatEmptySeq
<1> QED
  BY <1>1, <1>2, <1>3, <1>5 DEF Like, Waiting

\* Another tell changes nothing of them.
LEMMA TellLike ==
  ASSUME NEW g \in File, NEW x \in Nat, NEW h, h = [g EXCEPT !.tell = x]
  PROVE  Like(h, g)
<1>1. h = [disk |-> g.disk, base |-> g.base, pend |-> g.pend, cache |-> g.cache, tell |-> x]
  BY NewTell
<1> QED
  BY <1>1, TellIs DEF Like, Waiting

\* What is written into the cache waits behind all else.
LEMMA CachedBehind ==
  ASSUME NEW g \in File, NEW s \in Seq(Cell)
  PROVE  Behind(Cached(g, s), g, s)
<1>1. Cached(g, s) = [disk |-> g.disk, base |-> g.base, pend |-> g.pend,
                      cache |-> g.cache \o s, tell |-> g.tell]
  BY NewCache DEF Cached
<1>2. Cached(g, s) \in File
  BY CachedIs
<1>3. /\ Cached(g, s).disk = g.disk /\ Cached(g, s).base = g.base
      /\ Cached(g, s).pend = g.pend /\ Cached(g, s).cache = g.cache \o s
  <2> DEFINE e == g.cache \o s
  <2>1. Cached(g, s) = [disk |-> g.disk, base |-> g.base, pend |-> g.pend,
                        cache |-> e, tell |-> g.tell]
    BY <1>1
  <2> HIDE DEF e
  <2>2. Cached(g, s).cache = e
    BY <2>1
  <2> QED
    BY <2>1, <2>2 DEF e
<1>4. g.pend \o (g.cache \o s) = (g.pend \o g.cache) \o s
  <2>1. g.pend \in Seq(Cell) /\ g.cache \in Seq(Cell)
    BY FileFields
  <2>2. \A a, b, c \in Seq(Cell) : (a \o b) \o c = a \o (b \o c)
    BY ConcatAssociative
  <2> QED
    BY <2>1, <2>2
<1>5. Waiting(Cached(g, s)) = Waiting(g) \o s
  BY <1>3, <1>4, Zenon DEF Waiting
<1> QED
  BY <1>2, <1>3, <1>5, Zenon DEF Behind

\* So does what is written past an empty cache.
LEMMA PastBehind ==
  ASSUME NEW g \in File, NEW s \in Seq(Cell), g.cache = <<>>
  PROVE  Behind(safe_write(g, s), g, s)
<1>1. safe_write(g, s) = [disk |-> g.disk, base |-> g.base, pend |-> g.pend \o s,
                          cache |-> <<>>, tell |-> g.tell]
  BY NewPend DEF safe_write
<1>2. safe_write(g, s) \in File
  BY WrittenPast
<1>7. /\ safe_write(g, s).disk = g.disk /\ safe_write(g, s).base = g.base
      /\ safe_write(g, s).pend = g.pend \o s /\ safe_write(g, s).cache = <<>>
  <2> DEFINE e == g.pend \o s
  <2>1. safe_write(g, s) = [disk |-> g.disk, base |-> g.base, pend |-> e,
                            cache |-> <<>>, tell |-> g.tell]
    BY <1>1
  <2> HIDE DEF e
  <2>2. safe_write(g, s).pend = e
    BY <2>1
  <2> QED
    BY <2>1, <2>2 DEF e
<1>3. Waiting(safe_write(g, s)) = (g.pend \o s) \o <<>>
  BY <1>7, Zenon DEF Waiting
<1>4. g.pend \o s \in Seq(Cell) /\ g.pend \in Seq(Cell)
  BY FileFields, ConcatProperties
<1>5. (g.pend \o s) \o <<>> = g.pend \o s /\ g.pend \o <<>> = g.pend
  BY <1>4, ConcatEmptySeq
<1>6. Waiting(g) = g.pend
  BY <1>5 DEF Waiting
<1> QED
  BY <1>2, <1>3, <1>5, <1>6, <1>7, Zenon DEF Behind

\* A write into the cache lets its cells wait behind all else.
LEMMA WriteBehind ==
  ASSUME NEW g \in File, NEW s \in Seq(Cell)
  PROVE  Behind(mov_file_cache_write(g, s), g, s)
<1> DEFINE k == [g EXCEPT !.tell = g.tell + Len(s)]
           l == Flushed(k)
<1>1. g.tell + Len(s) \in Nat
  BY FileFields, LenProperties
<1>2. k \in File /\ Like(k, g)
  BY <1>1, TellIs, TellLike
<1>3. l \in File /\ Like(l, k) /\ l.cache = <<>>
  <2> HIDE DEF k
  <2> QED
    BY <1>2, FlushedIs, FlushedLike
<1>4. \/ mov_file_cache_write(g, s) = Cached(k, s)
      \/ mov_file_cache_write(g, s) = Cached(l, s)
      \/ mov_file_cache_write(g, s) = safe_write(l, s)
  BY DEF mov_file_cache_write
<1> HIDE DEF k, l
<1>5. Like(l, g)
  BY <1>2, <1>3 DEF Like
<1>6. /\ Behind(Cached(k, s), k, s) /\ Behind(Cached(l, s), l, s)
      /\ Behind(safe_write(l, s), l, s)
  BY <1>2, <1>3, CachedBehind, PastBehind
<1> QED
  BY <1>2, <1>4, <1>5, <1>6 DEF Like, Behind

\* So does a frame, if it is not refused.
LEMMA FrameBehind ==
  ASSUME NEW g \in File, CacheFits(g), NEW s \in Seq(Cell)
  PROVE  IF Refused(g, s) THEN Like(write_data(g, s), g) ELSE Behind(write_data(g, s), g, s)
<1> DEFINE full == Len(g.cache) + Len(s) > CacheSize
           l == IF full THEN Flushed(g) ELSE g
           r == Refused(g, s)
           k == CASE r -> g [] ~r /\ Len(l.cache) + Len(s) <= CacheSize -> Cached(l, s)
                  [] OTHER -> safe_write(l, s)
           z == ftell(k) + Len(k.cache)
<1>1. write_data(g, s) = [k EXCEPT !.tell = z]
  BY DEF write_data
<1>2. l \in File /\ Like(l, g) /\ (full => l.cache = <<>>) /\ (~full => l = g)
  <2>1. CASE full
    BY <2>1, FlushedIs, FlushedLike
  <2>2. CASE ~full
    BY <2>2 DEF Like
  <2> QED
    BY <2>1, <2>2
<1>3. CASE r
  <2>1. k = g
    BY <1>3
  <2>2. z \in Nat
    BY <2>1, FileFields
  <2> HIDE DEF k, z
  <2>3. Like(write_data(g, s), g)
    BY <1>1, <2>1, <2>2, TellLike
  <2> QED
    BY <1>3, <2>3
<1>4. CASE ~r
  <2>1. k = Cached(l, s) \/ (k = safe_write(l, s) /\ l.cache = <<>>)
    <3>1. CASE Len(l.cache) + Len(s) <= CacheSize
      BY <1>4, <3>1
    <3>2. CASE ~(Len(l.cache) + Len(s) <= CacheSize)
      <4>1. k = safe_write(l, s)
        BY <1>4, <3>2
      <4>2. full
        <5> SUFFICES ASSUME ~full PROVE FALSE
          OBVIOUS
        <5>1. l = g
          BY <1>2
        <5>2. ~(Len(g.cache) + Len(s) <= CacheSize)
          BY <3>2, <5>1
        <5>3. Len(g.cache) \in Nat /\ Len(s) \in Nat /\ CacheSize \in Nat
          BY FileFields, LenProperties, FileAssumption
        <5> HIDE DEF l, k, z
        <5> QED
          BY <5>2, <5>3
      <4> QED
        BY <1>2, <4>1, <4>2
    <3> QED
      BY <3>1, <3>2
  <2> HIDE DEF l, k
  <2>2. Behind(k, l, s)
    BY <1>2, <2>1, CachedBehind, PastBehind
  <2>3. k \in File /\ Behind(k, g, s)
    BY <1>2, <2>2 DEF Behind, Like
  <2>4. z \in Nat
    <3>1. ftell(k) \in Nat /\ Len(k.cache) \in Nat
      BY <2>3, FileFields
    <3> QED
      BY <3>1
  <2> HIDE DEF z
  <2>5. Like(write_data(g, s), k)
    BY <1>1, <2>3, <2>4, TellLike
  <2>6. Behind(write_data(g, s), g, s)
    BY <2>3, <2>5 DEF Behind, Like
  <2> QED
    BY <1>4, <2>6
<1> QED
  BY <1>3, <1>4

\* What is like another file has the same to come.
LEMMA LikeFutures ==
  ASSUME NEW g, NEW h, Like(h, g)
  PROVE  Futures(h) = Futures(g)
  BY DEF Like, Futures, Future

\* A seek to another place leaves nothing waiting.
LEMMA SeekFutures ==
  ASSUME NEW g, GoodFile(g), NEW x \in Nat, NEW h, h = mov_file_cache_seek(g, x)
  PROVE  /\ Futures(h) \subseteq Futures(g)
         /\ x # g.tell => \A d \in Futures(h) : d = View(h)
<1>1. CASE x = g.tell
  <2>1. h = g
    BY <1>1 DEF mov_file_cache_seek
  <2> QED
    BY <1>1, <2>1
<1>2. CASE x # g.tell
  <2>1. /\ GoodFile(h) /\ View(h) = View(g) /\ h.cache = <<>>
    BY <1>2, SeekKeeps
  <2>2. h \in File /\ g \in File
    BY <2>1 DEF GoodFile
  <2>3. h.pend = <<>>
    <3> DEFINE l == Flushed(g)
               m == Spilt(l, Len(l.pend))
    <3>1. h = [[m EXCEPT !.base = x] EXCEPT !.tell = x]
      BY <1>2 DEF mov_file_cache_seek, fseek
    <3>2. l \in File
      BY <2>2, FlushedIs
    <3> HIDE DEF l
    <3>3. l.pend \in Seq(Cell) /\ Len(l.pend) \in 0..Len(l.pend) /\ Len(l.pend) \in Nat
      BY <3>2, FileFields
    <3>4. SubSeq(l.pend, Len(l.pend) + 1, Len(l.pend)) = <<>>
      BY <3>3, SubSeqEmpty
    <3>5. m \in File
      BY <3>2, <3>3, SpiltIs
    <3>6. m.pend = SubSeq(l.pend, Len(l.pend) + 1, Len(l.pend))
      BY <3>2 DEF Spilt, File
    <3> HIDE DEF m
    <3>7. h.pend = m.pend
      BY <3>1, <3>5 DEF File
    <3> QED
      BY <3>4, <3>6, <3>7
  <2>4. \A d \in Futures(h) : d = View(h)
    BY <2>1, <2>2, <2>3, NothingWaits
  <2>5. View(g) \in Futures(g)
    BY <2>2, FuturesHave
  <2> QED
    BY <2>1, <2>4, <2>5
<1> QED
  BY <1>1, <1>2

\* Nor does fclose, when the cache is empty.
LEMMA CloseFutures ==
  ASSUME NEW g \in File, g.cache = <<>>, NEW x \in Nat, NEW h, h = fseek(g, x)
  PROVE  \A d \in Futures(h) : d = View(h)
<1>1. h \in File /\ h.cache = <<>>
  BY fseekIs
<1>2. h.pend = <<>>
  <2> DEFINE m == Spilt(g, Len(g.pend))
  <2>1. h = [m EXCEPT !.base = x]
    BY DEF fseek
  <2>2. g.pend \in Seq(Cell) /\ Len(g.pend) \in 0..Len(g.pend) /\ Len(g.pend) \in Nat
    BY FileFields
  <2>3. SubSeq(g.pend, Len(g.pend) + 1, Len(g.pend)) = <<>>
    BY <2>2, SubSeqEmpty
  <2>4. m \in File
    BY <2>2, SpiltIs
  <2>5. m.pend = SubSeq(g.pend, Len(g.pend) + 1, Len(g.pend))
    BY DEF Spilt, File
  <2> HIDE DEF m
  <2>6. h.pend = m.pend
    BY <2>1, <2>4 DEF File
  <2> QED
    BY <2>3, <2>5, <2>6
<1> QED
  BY <1>1, <1>2, NothingWaits

Orders == {<<>>, <<Video>>, <<Audio>>, <<Video, Audio>>, <<Audio, Video>>}

-----------------------------------------------------------------------------
(* The calls that rewrite the index.                                       *)

\* Every cell the index is written with is a cell.
LEMMA CellTypes ==
  /\ \A n \in Nat : /\ Moov(n) \in Cell /\ Stsz(n) \in Cell /\ Stco(n) \in Cell
                    /\ Mdat(n) \in Cell
                    /\ \A t \in Nat : Trak(t, n) \in Cell /\ Data(t, n) \in Cell
  /\ \A e \in Entry : Size(e) \in Cell /\ Place(e) \in Cell
  /\ Skip \in Cell /\ Zeros \in Cell
  BY DEF Moov, Stsz, Stco, Mdat, Trak, Data, Size, Place, Skip, Zeros, Cell, Entry

\* Every call of a rewriting is one.
LEMMA StepTypes ==
  /\ \A c \in Cell : Wr(c) \in Step
  /\ \A x \in Nat : Sk(x) \in Step
  BY CellTypes DEF Wr, Sk, Step

\* Short sequences of calls.
LEMMA ThreeCalls ==
  ASSUME NEW a \in Step, NEW b \in Step, NEW c \in Step
  PROVE  /\ <<a>> \in Seq(Step) /\ Len(<<a>>) = 1 /\ <<a>>[1] = a
         /\ <<a, b>> \in Seq(Step)
         /\ <<a, b, c>> \in Seq(Step) /\ Len(<<a, b, c>>) = 3
         /\ <<a, b, c>>[1] = a /\ <<a, b, c>>[2] = b /\ <<a, b, c>>[3] = c
  OBVIOUS

\* q is s and then t; q has u behind its first b elements.
Cat(q, s, t) == q = s \o t
Block(q, b, u) == \A j \in 1..Len(u) : q[b + j] = u[j]

\* Two sequences of calls, one after the other.
LEMMA CatIs ==
  ASSUME NEW s \in Seq(Step), NEW t \in Seq(Step), NEW q, Cat(q, s, t)
  PROVE  /\ q \in Seq(Step) /\ Len(q) = Len(s) + Len(t)
         /\ Block(q, 0, s) /\ Block(q, Len(s), t)
<1> DEFINE m == Len(s)
           n == Len(t)
<1>0. m \in Nat /\ n \in Nat
  BY LenProperties
<1>1. /\ q \in Seq(Step) /\ Len(q) = m + n
      /\ \A i \in 1..(m + n) : q[i] = IF i <= m THEN s[i] ELSE t[i - m]
  BY ConcatProperties DEF Cat
<1> HIDE DEF m, n
<1>2. ASSUME NEW i \in 1..m PROVE q[0 + i] = s[i]
  <2>1. i \in 1..(m + n) /\ i <= m /\ 0 + i = i
    BY <1>0
  <2> QED
    BY <1>1, <2>1
<1>3. ASSUME NEW i \in 1..n PROVE q[m + i] = t[i]
  <2> DEFINE z == m + i
  <2>1. z \in 1..(m + n) /\ ~(z <= m) /\ z - m = i
    BY <1>0
  <2> HIDE DEF z
  <2>2. q[z] = t[z - m]
    BY <1>1, <2>1
  <2> QED
    BY <2>1, <2>2 DEF z
<1> QED
  BY <1>1, <1>2, <1>3 DEF Block, m, n

\* A block of the first is a block of both.
LEMMA BlockLeft ==
  ASSUME NEW s \in Seq(Step), NEW t \in Seq(Step),
         NEW q, Cat(q, s, t),
         NEW u, Len(u) \in Nat, NEW b \in Nat, b + Len(u) <= Len(s), Block(s, b, u)
  PROVE  Block(q, b, u)
<1>1. Block(q, 0, s)
  BY CatIs
<1> DEFINE m == Len(s)
           k == Len(u)
<1>0. m \in Nat /\ k \in Nat /\ b + k <= m
  BY LenProperties
<1> HIDE DEF m, k
<1>2. ASSUME NEW j \in 1..k PROVE q[b + j] = u[j]
  <2> DEFINE z == b + j
  <2>1. z \in 1..m /\ 0 + z = z
    BY <1>0
  <2>2. s[z] = u[j]
    BY DEF Block, k
  <2> HIDE DEF z
  <2>3. q[0 + z] = s[z]
    BY <1>1, <2>1 DEF Block, m
  <2> QED
    BY <2>1, <2>2, <2>3 DEF z
<1> QED
  BY <1>2 DEF Block, k

\* A block of the second is one of both, further on.
LEMMA BlockRight ==
  ASSUME NEW s \in Seq(Step), NEW t \in Seq(Step),
         NEW q, Cat(q, s, t),
         NEW u, Len(u) \in Nat, NEW b \in Nat, b + Len(u) <= Len(t), Block(t, b, u)
  PROVE  Block(q, Len(s) + b, u)
<1>1. Block(q, Len(s), t)
  BY CatIs
<1> DEFINE m == Len(s)
           n == Len(t)
           k == Len(u)
           x == m + b
<1>0. m \in Nat /\ n \in Nat /\ k \in Nat /\ b + k <= n /\ x = m + b
  BY LenProperties
<1> HIDE DEF m, n, k, x
<1>2. ASSUME NEW j \in 1..k PROVE q[x + j] = u[j]
  <2> DEFINE z == b + j
  <2>1. z \in 1..n /\ x + j = m + z
    BY <1>0
  <2>2. t[z] = u[j]
    BY DEF Block, k
  <2> HIDE DEF z
  <2>3. q[m + z] = t[z]
    BY <1>1, <2>1 DEF Block, m, n
  <2> QED
    BY <2>1, <2>2, <2>3
<1> QED
  BY <1>2 DEF Block, k, x, m

\* The cell j of a track is a cell.
LEMMA TrakCellType ==
  ASSUME NEW t \in Nat, NEW es \in Seq(Entry), NEW size \in Nat,
         NEW j \in 1..TrakCells(Len(es))
  PROVE  TrakCell(t, es, size, j) \in Cell
<1> DEFINE n == Len(es)
<1>1. n \in Nat /\ j \in 1..(3 + 2 * n)
  BY LenProperties DEF TrakCells
<1>2. Trak(t, size) \in Cell /\ Stsz(n) \in Cell /\ Stco(n) \in Cell
  BY <1>1, CellTypes
<1>3. \A i \in 1..n : Size(es[i]) \in Cell /\ Place(es[i]) \in Cell
  BY ElementOfSeq, CellTypes
<1> HIDE DEF n
<1>4. j \in 3..(2 + n) => j - 2 \in 1..n
  BY <1>1
<1>5. j \notin {1, 2} /\ j \notin 3..(2 + n) /\ j # 3 + n => j - 3 - n \in 1..n
  BY <1>1
<1> QED
  BY <1>2, <1>3, <1>4, <1>5 DEF TrakCell, n

\* The calls that write the boxes of a track.
LEMMA TrakCallsAre ==
  ASSUME NEW t \in Nat, NEW x \in Nat, NEW es \in Seq(Entry)
  PROVE  LET q == mov_write_trak(t, x, es)
             r == TrakCells(Len(es))
         IN /\ r \in Nat /\ r >= 3
            /\ q \in Seq(Step) /\ Len(q) = r + 3
            /\ \A j \in 1..r : q[j] = Wr(TrakCell(t, es, 0, j))
            /\ q[r + 1] = Sk(x) /\ q[r + 2] = Wr(Trak(t, r)) /\ q[r + 3] = Sk(x + r)
<1> DEFINE q == mov_write_trak(t, x, es)
           r == TrakCells(Len(es))
           cells == [j \in 1..r |-> Wr(TrakCell(t, es, 0, j))]
           size == <<Sk(x), Wr(Trak(t, r)), Sk(x + r)>>
<1>1. r \in Nat /\ r >= 3
  <2> DEFINE n == Len(es)
  <2>1. n \in Nat /\ r = 3 + 2 * n
    BY LenProperties DEF TrakCells
  <2> HIDE DEF n, r
  <2> QED
    BY <2>1
<1>2. q = cells \o size
  BY DEF mov_write_trak, mov_write_size
<1>3. cells \in Seq(Step) /\ Len(cells) = r
  <2>1. \A j \in 1..r : Wr(TrakCell(t, es, 0, j)) \in Step
    BY TrakCellType, StepTypes
  <2> HIDE DEF r
  <2> QED
    BY <1>1, <2>1
<1>4. size \in Seq(Step) /\ Len(size) = 3 /\ size[1] = Sk(x) /\ size[2] = Wr(Trak(t, r))
      /\ size[3] = Sk(x + r)
  <2> HIDE DEF r
  <2>1. Sk(x) \in Step /\ Wr(Trak(t, r)) \in Step /\ Sk(x + r) \in Step
    BY <1>1, CellTypes, StepTypes
  <2> QED
    BY <2>1, ThreeCalls
<1>5. \A j \in 1..r : cells[j] = Wr(TrakCell(t, es, 0, j))
  OBVIOUS
<1> HIDE DEF q, r, cells, size
<1>6. q \in Seq(Step) /\ Len(q) = r + 3 /\ Block(q, 0, cells) /\ Block(q, r, size)
  <2>1. Cat(q, cells, size)
    BY <1>2 DEF Cat
  <2>2. cells \in Seq(Step) /\ size \in Seq(Step) /\ r \in Nat /\ Len(cells) = r /\ Len(size) = 3
    BY <1>1, <1>3, <1>4
  <2> QED
    BY <2>1, <2>2, CatIs
<1>7. \A j \in 1..r : q[j] = cells[j]
  <2>1. \A j \in 1..r : q[0 + j] = cells[j] /\ 0 + j = j
    BY <1>3, <1>6 DEF Block
  <2> QED
    BY <2>1
<1>8. q[r + 1] = size[1] /\ q[r + 2] = size[2] /\ q[r + 3] = size[3]
  <2>1. 1 \in 1..3 /\ 2 \in 1..3 /\ 3 \in 1..3
    OBVIOUS
  <2> QED
    BY <1>4, <1>6, <2>1 DEF Block
<1> QED
  BY <1>1, <1>4, <1>5, <1>6, <1>7, <1>8 DEF q, r

\* A track takes three cells, and two for each sample.
LEMMA RoomBound ==
  ASSUME NEW ord \in Orders, NEW tb \in [Tracks -> Seq(Entry)],
         Len(tb[Video]) + Len(tb[Audio]) <= MaxSamples
  PROVE  /\ Room(ord, tb, 1) \in Nat /\ Room(ord, tb, 2) \in Nat
         /\ Room(ord, tb, 1) + Room(ord, tb, 2) <= 6 + 2 * MaxSamples
<1> DEFINE v == Len(tb[Video])
           a == Len(tb[Audio])
           R1 == Room(ord, tb, 1)
           R2 == Room(ord, tb, 2)
<1>1. v \in Nat /\ a \in Nat /\ v + a <= MaxSamples /\ MaxSamples \in Nat
  BY LenProperties, IndexAssumption DEF Tracks
<1>2. /\ Room(ord, tb, 1) = IF Present(ord, tb, 1) THEN 3 + 2 * Len(tb[ord[1]]) ELSE 0
      /\ Room(ord, tb, 2) = IF Present(ord, tb, 2) THEN 3 + 2 * Len(tb[ord[2]]) ELSE 0
  BY DEF Room, TrakCells
<1>3. CASE ord \in {<<>>, <<Video>>, <<Audio>>}
  <2>1. ~Present(ord, tb, 2)
    BY <1>3 DEF Present
  <2>2. Present(ord, tb, 1) => ord[1] = Video \/ ord[1] = Audio
    BY <1>3 DEF Present
  <2>3. R2 = 0 /\ R1 \in {0, 3 + 2 * v, 3 + 2 * a}
    BY <1>2, <2>1, <2>2
  <2> HIDE DEF v, a, R1, R2
  <2>4. R1 \in Nat /\ R2 \in Nat /\ R1 + R2 <= 6 + 2 * MaxSamples
    BY <1>1, <2>3
  <2> QED
    BY <2>4 DEF R1, R2
<1>4. CASE ord = <<Video, Audio>> \/ ord = <<Audio, Video>>
  <2>1. \/ ord[1] = Video /\ ord[2] = Audio
        \/ ord[1] = Audio /\ ord[2] = Video
    BY <1>4
  <2>2. \/ R1 \in {0, 3 + 2 * v} /\ R2 \in {0, 3 + 2 * a}
        \/ R1 \in {0, 3 + 2 * a} /\ R2 \in {0, 3 + 2 * v}
    <3>1. R1 \in {0, 3 + 2 * Len(tb[ord[1]])} /\ R2 \in {0, 3 + 2 * Len(tb[ord[2]])}
      BY <1>2
    <3>2. \/ Len(tb[ord[1]]) = v /\ Len(tb[ord[2]]) = a
          \/ Len(tb[ord[1]]) = a /\ Len(tb[ord[2]]) = v
      BY <2>1, Zenon
    <3> HIDE DEF v, a, R1, R2
    <3> QED
      BY <3>1, <3>2
  <2> HIDE DEF v, a, R1, R2
  <2>3. R1 \in Nat /\ R2 \in Nat /\ R1 + R2 <= 6 + 2 * MaxSamples
    BY <1>1, <2>2
  <2> QED
    BY <2>3 DEF R1, R2
<1> QED
  BY <1>3, <1>4 DEF Orders

\* The calls that write the i-th track, if there is one.
LEMMA TrakOfCalls ==
  ASSUME NEW ord \in Orders, NEW tb \in [Tracks -> Seq(Entry)], NEW i \in {1, 2}, NEW x \in Nat
  PROVE  LET T == TrakOf(ord, tb, i, x)
             r == Room(ord, tb, i)
         IN /\ r \in Nat
            /\ T \in Seq(Step) /\ Len(T) = Calls(r)
            /\ r > 0 => /\ ord[i] \in Tracks /\ r = TrakCells(Len(tb[ord[i]]))
                        /\ \A j \in 1..r : T[j] = Wr(TrakCell(ord[i], tb[ord[i]], 0, j))
                        /\ T[r + 1] = Sk(x) /\ T[r + 2] = Wr(Trak(ord[i], r))
                        /\ T[r + 3] = Sk(x + r)
<1>1. CASE Present(ord, tb, i)
  <2>1. ord[i] \in Tracks
    BY <1>1 DEF Present, Orders, Tracks
  <2>2. ord[i] \in Nat /\ tb[ord[i]] \in Seq(Entry)
    BY <2>1 DEF Tracks, Video, Audio
  <2>3. TrakOf(ord, tb, i, x) = mov_write_trak(ord[i], x, tb[ord[i]])
    BY <1>1 DEF TrakOf
  <2>4. Room(ord, tb, i) = TrakCells(Len(tb[ord[i]]))
    BY <1>1 DEF Room
  <2> DEFINE es == tb[ord[i]]
             t == ord[i]
  <2> HIDE DEF es, t
  <2>5. LET q == mov_write_trak(t, x, es)
            r == TrakCells(Len(es))
        IN /\ r \in Nat /\ r >= 3
           /\ q \in Seq(Step) /\ Len(q) = r + 3
           /\ \A j \in 1..r : q[j] = Wr(TrakCell(t, es, 0, j))
           /\ q[r + 1] = Sk(x) /\ q[r + 2] = Wr(Trak(t, r)) /\ q[r + 3] = Sk(x + r)
    BY <2>2, TrakCallsAre DEF es, t
  <2> QED
    BY <2>1, <2>3, <2>4, <2>5 DEF Calls, es, t
<1>2. CASE ~Present(ord, tb, i)
  <2>1. TrakOf(ord, tb, i, x) = <<>> /\ Room(ord, tb, i) = 0
    BY <1>2 DEF TrakOf, Room
  <2> QED
    BY <2>1, EmptySeq DEF Calls
<1> QED
  BY <1>1, <1>2

\* The parts of a rewriting: how long they are, how they are put together, and
\* where they are then.
Parts(A, O, W, T1, T2, B, K, F, c1, c2) ==
  /\ A \in Seq(Step) /\ O \in Seq(Step) /\ W \in Seq(Step) /\ T1 \in Seq(Step)
  /\ T2 \in Seq(Step) /\ B \in Seq(Step) /\ K \in Seq(Step) /\ F \in Seq(Step)
  /\ c1 \in Nat /\ c2 \in Nat
  /\ Len(A) = 3 /\ Len(O) = 1 /\ Len(W) = 1 /\ Len(T1) = c1 /\ Len(T2) = c2
  /\ Len(B) = 3 /\ Len(K) = 1 /\ Len(F) = 1

Joined(A, O, W, T1, T2, B, K, F, X1, X2, X3, X4, AO, X5, q) ==
  /\ Cat(X1, W, T1) /\ Cat(X2, X1, T2) /\ Cat(X3, X2, B) /\ Cat(X4, X3, K)
  /\ Cat(AO, A, O) /\ Cat(X5, AO, X4) /\ Cat(q, X5, F)

Placed(A, O, W, T1, T2, B, K, F, c1, c2, q) ==
  /\ q \in Seq(Step) /\ Len(q) = (c1 + c2) + 10
  /\ Block(q, 0, A) /\ Block(q, 3, O) /\ Block(q, 4, W) /\ Block(q, 5, T1)
  /\ Block(q, c1 + 5, T2) /\ Block(q, (c1 + c2) + 5, B) /\ Block(q, (c1 + c2) + 8, K)
  /\ Block(q, (c1 + c2) + 9, F)

\* The parts of a rewriting one after the other.
LEMMA Chained ==
  ASSUME NEW A, NEW O, NEW W, NEW T1, NEW T2, NEW B, NEW K, NEW F, NEW c1, NEW c2,
         NEW X1, NEW X2, NEW X3, NEW X4, NEW AO, NEW X5, NEW q,
         Parts(A, O, W, T1, T2, B, K, F, c1, c2),
         Joined(A, O, W, T1, T2, B, K, F, X1, X2, X3, X4, AO, X5, q)
  PROVE  Placed(A, O, W, T1, T2, B, K, F, c1, c2, q)
<1>p. /\ A \in Seq(Step) /\ O \in Seq(Step) /\ W \in Seq(Step) /\ T1 \in Seq(Step)
      /\ T2 \in Seq(Step) /\ B \in Seq(Step) /\ K \in Seq(Step) /\ F \in Seq(Step)
      /\ c1 \in Nat /\ c2 \in Nat
      /\ Len(A) = 3 /\ Len(O) = 1 /\ Len(W) = 1 /\ Len(T1) = c1 /\ Len(T2) = c2
      /\ Len(B) = 3 /\ Len(K) = 1 /\ Len(F) = 1
      /\ Cat(X1, W, T1) /\ Cat(X2, X1, T2) /\ Cat(X3, X2, B) /\ Cat(X4, X3, K)
      /\ Cat(AO, A, O) /\ Cat(X5, AO, X4) /\ Cat(q, X5, F)
  BY Zenon DEF Parts, Joined
<1> DEFINE c == c1 + c2
<1>c. c \in Nat /\ c1 + c2 = c /\ c1 <= c /\ c1 \in Nat /\ c2 \in Nat
  BY <1>p
<1> HIDE DEF c
<1>1. /\ X1 \in Seq(Step) /\ Len(X1) = (c1 + 1)
      /\ Block(X1, 0, W)
      /\ Block(X1, 1, T1)
  <2>1. /\ W \in Seq(Step) /\ T1 \in Seq(Step) /\ Len(W) = 1 /\ Len(T1) = c1
        /\ 1 \in Nat /\ c1 \in Nat
    BY <1>p, <1>c
  <2>2. /\ X1 \in Seq(Step) /\ Len(X1) = Len(W) + Len(T1)
        /\ Block(X1, 0, W) /\ Block(X1, Len(W), T1)
    BY <1>p, <2>1, CatIs
  <2>3. Len(X1) = (c1 + 1)
    BY <1>p, <1>c, <2>1, <2>2
  <2> QED
    BY <1>p, <2>1, <2>2, <2>3
<1>2. /\ X2 \in Seq(Step) /\ Len(X2) = (c + 1)
      /\ Block(X2, 0, W)
      /\ Block(X2, 1, T1)
      /\ Block(X2, (c1 + 1), T2)
  <2>1. /\ X1 \in Seq(Step) /\ T2 \in Seq(Step) /\ Len(X1) = (c1 + 1) /\ Len(T2) = c2
        /\ (c1 + 1) \in Nat /\ c2 \in Nat
    BY <1>p, <1>c, <1>1
  <2>2. /\ X2 \in Seq(Step) /\ Len(X2) = Len(X1) + Len(T2)
        /\ Block(X2, 0, X1) /\ Block(X2, Len(X1), T2)
    BY <1>p, <2>1, CatIs
  <2>3. Len(X2) = (c + 1)
    BY <1>p, <1>c, <2>1, <2>2
  <2>4. Block(X2, 0, W)
    <3>1. 0 \in Nat /\ 1 \in Nat /\ 0 + 1 <= (c1 + 1)
      BY <1>p, <1>c
    <3>3. Len(W) \in Nat /\ 0 + Len(W) <= Len(X1)
      BY <1>p, <2>1, <3>1, <1>1
    <3> QED
      BY <1>p, <2>1, <3>1, <3>3, <1>1, BlockLeft
  <2>5. Block(X2, 1, T1)
    <3>1. 1 \in Nat /\ c1 \in Nat /\ 1 + c1 <= (c1 + 1)
      BY <1>p, <1>c
    <3>3. Len(T1) \in Nat /\ 1 + Len(T1) <= Len(X1)
      BY <1>p, <2>1, <3>1, <1>1
    <3> QED
      BY <1>p, <2>1, <3>1, <3>3, <1>1, BlockLeft
  <2> QED
    BY <1>p, <2>1, <2>2, <2>3, <2>4, <2>5
<1>3. /\ X3 \in Seq(Step) /\ Len(X3) = (c + 4)
      /\ Block(X3, 0, W)
      /\ Block(X3, 1, T1)
      /\ Block(X3, (c1 + 1), T2)
      /\ Block(X3, (c + 1), B)
  <2>1. /\ X2 \in Seq(Step) /\ B \in Seq(Step) /\ Len(X2) = (c + 1) /\ Len(B) = 3
        /\ (c + 1) \in Nat /\ 3 \in Nat
    BY <1>p, <1>c, <1>2
  <2>2. /\ X3 \in Seq(Step) /\ Len(X3) = Len(X2) + Len(B)
        /\ Block(X3, 0, X2) /\ Block(X3, Len(X2), B)
    BY <1>p, <2>1, CatIs
  <2>3. Len(X3) = (c + 4)
    BY <1>p, <1>c, <2>1, <2>2
  <2>4. Block(X3, 0, W)
    <3>1. 0 \in Nat /\ 1 \in Nat /\ 0 + 1 <= (c + 1)
      BY <1>p, <1>c
    <3>3. Len(W) \in Nat /\ 0 + Len(W) <= Len(X2)
      BY <1>p, <2>1, <3>1, <1>2
    <3> QED
      BY <1>p, <2>1, <3>1, <3>3, <1>2, BlockLeft
  <2>5. Block(X3, 1, T1)
    <3>1. 1 \in Nat /\ c1 \in Nat /\ 1 + c1 <= (c + 1)
      BY <1>p, <1>c
    <3>3. Len(T1) \in Nat /\ 1 + Len(T1) <= Len(X2)
      BY <1>p, <2>1, <3>1, <1>2
    <3> QED
      BY <1>p, <2>1, <3>1, <3>3, <1>2, BlockLeft
  <2>6. Block(X3, (c1 + 1), T2)
    <3>1. (c1 + 1) \in Nat /\ c2 \in Nat /\ (c1 + 1) + c2 <= (c + 1)
      BY <1>p, <1>c
    <3>3. Len(T2) \in Nat /\ (c1 + 1) + Len(T2) <= Len(X2)
      BY <1>p, <2>1, <3>1, <1>2
    <3> QED
      BY <1>p, <2>1, <3>1, <3>3, <1>2, BlockLeft
  <2> QED
    BY <1>p, <2>1, <2>2, <2>3, <2>4, <2>5, <2>6
<1>4. /\ X4 \in Seq(Step) /\ Len(X4) = (c + 5)
      /\ Block(X4, 0, W)
      /\ Block(X4, 1, T1)
      /\ Block(X4, (c1 + 1), T2)
      /\ Block(X4, (c + 1), B)
      /\ Block(X4, (c + 4), K)
  <2>1. /\ X3 \in Seq(Step) /\ K \in Seq(Step) /\ Len(X3) = (c + 4) /\ Len(K) = 1
        /\ (c + 4) \in Nat /\ 1 \in Nat
    BY <1>p, <1>c, <1>3
  <2>2. /\ X4 \in Seq(Step) /\ Len(X4) = Len(X3) + Len(K)
        /\ Block(X4, 0, X3) /\ Block(X4, Len(X3), K)
    BY <1>p, <2>1, CatIs
  <2>3. Len(X4) = (c + 5)
    BY <1>p, <1>c, <2>1, <2>2
  <2>4. Block(X4, 0, W)
    <3>1. 0 \in Nat /\ 1 \in Nat /\ 0 + 1 <= (c + 4)
      BY <1>p, <1>c
    <3>3. Len(W) \in Nat /\ 0 + Len(W) <= Len(X3)
      BY <1>p, <2>1, <3>1, <1>3
    <3> QED
      BY <1>p, <2>1, <3>1, <3>3, <1>3, BlockLeft
  <2>5. Block(X4, 1, T1)
    <3>1. 1 \in Nat /\ c1 \in Nat /\ 1 + c1 <= (c + 4)
      BY <1>p, <1>c
    <3>3. Len(T1) \in Nat /\ 1 + Len(T1) <= Len(X3)
      BY <1>p, <2>1, <3>1, <1>3
    <3> QED
      BY <1>p, <2>1, <3>1, <3>3, <1>3, BlockLeft
  <2>6. Block(X4, (c1 + 1), T2)
    <3>1. (c1 + 1) \in Nat /\ c2 \in Nat /\ (c1 + 1) + c2 <= (c + 4)
      BY <1>p, <1>c
    <3>3. Len(T2) \in Nat /\ (c1 + 1) + Len(T2) <= Len(X3)
      BY <1>p, <2>1, <3>1, <1>3
    <3> QED
      BY <1>p, <2>1, <3>1, <3>3, <1>3, BlockLeft
  <2>7. Block(X4, (c + 1), B)
    <3>1. (c + 1) \in Nat /\ 3 \in Nat /\ (c + 1) + 3 <= (c + 4)
      BY <1>p, <1>c
    <3>3. Len(B) \in Nat /\ (c + 1) + Len(B) <= Len(X3)
      BY <1>p, <2>1, <3>1, <1>3
    <3> QED
      BY <1>p, <2>1, <3>1, <3>3, <1>3, BlockLeft
  <2> QED
    BY <1>p, <2>1, <2>2, <2>3, <2>4, <2>5, <2>6, <2>7
<1>5. /\ AO \in Seq(Step) /\ Len(AO) = 4
      /\ Block(AO, 0, A)
      /\ Block(AO, 3, O)
  <2>1. /\ A \in Seq(Step) /\ O \in Seq(Step) /\ Len(A) = 3 /\ Len(O) = 1
        /\ 3 \in Nat /\ 1 \in Nat
    BY <1>p, <1>c
  <2>2. /\ AO \in Seq(Step) /\ Len(AO) = Len(A) + Len(O)
        /\ Block(AO, 0, A) /\ Block(AO, Len(A), O)
    BY <1>p, <2>1, CatIs
  <2>3. Len(AO) = 4
    BY <1>p, <1>c, <2>1, <2>2
  <2> QED
    BY <1>p, <2>1, <2>2, <2>3
<1>6. /\ X5 \in Seq(Step) /\ Len(X5) = (c + 9)
      /\ Block(X5, 0, A)
      /\ Block(X5, 3, O)
      /\ Block(X5, 4, W)
      /\ Block(X5, 5, T1)
      /\ Block(X5, (c1 + 5), T2)
      /\ Block(X5, (c + 5), B)
      /\ Block(X5, (c + 8), K)
  <2>1. /\ AO \in Seq(Step) /\ X4 \in Seq(Step) /\ Len(AO) = 4 /\ Len(X4) = (c + 5)
        /\ 4 \in Nat /\ (c + 5) \in Nat
    BY <1>p, <1>c, <1>5, <1>4
  <2>2. /\ X5 \in Seq(Step) /\ Len(X5) = Len(AO) + Len(X4)
        /\ Block(X5, 0, AO) /\ Block(X5, Len(AO), X4)
    BY <1>p, <2>1, CatIs
  <2>3. Len(X5) = (c + 9)
    BY <1>p, <1>c, <2>1, <2>2
  <2>4. Block(X5, 0, A)
    <3>1. 0 \in Nat /\ 3 \in Nat /\ 0 + 3 <= 4
      BY <1>p, <1>c
    <3>3. Len(A) \in Nat /\ 0 + Len(A) <= Len(AO)
      BY <1>p, <2>1, <3>1, <1>5, <1>4
    <3> QED
      BY <1>p, <2>1, <3>1, <3>3, <1>5, <1>4, BlockLeft, Zenon
  <2>5. Block(X5, 3, O)
    <3>1. 3 \in Nat /\ 1 \in Nat /\ 3 + 1 <= 4
      BY <1>p, <1>c
    <3>3. Len(O) \in Nat /\ 3 + Len(O) <= Len(AO)
      BY <1>p, <2>1, <3>1, <1>5, <1>4
    <3> DEFINE z == 3
    <3>4. z \in Nat /\ z + Len(O) <= Len(AO) /\ Block(AO, z, O) /\ Cat(X5, AO, X4)
      BY <1>p, <3>3, <1>5, <1>4
    <3> HIDE DEF z
    <3>5. Block(X5, z, O)
      BY <1>p, <2>1, <3>3, <3>4, BlockLeft
    <3> QED
      BY <3>5 DEF z
  <2>6. Block(X5, 4, W)
    <3>1. 0 \in Nat /\ 1 \in Nat /\ 0 + 1 <= (c + 5) /\ 4 = 4 + 0
      BY <1>p, <1>c
    <3>2. Len(AO) + 0 = 4
      BY <1>p, <2>1, <3>1
    <3>3. Len(W) \in Nat /\ 0 + Len(W) <= Len(X4)
      BY <1>p, <2>1, <3>1
    <3>4. Block(X5, Len(AO) + 0, W)
      BY <1>p, <2>1, <3>1, <3>3, <1>5, <1>4, BlockRight
    <3> QED
      BY <1>p, <3>2, <3>4
  <2>7. Block(X5, 5, T1)
    <3>1. 1 \in Nat /\ c1 \in Nat /\ 1 + c1 <= (c + 5) /\ 5 = 4 + 1
      BY <1>p, <1>c
    <3>2. Len(AO) + 1 = 5
      BY <1>p, <2>1, <3>1
    <3>3. Len(T1) \in Nat /\ 1 + Len(T1) <= Len(X4)
      BY <1>p, <2>1, <3>1
    <3>4. Block(X5, Len(AO) + 1, T1)
      BY <1>p, <2>1, <3>1, <3>3, <1>5, <1>4, BlockRight
    <3> QED
      BY <1>p, <3>2, <3>4
  <2>8. Block(X5, (c1 + 5), T2)
    <3>1. (c1 + 1) \in Nat /\ c2 \in Nat /\ (c1 + 1) + c2 <= (c + 5) /\ (c1 + 5) = 4 + (c1 + 1)
      BY <1>p, <1>c
    <3>2. Len(AO) + (c1 + 1) = (c1 + 5)
      BY <1>p, <2>1, <3>1
    <3>3. Len(T2) \in Nat /\ (c1 + 1) + Len(T2) <= Len(X4)
      BY <1>p, <2>1, <3>1
    <3>4. Block(X5, Len(AO) + (c1 + 1), T2)
      BY <1>p, <2>1, <3>1, <3>3, <1>5, <1>4, BlockRight
    <3> QED
      BY <1>p, <3>2, <3>4
  <2>9. Block(X5, (c + 5), B)
    <3>1. (c + 1) \in Nat /\ 3 \in Nat /\ (c + 1) + 3 <= (c + 5) /\ (c + 5) = 4 + (c + 1)
      BY <1>p, <1>c
    <3>2. Len(AO) + (c + 1) = (c + 5)
      BY <1>p, <2>1, <3>1
    <3>3. Len(B) \in Nat /\ (c + 1) + Len(B) <= Len(X4)
      BY <1>p, <2>1, <3>1
    <3>4. Block(X5, Len(AO) + (c + 1), B)
      BY <1>p, <2>1, <3>1, <3>3, <1>5, <1>4, BlockRight
    <3> QED
      BY <1>p, <3>2, <3>4
  <2>10. Block(X5, (c + 8), K)
    <3>1. (c + 4) \in Nat /\ 1 \in Nat /\ (c + 4) + 1 <= (c + 5) /\ (c + 8) = 4 + (c + 4)
      BY <1>p, <1>c
    <3>2. Len(AO) + (c + 4) = (c + 8)
      BY <1>p, <2>1, <3>1
    <3>3. Len(K) \in Nat /\ (c + 4) + Len(K) <= Len(X4)
      BY <1>p, <2>1, <3>1
    <3>4. Block(X5, Len(AO) + (c + 4), K)
      BY <1>p, <2>1, <3>1, <3>3, <1>5, <1>4, BlockRight
    <3> QED
      BY <1>p, <3>2, <3>4
  <2> QED
    BY <1>p, <2>1, <2>2, <2>3, <2>4, <2>5, <2>6, <2>7, <2>8, <2>9, <2>10
<1>7. /\ q \in Seq(Step) /\ Len(q) = (c + 10)
      /\ Block(q, 0, A)
      /\ Block(q, 3, O)
      /\ Block(q, 4, W)
      /\ Block(q, 5, T1)
      /\ Block(q, (c1 + 5), T2)
      /\ Block(q, (c + 5), B)
      /\ Block(q, (c + 8), K)
      /\ Block(q, (c + 9), F)
  <2>1. /\ X5 \in Seq(Step) /\ F \in Seq(Step) /\ Len(X5) = (c + 9) /\ Len(F) = 1
        /\ (c + 9) \in Nat /\ 1 \in Nat
    BY <1>p, <1>c, <1>6
  <2>2. /\ q \in Seq(Step) /\ Len(q) = Len(X5) + Len(F)
        /\ Block(q, 0, X5) /\ Block(q, Len(X5), F)
    BY <1>p, <2>1, CatIs
  <2>3. Len(q) = (c + 10)
    BY <1>p, <1>c, <2>1, <2>2
  <2>4. Block(q, 0, A)
    <3>1. 0 \in Nat /\ 3 \in Nat /\ 0 + 3 <= (c + 9)
      BY <1>p, <1>c
    <3>3. Len(A) \in Nat /\ 0 + Len(A) <= Len(X5)
      BY <1>p, <2>1, <3>1, <1>6
    <3> QED
      BY <1>p, <2>1, <3>1, <3>3, <1>6, BlockLeft, Zenon
  <2>5. Block(q, 3, O)
    <3>1. 3 \in Nat /\ 1 \in Nat /\ 3 + 1 <= (c + 9)
      BY <1>p, <1>c
    <3>3. Len(O) \in Nat /\ 3 + Len(O) <= Len(X5)
      BY <1>p, <2>1, <3>1, <1>6
    <3> DEFINE z == 3
    <3>4. z \in Nat /\ z + Len(O) <= Len(X5) /\ Block(X5, z, O) /\ Cat(q, X5, F)
      BY <1>p, <3>3, <1>6
    <3> HIDE DEF z
    <3>5. Block(q, z, O)
      BY <1>p, <2>1, <3>3, <3>4, BlockLeft
    <3> QED
      BY <3>5 DEF z
  <2>6. Block(q, 4, W)
    <3>1. 4 \in Nat /\ 1 \in Nat /\ 4 + 1 <= (c + 9)
      BY <1>p, <1>c
    <3>3. Len(W) \in Nat /\ 4 + Len(W) <= Len(X5)
      BY <1>p, <2>1, <3>1, <1>6
    <3> QED
      BY <1>p, <2>1, <3>1, <3>3, <1>6, BlockLeft, Zenon
  <2>7. Block(q, 5, T1)
    <3>1. 5 \in Nat /\ c1 \in Nat /\ 5 + c1 <= (c + 9)
      BY <1>p, <1>c
    <3>3. Len(T1) \in Nat /\ 5 + Len(T1) <= Len(X5)
      BY <1>p, <2>1, <3>1, <1>6
    <3> QED
      BY <1>p, <2>1, <3>1, <3>3, <1>6, BlockLeft, Zenon
  <2>8. Block(q, (c1 + 5), T2)
    <3>1. (c1 + 5) \in Nat /\ c2 \in Nat /\ (c1 + 5) + c2 <= (c + 9)
      BY <1>p, <1>c
    <3>3. Len(T2) \in Nat /\ (c1 + 5) + Len(T2) <= Len(X5)
      BY <1>p, <2>1, <3>1, <1>6
    <3> QED
      BY <1>p, <2>1, <3>1, <3>3, <1>6, BlockLeft, Zenon
  <2>9. Block(q, (c + 5), B)
    <3>1. (c + 5) \in Nat /\ 3 \in Nat /\ (c + 5) + 3 <= (c + 9)
      BY <1>p, <1>c
    <3>3. Len(B) \in Nat /\ (c + 5) + Len(B) <= Len(X5)
      BY <1>p, <2>1, <3>1, <1>6
    <3> QED
      BY <1>p, <2>1, <3>1, <3>3, <1>6, BlockLeft, Zenon
  <2>10. Block(q, (c + 8), K)
    <3>1. (c + 8) \in Nat /\ 1 \in Nat /\ (c + 8) + 1 <= (c + 9)
      BY <1>p, <1>c
    <3>3. Len(K) \in Nat /\ (c + 8) + Len(K) <= Len(X5)
      BY <1>p, <2>1, <3>1, <1>6
    <3> QED
      BY <1>p, <2>1, <3>1, <3>3, <1>6, BlockLeft, Zenon
  <2> QED
    BY <1>p, <2>1, <2>2, <2>3, <2>4, <2>5, <2>6, <2>7, <2>8, <2>9, <2>10
<1> QED
  BY <1>c, <1>7 DEF Placed

\* Where the last parts begin.
Bases(c1, c2, b2, b3) == c1 \in Nat /\ c2 \in Nat /\ b2 = 5 + c1 /\ b3 = b2 + c2

Steps(c1, c2, b2, b3) ==
  /\ b2 \in Nat /\ b3 \in Nat
  /\ c1 + 5 = b2 /\ (c1 + c2) + 5 = b3 /\ (c1 + c2) + 8 = b3 + 3
  /\ (c1 + c2) + 9 = b3 + 4 /\ (c1 + c2) + 10 = b3 + 5
  /\ (b3 + 3) + 1 = b3 + 4 /\ (b3 + 4) + 1 = b3 + 5

\* The bases give the steps.
LEMMA Offsets ==
  ASSUME NEW c1, NEW c2, NEW b2, NEW b3, Bases(c1, c2, b2, b3)
  PROVE  Steps(c1, c2, b2, b3)
  BY DEF Bases, Steps

\* Where a second track and the end of an index are.
LEMMA SumTypes == \A x, y \in Nat : 1 + x \in Nat /\ (1 + x) + y \in Nat
  OBVIOUS

\* The first few places.
LEMMA Places4 ==
  /\ 1 \in 1..3 /\ 2 \in 1..3 /\ 3 \in 1..3 /\ 1 \in 1..1
  /\ 0 + 1 = 1 /\ 0 + 2 = 2 /\ 0 + 3 = 3 /\ 3 + 1 = 4 /\ 4 + 1 = 5
  OBVIOUS

\* q is the calls of a rewriting.
AreCalls(ord, tb, n, e, q, r1, r2, c1, c2, b2, b3) ==
  /\ r1 \in Nat /\ r2 \in Nat /\ c1 \in Nat /\ c2 \in Nat
  /\ q \in Seq(Step) /\ Len(q) = b3 + 5
  /\ q[1] = Sk(MdatAt) /\ q[2] = Wr(Mdat(n)) /\ q[3] = Sk(e) /\ q[4] = Sk(0)
  /\ q[5] = Wr(Moov(8))
  /\ \A j \in 1..c1 : q[5 + j] = TrakOf(ord, tb, 1, 1)[j]
  /\ \A j \in 1..c2 : q[b2 + j] = TrakOf(ord, tb, 2, 1 + r1)[j]
  /\ q[b3 + 1] = Sk(0) /\ q[b3 + 2] = Wr(Moov(1 + r1 + r2))
  /\ q[b3 + 3] = Sk(1 + r1 + r2)
  /\ q[b3 + 4] = Wr(Skip) /\ q[b3 + 5] = Sk(e)

\* All calls of a rewriting, in their order: the size of the mdat box, the
\* moov box's head, the tracks, its size, the skip box over what is left, and
\* back to where the file was.
LEMMA CallsAre ==
  ASSUME NEW ord \in Orders, NEW tb \in [Tracks -> Seq(Entry)],
         Len(tb[Video]) + Len(tb[Audio]) <= MaxSamples,
         NEW n \in Nat, NEW e \in Nat,
         NEW q, q = mov_writer_update_moov(ord, tb, n, e),
         NEW r1, r1 = Room(ord, tb, 1), NEW r2, r2 = Room(ord, tb, 2),
         NEW c1, c1 = Calls(r1), NEW c2, c2 = Calls(r2),
         NEW b2, b2 = 5 + c1, NEW b3, b3 = b2 + c2
  PROVE  AreCalls(ord, tb, n, e, q, r1, r2, c1, c2, b2, b3)
<1> DEFINE second == 1 + r1
           end == second + r2
           T1 == TrakOf(ord, tb, 1, 1)
           T2 == TrakOf(ord, tb, 2, second)
           W == <<Wr(Moov(8))>>
           B == <<Sk(0), Wr(Moov(end)), Sk(end)>>
           K == <<Wr(Skip)>>
           A == <<Sk(MdatAt), Wr(Mdat(n)), Sk(e)>>
           O == <<Sk(0)>>
           F == <<Sk(e)>>
           X1 == W \o T1
           X2 == X1 \o T2
           X3 == X2 \o B
           X4 == X3 \o K
           AO == A \o O
           X5 == AO \o X4
           Q == X5 \o F
<1>1. /\ r1 \in Nat /\ r2 \in Nat /\ c1 \in Nat /\ c2 \in Nat /\ second \in Nat /\ end \in Nat
      /\ b2 \in Nat /\ b3 \in Nat /\ end = 1 + r1 + r2
  <2>1. r1 \in Nat /\ r2 \in Nat
    BY RoomBound
  <2>2. c1 \in Nat /\ c2 \in Nat
    BY <2>1 DEF Calls
  <2>3. Bases(c1, c2, b2, b3)
    BY <2>2, Zenon DEF Bases
  <2>4. b2 \in Nat /\ b3 \in Nat
    BY <2>3, Offsets, Zenon DEF Steps
  <2>5. second \in Nat /\ end \in Nat
    BY <2>1, SumTypes, Zenon
  <2> QED
    BY <2>1, <2>2, <2>4, <2>5, Zenon
<1>0. b3 = (5 + c1) + c2 /\ b2 = 5 + c1
  OBVIOUS
<1>2. T1 \in Seq(Step) /\ T2 \in Seq(Step) /\ Len(T1) = c1 /\ Len(T2) = c2
  <2> HIDE DEF second
  <2>1. T1 \in Seq(Step) /\ Len(T1) = Calls(Room(ord, tb, 1))
    BY TrakOfCalls
  <2>2. T2 \in Seq(Step) /\ Len(T2) = Calls(Room(ord, tb, 2))
    BY <1>1, TrakOfCalls
  <2> QED
    BY <2>1, <2>2
<1>3. /\ W \in Seq(Step) /\ K \in Seq(Step) /\ A \in Seq(Step) /\ O \in Seq(Step) /\ F \in Seq(Step)
      /\ B \in Seq(Step) /\ Len(B) = 3 /\ Len(K) = 1 /\ Len(F) = 1 /\ Len(W) = 1 /\ Len(A) = 3
      /\ Len(O) = 1
      /\ A[1] = Sk(MdatAt) /\ A[2] = Wr(Mdat(n)) /\ A[3] = Sk(e) /\ O[1] = Sk(0)
      /\ W[1] = Wr(Moov(8))
      /\ B[1] = Sk(0) /\ B[2] = Wr(Moov(end)) /\ B[3] = Sk(end) /\ K[1] = Wr(Skip) /\ F[1] = Sk(e)
  <2>1. /\ Wr(Moov(8)) \in Step /\ Wr(Skip) \in Step /\ Sk(0) \in Step /\ Sk(e) \in Step
        /\ Wr(Mdat(n)) \in Step /\ Wr(Moov(end)) \in Step /\ Sk(end) \in Step /\ Sk(MdatAt) \in Step
    <3>1. MdatAt \in Nat
      BY IndexAssumption DEF MdatAt
    <3> HIDE DEF end
    <3> QED
      BY <1>1, <3>1, CellTypes, StepTypes
  <2> HIDE DEF end
  <2> QED
    BY <2>1, ThreeCalls
<1>4. q = Q
  BY DEF mov_writer_update_moov, mov_write_moov_ex, mov_write_size
<1>5. /\ Cat(X1, W, T1) /\ Cat(X2, X1, T2) /\ Cat(X3, X2, B) /\ Cat(X4, X3, K)
      /\ Cat(AO, A, O) /\ Cat(X5, AO, X4) /\ Cat(q, X5, F)
  BY <1>4, Zenon DEF Cat
<1> HIDE DEF W, B, K, A, O, F, T1, T2, end, X1, X2, X3, X4, AO, X5, Q
<1>6. /\ q \in Seq(Step) /\ Len(q) = (c1 + c2) + 10
      /\ Block(q, 0, A) /\ Block(q, 3, O) /\ Block(q, 4, W) /\ Block(q, 5, T1)
      /\ Block(q, c1 + 5, T2) /\ Block(q, (c1 + c2) + 5, B) /\ Block(q, (c1 + c2) + 8, K)
      /\ Block(q, (c1 + c2) + 9, F)
  <2>1. Parts(A, O, W, T1, T2, B, K, F, c1, c2)
    BY <1>1, <1>2, <1>3, Zenon DEF Parts
  <2>2. Joined(A, O, W, T1, T2, B, K, F, X1, X2, X3, X4, AO, X5, q)
    BY <1>5, Zenon DEF Joined
  <2>3. Placed(A, O, W, T1, T2, B, K, F, c1, c2, q)
    BY <2>1, <2>2, Chained, Zenon
  <2> QED
    BY <2>3, Zenon DEF Placed
<1>o. Steps(c1, c2, b2, b3)
  <2>1. Bases(c1, c2, b2, b3)
    BY <1>1, Zenon DEF Bases
  <2> QED
    BY <2>1, Offsets, Zenon
<1>7. /\ c1 + 5 = b2 /\ (c1 + c2) + 5 = b3 /\ (c1 + c2) + 8 = b3 + 3 /\ (c1 + c2) + 9 = b3 + 4
      /\ (c1 + c2) + 10 = b3 + 5
  BY <1>o, Zenon DEF Steps
<1>8. /\ q[1] = A[1] /\ q[2] = A[2] /\ q[3] = A[3] /\ q[4] = O[1] /\ q[5] = W[1]
  <2>1. /\ 1 \in 1..3 /\ 2 \in 1..3 /\ 3 \in 1..3 /\ 1 \in 1..1
        /\ 0 + 1 = 1 /\ 0 + 2 = 2 /\ 0 + 3 = 3 /\ 3 + 1 = 4 /\ 4 + 1 = 5
    BY Places4, Zenon
  <2>2. q[0 + 1] = A[1] /\ q[0 + 2] = A[2] /\ q[0 + 3] = A[3]
    BY <1>3, <1>6, <2>1 DEF Block
  <2>3. q[3 + 1] = O[1] /\ q[4 + 1] = W[1]
    BY <1>3, <1>6, <2>1 DEF Block
  <2> QED
    BY <2>1, <2>2, <2>3
<1>9. \A j \in 1..c1 : q[5 + j] = T1[j]
  BY <1>2, <1>6 DEF Block
<1>10. \A j \in 1..c2 : q[b2 + j] = T2[j]
  <2>1. Block(q, b2, T2)
    BY <1>6, <1>7
  <2> QED
    BY <1>2, <2>1 DEF Block
<1>11. /\ q[b3 + 1] = B[1] /\ q[b3 + 2] = B[2] /\ q[b3 + 3] = B[3]
       /\ q[b3 + 4] = K[1] /\ q[b3 + 5] = F[1]
  <2>1. /\ 1 \in 1..3 /\ 2 \in 1..3 /\ 3 \in 1..3 /\ 1 \in 1..1
        /\ (b3 + 3) + 1 = b3 + 4 /\ (b3 + 4) + 1 = b3 + 5
    BY <1>o, Places4, Zenon DEF Steps
  <2>2. Block(q, b3, B) /\ Block(q, b3 + 3, K) /\ Block(q, b3 + 4, F)
    BY <1>6, <1>7
  <2>3. q[b3 + 1] = B[1] /\ q[b3 + 2] = B[2] /\ q[b3 + 3] = B[3]
    BY <1>3, <2>1, <2>2 DEF Block
  <2>4. q[(b3 + 3) + 1] = K[1] /\ q[(b3 + 4) + 1] = F[1]
    BY <1>3, <2>1, <2>2 DEF Block
  <2> QED
    BY <2>1, <2>3, <2>4
<1>12. Len(q) = b3 + 5
  BY <1>6, <1>7
<1> QED
  BY <1>1, <1>3, <1>6, <1>8, <1>9, <1>10, <1>11, <1>12, Zenon DEF AreCalls, T1, T2, second

\* The calls of one rewriting end with: to the end of the index, which lies
\* before the media data; the skip box; and back to where the file was.
LEMMA UpdateCalls ==
  ASSUME NEW ord \in Orders, NEW tb \in [Tracks -> Seq(Entry)],
         Len(tb[Video]) + Len(tb[Audio]) <= MaxSamples,
         NEW n \in Nat, NEW e \in Nat, e >= DataAt
  PROVE  LET q == mov_writer_update_moov(ord, tb, n, e)
             l == Len(q)
         IN /\ q \in Seq(Step) /\ l >= 3
            /\ q[l] = Sk(e) /\ q[l - 1] = Wr(Skip)
            /\ \E x \in Nat : q[l - 2] = Sk(x) /\ x + 1 < e
<1> DEFINE q == mov_writer_update_moov(ord, tb, n, e)
           r1 == Room(ord, tb, 1)
           r2 == Room(ord, tb, 2)
           c1 == Calls(r1)
           c2 == Calls(r2)
           b3 == (5 + c1) + c2
           end == 1 + r1 + r2
<1>1. r1 \in Nat /\ r2 \in Nat /\ r1 + r2 <= 6 + 2 * MaxSamples
  BY RoomBound
<1>2. MaxSamples \in Nat /\ MoovCap \in Nat /\ 8 + 2 * MaxSamples <= MoovCap
  BY IndexAssumption DEF TrakCells
<1>3. /\ q \in Seq(Step) /\ Len(q) = b3 + 5
      /\ q[b3 + 3] = Sk(end) /\ q[b3 + 4] = Wr(Skip) /\ q[b3 + 5] = Sk(e)
  <2> HIDE DEF q, r1, r2, b3, c1, c2
  <2>1. b3 = (5 + c1) + c2 /\ c1 = Calls(r1) /\ c2 = Calls(r2)
    BY DEF b3, c1, c2
  <2>2. q = mov_writer_update_moov(ord, tb, n, e) /\ r1 = Room(ord, tb, 1) /\ r2 = Room(ord, tb, 2)
    BY DEF q, r1, r2
  <2>3. AreCalls(ord, tb, n, e, q, r1, r2, c1, c2, 5 + c1, b3)
    BY <2>1, <2>2, CallsAre, Zenon
  <2> QED
    BY <2>3, Zenon DEF AreCalls, end
<1>4. b3 \in Nat /\ end \in Nat /\ end + 1 < e
  <2> HIDE DEF r1, r2
  <2> QED
    BY <1>1, <1>2 DEF DataAt, Calls
<1> HIDE DEF q, b3, end
<1>5. Len(q) >= 3 /\ Len(q) - 1 = b3 + 4 /\ Len(q) - 2 = b3 + 3
  BY <1>3, <1>4
<1> QED
  BY <1>3, <1>4, <1>5 DEF q

-----------------------------------------------------------------------------
(* The invariant.                                                          *)

\* What is left of a rewriting q, of a file that is at x.
EndsWell(q, x) ==
  LET l == Len(q) IN
  /\ l >= 1 => q[l].op = "seek" /\ q[l].at >= DataAt
  /\ l >= 2 => q[l - 1].op = "write"
  /\ l >= 3 => q[l - 2].op = "seek" /\ q[l - 2].at + 1 < q[l].at
  /\ l = 2 => x + 1 < q[l].at
  /\ l = 1 => x < q[l].at

\* Between two rewritings the file is behind all media data; when one has
\* come to its end the cache is empty.
Places ==
  /\ todo = <<>> => f.tell >= DataAt
  /\ phase \in {"record", "closed"} => todo = <<>>
  /\ phase = "close" /\ todo = <<>> => f.cache = <<>>
  /\ EndsWell(todo, f.tell)

Inv == RecTypeOK /\ CacheKept /\ Written <= MaxSamples /\ Places

\* The file create_mp4_by_path leaves satisfies the invariant.
THEOREM InvInit == Init => Inv
<1> SUFFICES ASSUME RecInit
             PROVE  Inv
  BY DEF Init
<1>1. f \in File /\ f.cache = <<>> /\ f.pend = <<>> /\ f.tell = DataAt /\ f.base = DataAt
  <2>1. DataAt \in Nat
    BY IndexAssumption DEF DataAt
  <2>2. \A x \in Addr : (CASE x = 0 -> Moov(8)
                           [] 0 < x /\ x < MdatAt -> Zeros
                           [] x = MdatAt -> Mdat(0)
                           [] OTHER -> Hole) \in Cell \cup {Hole}
    <3>1. Moov(8) \in Cell /\ Zeros \in Cell /\ Mdat(0) \in Cell
      BY CellTypes
    <3> QED
      BY <3>1
  <2> QED
    BY <2>1, <2>2, EmptySeq DEF RecInit, Created, File, Contents
<1>2. Len(f.cache) = 0 /\ Len(f.pend) = 0 /\ DataAt \in Nat
  BY <1>1, EmptySeq, IndexAssumption DEF DataAt
<1>3. CacheKept
  BY <1>1, <1>2, FileAssumption DEF CacheKept, TellHolds, CacheFits, ftell
<1>4. /\ samples \in [Tracks -> Seq(Sample)] /\ indexed \in [Tracks -> Seq(Entry)]
      /\ todo \in Seq(Step)
      /\ samples[Video] = <<>> /\ samples[Audio] = <<>>
  BY EmptySeq DEF RecInit, NoTrack, Tracks
<1>5. RecTypeOK
  BY <1>1, <1>4 DEF RecTypeOK, RecInit
<1>6. Written <= MaxSamples
  <2>1. Written = 0
    BY <1>4, EmptySeq DEF Written
  <2> QED
    BY <2>1, IndexAssumption
<1>7. Places
  <2>1. Len(todo) = 0
    BY EmptySeq DEF RecInit
  <2> QED
    BY <1>1, <1>2, <2>1 DEF Places, EndsWell, RecInit
<1> QED
  BY <1>3, <1>5, <1>6, <1>7 DEF Inv

\* A frame of the recorder as cells.
LEMMA FrameCells ==
  ASSUME NEW id \in Nat, NEW n \in Nat
  PROVE  FrameData(id, n) \in Seq(Cell) /\ Len(FrameData(id, n)) = n
<1>1. \A j \in 1..n : Data(id, j) \in Cell
  BY CellTypes
<1> QED
  BY <1>1 DEF FrameData

\* The table of a track's samples is a table of entries, as long.
LEMMA TableType ==
  ASSUME NEW ss \in [Tracks -> Seq(Sample)]
  PROVE  /\ Table(ss) \in [Tracks -> Seq(Entry)]
         /\ \A t \in Tracks : Len(Table(ss)[t]) = Len(ss[t])
<1>1. ASSUME NEW t \in Tracks
      PROVE  Table(ss)[t] \in Seq(Entry) /\ Len(Table(ss)[t]) = Len(ss[t])
  <2> DEFINE z == ss[t]
  <2>1. z \in Seq(Sample) /\ Len(z) \in Nat /\ DOMAIN z = 1..Len(z)
    BY LenProperties
  <2>2. \A i \in 1..Len(z) : EntryOf(z[i]) \in Entry
    <3>1. ASSUME NEW i \in 1..Len(z)
          PROVE  EntryOf(z[i]) \in Entry
      <4>1. z[i] \in Sample
        BY <2>1, ElementOfSeq
      <4>2. z[i].off \in Nat /\ z[i].len \in Nat /\ z[i].key \in {0, 1}
        <5>1. z[i].off \in Nat /\ z[i].len \in 0..MaxLen /\ z[i].key \in {0, 1}
          BY <4>1 DEF Sample
        <5>2. MaxLen \in Nat
          BY IndexAssumption
        <5> QED
          BY <5>1, <5>2
      <4> QED
        BY <4>2 DEF EntryOf, Entry
    <3> QED
      BY <3>1
  <2>3. Table(ss)[t] = [i \in 1..Len(z) |-> EntryOf(z[i])]
    BY <2>1 DEF Table, Entries
  <2> HIDE DEF z
  <2>4. [i \in 1..Len(z) |-> EntryOf(z[i])] \in Seq(Entry)
        /\ Len([i \in 1..Len(z) |-> EntryOf(z[i])]) = Len(z)
    BY <2>1, <2>2
  <2> QED
    BY <2>3, <2>4 DEF z
<1> QED
  BY <1>1 DEF Table

\* A sample is entered and its frame written.
LEMMA SampleWritten ==
  ASSUME Inv, Recording, NEW t \in Tracks, NEW len \in Lens, NEW key \in {0, 1},
         mov_writer_write(t, len, key)
  PROVE  /\ GoodFile(f')
         /\ f'.tell >= f.tell
         /\ \/ View(f') = View(f) /\ f'.tell = f.tell
            \/ \E s \in Seq(Cell) : View(f') = Put(View(f), f.tell, s)
                                    /\ f'.tell = f.tell + Len(s)
         /\ samples' \in [Tracks -> Seq(Sample)]
         /\ Written' <= MaxSamples
<1> DEFINE id == Written + 1
           d == FrameData(id, len)
           w == wrote_len(f, d)
           s == [off |-> f.tell, len |-> w, key |-> key, id |-> id, size |-> len]
           v == Len(samples[Video])
           a == Len(samples[Audio])
<1>1. /\ v \in Nat /\ a \in Nat /\ v + a < MaxSamples /\ MaxSamples \in Nat
      /\ len \in 1..MaxLen /\ MaxLen \in Nat /\ f.tell \in Nat /\ f \in File
  BY LenProperties, IndexAssumption, FileFields
     DEF Inv, RecTypeOK, Recording, Written, Tracks
<1>2. id \in 1..MaxSamples
  <2>1. id = v + a + 1
    BY DEF Written
  <2> HIDE DEF id, v, a
  <2> QED
    BY <1>1, <2>1
<1>3. d \in Seq(Cell) /\ Len(d) = len
  <2> HIDE DEF id
  <2>1. id \in Nat /\ len \in Nat
    <3> HIDE DEF v, a
    <3> QED
      BY <1>1, <1>2
  <2> QED
    BY <2>1, FrameCells
<1>4. GoodFile(f)
  BY DEF Inv, RecTypeOK, CacheKept, GoodFile
<1>5. samples' = [samples EXCEPT ![t] = Append(@, s)] /\ f' = write_data(f, d)
  BY DEF mov_writer_write
<1> HIDE DEF d, id
<1>6. /\ GoodFile(f')
      /\ View(f') = IF Refused(f, d) THEN View(f) ELSE Put(View(f), f.tell, d)
      /\ f'.tell = f.tell + w
  BY <1>3, <1>4, <1>5, FrameKeeps
<1>7. w \in 0..MaxLen /\ (Refused(f, d) => w = 0) /\ (~Refused(f, d) => w = Len(d))
  BY <1>1, <1>3 DEF wrote_len
<1>8. f'.tell >= f.tell
  <2> DEFINE x == f.tell
             y == f'.tell
  <2>1. x \in Nat /\ w \in Nat /\ y = x + w
    BY <1>1, <1>6, <1>7
  <2> HIDE DEF x, y, w
  <2>2. y >= x
    BY <2>1
  <2> QED
    BY <2>2 DEF x, y
<1>9. \/ View(f') = View(f) /\ f'.tell = f.tell
      \/ \E c \in Seq(Cell) : View(f') = Put(View(f), f.tell, c)
                              /\ f'.tell = f.tell + Len(c)
  <2>1. CASE Refused(f, d)
    BY <1>1, <1>6, <1>7, <2>1
  <2>2. CASE ~Refused(f, d)
    BY <1>3, <1>6, <1>7, <2>2
  <2> QED
    BY <2>1, <2>2
<1>10. s \in Sample
  <2> HIDE DEF w
  <2> QED
    BY <1>1, <1>2, <1>7 DEF Sample
<1> HIDE DEF s
<1>11. samples \in [Tracks -> Seq(Sample)]
  BY DEF Inv, RecTypeOK
<1>12. samples' \in [Tracks -> Seq(Sample)]
  BY <1>5, <1>10, <1>11
<1>13. Len(samples'[t]) = Len(samples[t]) + 1 /\ \A u \in Tracks : u # t => samples'[u] = samples[u]
  BY <1>5, <1>10, <1>11
<1>14. Written' <= MaxSamples
  <2> DEFINE v2 == Len(samples'[Video])
             a2 == Len(samples'[Audio])
  <2>1. \/ v2 = v + 1 /\ a2 = a
        \/ v2 = v /\ a2 = a + 1
    BY <1>13 DEF Tracks, Video, Audio
  <2>2. Written' = v2 + a2
    BY DEF Written
  <2> HIDE DEF v, a, v2, a2
  <2> QED
    BY <1>1, <2>1, <2>2
<1> QED
  BY <1>6, <1>8, <1>9, <1>12, <1>14

-----------------------------------------------------------------------------
(* Every step keeps the invariant and is one of a plain file.              *)

\* What a step does to the file, seen from above.
PlainStep ==
  \/ View(f') = View(f) /\ f'.tell \in Nat
  \/ \E s \in Seq(Cell) : View(f') = Put(View(f), f.tell, s) /\ f'.tell = f.tell + Len(s)

\* A rewriting begins.
LEMMA Begins ==
  ASSUME NEW g, GoodFile(g), g.tell >= DataAt, NEW ord \in Orders,
         NEW ss \in [Tracks -> Seq(Sample)],
         Len(ss[Video]) + Len(ss[Audio]) <= MaxSamples,
         NEW q, q = mov_writer_update_moov(ord, Table(ss), g.tell - DataAt, g.tell)
  PROVE  q \in Seq(Step) /\ q # <<>> /\ EndsWell(q, g.tell)
<1> DEFINE e == g.tell
           l == Len(q)
<1>1. e \in Nat /\ e >= DataAt /\ DataAt \in Nat
  BY FileFields, IndexAssumption DEF GoodFile, DataAt
<1>2. e - DataAt \in Nat
  <2> HIDE DEF e
  <2> QED
    BY <1>1
<1>3. /\ Table(ss) \in [Tracks -> Seq(Entry)]
      /\ Len(Table(ss)[Video]) + Len(Table(ss)[Audio]) <= MaxSamples
  BY TableType DEF Tracks
<1> HIDE DEF e
<1>4. /\ q \in Seq(Step) /\ l >= 3
      /\ q[l] = Sk(e) /\ q[l - 1] = Wr(Skip)
      /\ \E x \in Nat : q[l - 2] = Sk(x) /\ x + 1 < e
  <2> DEFINE tb == Table(ss)
             n == e - DataAt
             k == mov_writer_update_moov(ord, tb, n, e)
  <2>1. q = k
    BY DEF e
  <2>2. /\ tb \in [Tracks -> Seq(Entry)]
        /\ Len(tb[Video]) + Len(tb[Audio]) <= MaxSamples
        /\ n \in Nat
    BY <1>2, <1>3
  <2> HIDE DEF tb, n
  <2>3. /\ k \in Seq(Step) /\ Len(k) >= 3
        /\ k[Len(k)] = Sk(e) /\ k[Len(k) - 1] = Wr(Skip)
        /\ \E x \in Nat : k[Len(k) - 2] = Sk(x) /\ x + 1 < e
    BY <1>1, <2>2, UpdateCalls
  <2> QED
    BY <2>1, <2>3 DEF l
<1>5. l \in Nat /\ q # <<>>
  BY <1>4, LenProperties, EmptySeq
<1> HIDE DEF l
<1>6. /\ q[l].op = "seek" /\ q[l].at = e /\ q[l - 1].op = "write"
      /\ q[l - 2].op = "seek" /\ q[l - 2].at + 1 < e
  BY <1>4 DEF Sk, Wr
<1>7. l # 1 /\ l # 2
  BY <1>4, <1>5
<1>8. EndsWell(q, g.tell)
  BY <1>1, <1>6, <1>7 DEF EndsWell, l
<1> QED
  BY <1>4, <1>5, <1>8

\* A frame is recorded; a rewriting may begin.
LEMMA FrameStep ==
  ASSUME Inv, NEW t \in Tracks, NEW len \in Lens, NEW key \in {0, 1},
         Recording, order' \in Orders,
         \/ mov_writer_write(t, len, key)
         \/ UNCHANGED <<f, samples>>,
         imp_update_moov \/ NoUpdate,
         UNCHANGED <<sync_rd, indexed>>
  PROVE  Inv' /\ PlainStep
<1>1. /\ todo = <<>> /\ f.tell >= DataAt /\ DataAt \in Nat /\ GoodFile(f) /\ f.tell \in Nat
      /\ phase = "record"
  BY FileFields, IndexAssumption
     DEF Inv, Places, RecTypeOK, CacheKept, GoodFile, Recording, DataAt
<1>2. /\ GoodFile(f') /\ f'.tell >= f.tell /\ f'.tell \in Nat
      /\ samples' \in [Tracks -> Seq(Sample)] /\ Written' <= MaxSamples
      /\ PlainStep
  <2>1. CASE mov_writer_write(t, len, key)
    <3>1. /\ GoodFile(f') /\ f'.tell >= f.tell
          /\ samples' \in [Tracks -> Seq(Sample)] /\ Written' <= MaxSamples
          /\ \/ View(f') = View(f) /\ f'.tell = f.tell
             \/ \E s \in Seq(Cell) : View(f') = Put(View(f), f.tell, s)
                                     /\ f'.tell = f.tell + Len(s)
      BY <2>1, SampleWritten
    <3>2. f'.tell \in Nat
      BY <3>1, FileFields DEF GoodFile
    <3> QED
      BY <3>1, <3>2 DEF PlainStep
  <2>2. CASE UNCHANGED <<f, samples>>
    <3>1. f' = f /\ samples' = samples /\ Written' = Written
      BY <2>2 DEF Written
    <3>2. f'.tell >= f.tell
      <4> DEFINE x == f.tell
      <4>1. x \in Nat /\ f'.tell = x
        BY <1>1, <3>1
      <4> HIDE DEF x
      <4>2. f'.tell >= x
        BY <4>1
      <4> QED
        BY <4>2 DEF x
    <3>3. PlainStep
      BY <1>1, <3>1 DEF PlainStep
    <3>4. GoodFile(f') /\ samples' \in [Tracks -> Seq(Sample)] /\ Written' <= MaxSamples
      BY <1>1, <3>1 DEF Inv, RecTypeOK
    <3> QED
      BY <1>1, <3>1, <3>2, <3>3, <3>4
  <2> QED
    BY <2>1, <2>2
<1>3. f'.tell >= DataAt
  <2> DEFINE x == f.tell
             y == f'.tell
  <2>1. x \in Nat /\ y \in Nat /\ y >= x /\ x >= DataAt
    BY <1>1, <1>2
  <2> HIDE DEF x, y
  <2>2. y >= DataAt
    BY <1>1, <2>1
  <2> QED
    BY <2>2 DEF y
<1>4. /\ todo' \in Seq(Step) /\ EndsWell(todo', f'.tell)
      /\ phase' \in {"record", "update"} /\ moov_mutex' \in BOOLEAN
      /\ phase' = "record" => todo' = <<>>
  <2>1. CASE imp_update_moov
    <3>1. todo' = mov_writer_update_moov(order', Table(samples'), f'.tell - DataAt, f'.tell)
      BY <2>1 DEF imp_update_moov
    <3>2. Len(samples'[Video]) + Len(samples'[Audio]) <= MaxSamples
      BY <1>2 DEF Written
    <3>3. todo' \in Seq(Step) /\ todo' # <<>> /\ EndsWell(todo', f'.tell)
      BY <1>2, <1>3, <3>1, <3>2, Begins
    <3> QED
      BY <2>1, <3>3 DEF imp_update_moov
  <2>2. CASE NoUpdate
    <3>1. todo' = <<>> /\ phase' = "record" /\ moov_mutex' = moov_mutex
      BY <1>1, <2>2 DEF NoUpdate
    <3>2. Len(todo') = 0
      BY <3>1, EmptySeq
    <3> QED
      BY <3>1, <3>2, EmptySeq DEF EndsWell, Inv, RecTypeOK
  <2> QED
    BY <2>1, <2>2
<1>5. RecTypeOK'
  BY <1>2, <1>4 DEF Inv, RecTypeOK, GoodFile, Orders
<1>6. CacheKept' /\ Places'
  BY <1>2, <1>3, <1>4 DEF CacheKept, GoodFile, Places
<1> QED
  BY <1>2, <1>5, <1>6 DEF Inv

\* One call of a rewriting.
LEMMA CallStep ==
  ASSUME Inv, Call
  PROVE  Inv' /\ PlainStep
<1> DEFINE q == todo
           l == Len(q)
           x == f.tell
           y == f'.tell
           hd == Head(q)
           p == Tail(q)
<1>1. /\ q \in Seq(Step) /\ q # <<>> /\ x \in Nat /\ GoodFile(f)
      /\ EndsWell(q, x) /\ phase \notin {"record", "closed"}
  BY FileFields DEF Inv, Places, RecTypeOK, CacheKept, GoodFile, Call
<1>2. /\ l \in Nat /\ l >= 1 /\ hd = q[1] /\ hd \in Step /\ p \in Seq(Step)
      /\ Len(p) = l - 1 /\ \A i \in 1..(l - 1) : p[i] = q[i + 1]
  BY <1>1, HeadTailProperties, EmptySeq
<1>3. hd.op \in {"seek", "write"} /\ hd.at \in Nat /\ hd.cell \in Cell
  BY <1>2 DEF Step
<1>4. /\ todo' = p
      /\ f' = IF hd.op = "seek" THEN mov_file_cache_seek(f, hd.at)
              ELSE mov_file_cache_write(f, <<hd.cell>>)
      /\ UNCHANGED <<order, samples, phase, moov_mutex, sync_rd, indexed>>
  BY DEF Call
<1>5. /\ GoodFile(f') /\ y \in Nat /\ PlainStep
      /\ hd.op = "seek" => y = hd.at /\ (hd.at # x => f'.cache = <<>>)
      /\ hd.op = "write" => y = x + 1
  <2>1. CASE hd.op = "seek"
    <3>1. f' = mov_file_cache_seek(f, hd.at)
      BY <1>4, <2>1
    <3>2. /\ GoodFile(f') /\ View(f') = View(f) /\ y = hd.at
          /\ hd.at # x => f'.cache = <<>>
      BY <1>1, <1>3, <3>1, SeekKeeps
    <3> QED
      BY <1>3, <2>1, <3>2 DEF PlainStep
  <2>2. CASE hd.op = "write"
    <3>1. f' = mov_file_cache_write(f, <<hd.cell>>)
      BY <1>4, <2>2
    <3>2. <<hd.cell>> \in Seq(Cell) /\ Len(<<hd.cell>>) = 1
      BY <1>3
    <3>3. /\ GoodFile(f') /\ View(f') = Put(View(f), x, <<hd.cell>>)
          /\ y = x + Len(<<hd.cell>>)
      BY <1>1, <3>1, <3>2, WriteKeeps
    <3>4. PlainStep
      BY <3>2, <3>3 DEF PlainStep
    <3>5. y \in Nat
      BY <3>3, FileFields DEF GoodFile
    <3> QED
      BY <2>2, <3>2, <3>3, <3>4, <3>5
  <2> QED
    BY <1>3, <2>1, <2>2
<1>6. RecTypeOK'
  BY <1>2, <1>4, <1>5 DEF Inv, RecTypeOK, GoodFile
<1>7. CacheKept' /\ Written' <= MaxSamples
  BY <1>4, <1>5 DEF Inv, CacheKept, GoodFile, Written
<1>8. DataAt \in Nat
  BY IndexAssumption DEF DataAt
<1>9. Places'
  <2> HIDE DEF q, l, x, y, hd, p
  <2>1. /\ q[l].op = "seek" /\ q[l].at >= DataAt
        /\ l >= 2 => q[l - 1].op = "write"
        /\ l >= 3 => q[l - 2].op = "seek" /\ q[l - 2].at + 1 < q[l].at
        /\ l = 2 => x + 1 < q[l].at
        /\ l = 1 => x < q[l].at
    BY <1>1, <1>2 DEF EndsWell, l
  <2>2. q[l].at \in Nat
    <3>1. q \in Seq(Step) /\ Len(q) = l /\ l \in 1..l
      BY <1>1, <1>2 DEF l
    <3>2. q[l] \in Step
      BY <3>1, ElementOfSeq
    <3> QED
      BY <3>2 DEF Step
  <2>3. CASE l = 1
    <3>1. hd.op = "seek" /\ hd.at >= DataAt /\ x # hd.at
      BY <1>1, <1>2, <2>1, <2>2, <2>3
    <3>2. y >= DataAt /\ f'.cache = <<>> /\ Len(p) = 0
      BY <1>2, <1>5, <2>3, <3>1
    <3>3. todo' = <<>> /\ Len(todo') = 0
      BY <1>2, <1>4, <3>2, EmptySeq
    <3>4. f'.tell >= DataAt
      BY <3>2 DEF y
    <3> QED
      BY <1>1, <1>4, <3>2, <3>3, <3>4 DEF Places, EndsWell
  <2>4. CASE l >= 2
    <3>1. EndsWell(p, y)
      <4> DEFINE m == l - 1
      <4>1. m \in Nat /\ m >= 1 /\ l = m + 1 /\ Len(p) = m
        BY <1>2, <2>4
      <4>2. p[m] = q[l]
        BY <1>2, <4>1
      <4>3. m >= 2 => p[m - 1] = q[l - 1]
        BY <1>2, <4>1
      <4>4. m >= 3 => p[m - 2] = q[l - 2]
        BY <1>2, <4>1
      <4>5. m = 2 => y + 1 < p[m].at
        <5>1. SUFFICES ASSUME m = 2 PROVE y + 1 < p[m].at
          OBVIOUS
        <5>2. l = 3 /\ hd = q[l - 2]
          BY <1>2, <4>1, <5>1
        <5> QED
          BY <1>5, <2>1, <4>2, <5>2
      <4>6. m = 1 => y < p[m].at
        <5>1. SUFFICES ASSUME m = 1 PROVE y < p[m].at
          OBVIOUS
        <5>2. l = 2 /\ hd = q[l - 1]
          BY <1>2, <4>1, <5>1
        <5> QED
          BY <1>5, <2>1, <4>2, <5>2
      <4>7. m >= 2 => l >= 3 /\ (m >= 3 => l - 2 = m - 1)
        BY <4>1
      <4>8. m >= 3 => p[m - 2].op = "seek" /\ p[m - 2].at + 1 < p[m].at
        BY <2>1, <4>1, <4>2, <4>4, <4>7
      <4>9. m >= 2 => p[m - 1].op = "write"
        BY <2>1, <2>4, <4>3
      <4> HIDE DEF m
      <4> QED
        BY <2>1, <4>1, <4>2, <4>5, <4>6, <4>8, <4>9 DEF EndsWell
    <3>2. p # <<>>
      BY <1>2, <2>4, EmptySeq
    <3> QED
      BY <1>1, <1>4, <3>1, <3>2 DEF Places, y
  <2> QED
    BY <1>2, <2>3, <2>4
<1> QED
  BY <1>5, <1>6, <1>7, <1>9 DEF Inv

\* imp_close_mp4 rewrites the index a last time.
LEMMA CloseStep ==
  ASSUME Inv, imp_close_mp4
  PROVE  Inv' /\ PlainStep
<1>1. /\ todo = <<>> /\ f.tell >= DataAt /\ GoodFile(f) /\ f.tell \in Nat
      /\ order \in Orders /\ samples \in [Tracks -> Seq(Sample)]
      /\ Len(samples[Video]) + Len(samples[Audio]) <= MaxSamples
  BY FileFields
     DEF Inv, Places, RecTypeOK, CacheKept, GoodFile, imp_close_mp4, Orders, Written
<1>2. todo' = mov_writer_update_moov(order, Table(samples), f.tell - DataAt, f.tell)
  BY DEF imp_close_mp4, mdat_size
<1>3. todo' \in Seq(Step) /\ todo' # <<>> /\ EndsWell(todo', f.tell)
  BY <1>1, <1>2, Begins
<1>4. /\ f' = f /\ order' = order /\ samples' = samples /\ moov_mutex' = moov_mutex
      /\ indexed' = indexed /\ phase' = "close" /\ sync_rd' = FALSE
  BY DEF imp_close_mp4
<1>5. RecTypeOK'
  BY <1>3, <1>4 DEF Inv, RecTypeOK
<1>6. CacheKept' /\ Written' <= MaxSamples
  BY <1>4 DEF Inv, CacheKept, Written
<1>7. Places'
  BY <1>3, <1>4 DEF Places
<1>8. PlainStep
  BY <1>1, <1>4 DEF PlainStep
<1> QED
  BY <1>5, <1>6, <1>7, <1>8 DEF Inv

\* The second of two tracks.
LEMMA AppendTwo ==
  ASSUME NEW a \in Nat, NEW b \in Nat
  PROVE  Append(<<a>>, b) = <<a, b>>
<1> DEFINE s == Append(<<a>>, b)
<1>1. <<a>> \in Seq(Nat) /\ <<a, b>> \in Seq(Nat) /\ Len(<<a, b>>) = 2 /\ Len(<<a>>) = 1
  OBVIOUS
<1>2. s \in Seq(Nat) /\ Len(s) = 2 /\ s[1] = a /\ s[2] = b
  BY <1>1, AppendProperties
<1> HIDE DEF s
<1>3. s = <<a, b>>
  BY <1>1, <1>2, SeqEqual
<1> QED
  BY <1>3 DEF s

\* A track is added once, so that there are two at most.
LEMMA AddedOrders ==
  ASSUME order \in Orders, NEW t \in Tracks
  PROVE  Added(t) \in Orders
<1> DEFINE in == \E i \in DOMAIN order : order[i] = t
<1>1. Added(t) = IF in THEN order ELSE Append(order, t)
  BY DEF Added
<1>2. CASE order = <<>>
  <2>1. Append(order, t) = <<t>>
    BY <1>2
  <2> QED
    BY <1>1, <2>1 DEF Orders, Tracks
<1>3. CASE order = <<Video>>
  <2>1. t = Video => in
    BY <1>3
  <2>2. Append(order, Audio) = <<Video, Audio>>
    <3>1. Append(<<Video>>, Audio) = <<Video, Audio>>
      BY AppendTwo DEF Video, Audio
    <3> QED
      BY <1>3, <3>1
  <2> HIDE DEF in
  <2>3. CASE t = Video
    <3>1. Added(t) = order
      BY <1>1, <2>1, <2>3
    <3> QED
      BY <3>1
  <2>4. CASE t = Audio
    <3>1. Added(t) = order \/ Added(t) = <<Video, Audio>>
      BY <1>1, <2>2, <2>4, Zenon
    <3> QED
      BY <3>1 DEF Orders
  <2> QED
    BY <2>3, <2>4 DEF Tracks
<1>4. CASE order = <<Audio>>
  <2>1. t = Audio => in
    BY <1>4
  <2>2. Append(order, Video) = <<Audio, Video>>
    <3>1. Append(<<Audio>>, Video) = <<Audio, Video>>
      BY AppendTwo DEF Video, Audio
    <3> QED
      BY <1>4, <3>1
  <2> HIDE DEF in
  <2>3. CASE t = Audio
    <3>1. Added(t) = order
      BY <1>1, <2>1, <2>3
    <3> QED
      BY <3>1
  <2>4. CASE t = Video
    <3>1. Added(t) = order \/ Added(t) = <<Audio, Video>>
      BY <1>1, <2>2, <2>4, Zenon
    <3> QED
      BY <3>1 DEF Orders
  <2> QED
    BY <2>3, <2>4 DEF Tracks
<1>5. CASE order = <<Video, Audio>> \/ order = <<Audio, Video>>
  <2>1. in
    <3>1. 1 \in DOMAIN order /\ 2 \in DOMAIN order
      BY <1>5
    <3>2. order[1] = t \/ order[2] = t
      BY <1>5 DEF Tracks
    <3> QED
      BY <3>1, <3>2
  <2> HIDE DEF in
  <2> QED
    BY <1>1, <2>1
<1> QED
  BY <1>2, <1>3, <1>4, <1>5 DEF Orders

\* The steps of the storage thread.
LEMMA StorageStep ==
  ASSUME Inv, Storage
  PROVE  Inv' /\ PlainStep
<1>1. ASSUME NEW len \in Lens, NEW key \in {0, 1}, imp_write_video(len, key)
      PROVE  Inv' /\ PlainStep
  <2>1. order' \in Orders
    BY <1>1, AddedOrders DEF imp_write_video, Orders, Inv, RecTypeOK, Tracks
  <2> QED
    BY <1>1, <2>1, FrameStep DEF imp_write_video, Tracks
<1>2. ASSUME NEW len \in Lens, imp_write_audio(len)
      PROVE  Inv' /\ PlainStep
  <2>1. order' \in Orders
    BY <1>2, AddedOrders DEF imp_write_audio, Orders, Inv, RecTypeOK, Tracks
  <2> QED
    BY <1>2, <2>1, FrameStep DEF imp_write_audio, Tracks
<1>3. CASE UpdateDone
  <2>1. /\ f' = f /\ order' = order /\ samples' = samples /\ todo' = todo /\ todo = <<>>
        /\ phase' = "record" /\ moov_mutex' = FALSE /\ sync_rd' = TRUE
        /\ indexed' = Table(samples)
    BY <1>3 DEF UpdateDone
  <2>2. indexed' \in [Tracks -> Seq(Entry)]
    BY <2>1, TableType DEF Inv, RecTypeOK
  <2>3. RecTypeOK'
    BY <2>1, <2>2 DEF Inv, RecTypeOK
  <2>4. CacheKept' /\ Written' <= MaxSamples
    BY <2>1 DEF Inv, CacheKept, Written
  <2>5. Places'
    BY <2>1 DEF Inv, Places
  <2>6. PlainStep
    BY <2>1, FileFields DEF PlainStep, Inv, RecTypeOK
  <2> QED
    BY <2>3, <2>4, <2>5, <2>6 DEF Inv
<1>4. CASE CloseDone
  <2>1. /\ order' = order /\ samples' = samples /\ todo' = todo /\ todo = <<>>
        /\ phase' = "closed" /\ moov_mutex' = moov_mutex /\ sync_rd' = sync_rd
        /\ indexed' = Table(samples) /\ phase = "close"
        /\ f' = [fseek(f, f.tell) EXCEPT !.cache = <<>>]
    BY <1>4 DEF CloseDone
  <2>2. f \in File /\ f.cache = <<>> /\ f.tell \in Nat /\ f.tell >= DataAt
    BY <2>1, FileFields DEF Inv, RecTypeOK, Places
  <2> DEFINE h == fseek(f, f.tell)
  <2>3. h \in File /\ h.cache = <<>> /\ h.tell = f.tell /\ ftell(h) = f.tell /\ View(h) = View(f)
    BY <2>2, fseekIs
  <2> HIDE DEF h
  <2>4. f' = h
    <3>1. f' = [h EXCEPT !.cache = <<>>]
      BY <2>1 DEF h
    <3> QED
      BY <2>3, <3>1 DEF File
  <2>5. f' \in File /\ f'.cache = <<>> /\ f'.tell = f.tell /\ ftell(f') = f.tell /\ View(f') = View(f)
    BY <2>3, <2>4
  <2>6. CacheKept'
    <3>1. Len(f'.cache) = 0
      BY <2>5, EmptySeq
    <3> QED
      BY <2>2, <2>5, <3>1, FileAssumption DEF CacheKept, TellHolds, CacheFits
  <2>7. indexed' \in [Tracks -> Seq(Entry)]
    BY <2>1, TableType DEF Inv, RecTypeOK
  <2>8. RecTypeOK'
    BY <2>1, <2>5, <2>7 DEF Inv, RecTypeOK
  <2>9. Places' /\ Written' <= MaxSamples
    <3>1. Len(todo') = 0
      BY <2>1, EmptySeq
    <3> QED
      BY <2>1, <2>2, <2>5, <3>1 DEF Inv, Places, EndsWell, Written
  <2>10. PlainStep
    BY <2>2, <2>5 DEF PlainStep
  <2> QED
    BY <2>6, <2>8, <2>9, <2>10 DEF Inv
<1>5. CASE Spill
  <2>1. /\ f.pend # <<>> /\ f' = Spilt(f, 1)
        /\ UNCHANGED <<order, samples, todo, phase, moov_mutex, sync_rd, indexed>>
    BY <1>5 DEF Spill
  <2>2. f \in File /\ f.tell \in Nat /\ 1 \in 0..Len(f.pend)
    BY <2>1, FileFields, EmptySeq DEF Inv, RecTypeOK
  <2>3. /\ f' \in File /\ f'.tell = f.tell /\ f'.cache = f.cache
        /\ ftell(f') = ftell(f) /\ View(f') = View(f)
    BY <2>1, <2>2, SpiltIs
  <2>4. CacheKept' /\ Written' <= MaxSamples
    BY <2>1, <2>3 DEF Inv, CacheKept, TellHolds, CacheFits, Written
  <2>5. RecTypeOK'
    BY <2>1, <2>3 DEF Inv, RecTypeOK
  <2>6. Places'
    BY <2>1, <2>3 DEF Inv, Places
  <2>7. PlainStep
    BY <2>2, <2>3 DEF PlainStep
  <2> QED
    BY <2>4, <2>5, <2>6, <2>7 DEF Inv
<1> QED
  BY <1>1, <1>2, <1>3, <1>4, <1>5, CallStep DEF Storage

\* Neither the player nor a stutter touches the file.
LEMMA OtherStep ==
  ASSUME Inv, UNCHANGED <<f, order, samples, todo, phase, moov_mutex, indexed>>,
         sync_rd' \in BOOLEAN
  PROVE  Inv' /\ PlainStep
<1>1. RecTypeOK'
  BY DEF Inv, RecTypeOK
<1>2. CacheKept' /\ Written' <= MaxSamples /\ Places'
  BY DEF Inv, CacheKept, Written, Places
<1>3. PlainStep
  BY FileFields DEF PlainStep, Inv, RecTypeOK
<1> QED
  BY <1>1, <1>2, <1>3 DEF Inv

\* Every step keeps the invariant and is one of a plain file.
LEMMA StepKeeps ==
  ASSUME Inv, [Next]_vars
  PROVE  Inv' /\ PlainStep
<1>1. CASE Record
  BY <1>1, StorageStep DEF Record
<1>2. CASE CloseAndSync
  BY <1>2, CloseStep DEF CloseAndSync
<1>3. CASE Player
  <2>1. UNCHANGED <<f, order, samples, todo, phase, moov_mutex, indexed>> /\ sync_rd' \in BOOLEAN
    BY <1>3 DEF Player, imp_read_mp4, sync_rw_context, ReadEnd, ReadFrame, ReadShort, reopen_mp4,
                imp_close_mp4_reader, imp_mp4_seek, recVars, Inv, RecTypeOK
  <2> QED
    BY <2>1, OtherStep
<1>4. CASE UNCHANGED vars
  <2>1. UNCHANGED <<f, order, samples, todo, phase, moov_mutex, indexed>> /\ sync_rd' \in BOOLEAN
    BY <1>4 DEF vars, recVars, Inv, RecTypeOK
  <2> QED
    BY <2>1, OtherStep
<1> QED
  BY <1>1, <1>2, <1>3, <1>4 DEF Next

\* The invariant of the recorder holds with any player.
THEOREM InvHolds == Spec => []Inv
<1>1. Inv /\ [Next]_vars => Inv'
  BY StepKeeps
<1> QED
  BY InvInit, <1>1, PTL DEF Spec

-----------------------------------------------------------------------------
(* What the runs check.                                                    *)

\* The recorder's variables keep their types, whatever the sizes.
THEOREM RecorderTypes == Spec => []RecTypeOK
<1>1. Inv => RecTypeOK
  BY DEF Inv
<1> QED
  BY InvHolds, <1>1, PTL

\* mov_file_cache_tell never answers -1, and nothing is copied past the end
\* of the cache: the cache's position is the FILE's with what it holds.
THEOREM CacheIsKept == Spec => []CacheKept
<1>1. Inv => CacheKept
  BY DEF Inv
<1> QED
  BY InvHolds, <1>1, PTL

\* A step of the recorder is a step of a plain file.
LEMMA PlainStepIs ==
  ASSUME Inv, Inv', PlainStep
  PROVE  [Plain!Next]_<<View(f), f.tell>>
<1>1. /\ f.tell \in Nat /\ f'.tell \in Nat /\ View(f) \in Contents /\ View(f') \in Contents
  BY FileFields DEF Inv, RecTypeOK
<1>2. CASE View(f') = View(f) /\ f'.tell \in Nat
  BY <1>2 DEF Plain!Next, Plain!Seek
<1>3. ASSUME NEW s \in Seq(Cell), View(f') = Put(View(f), f.tell, s), f'.tell = f.tell + Len(s)
      PROVE  Plain!Next
  <2> DEFINE x == f.tell
             y == f'.tell
             n == Len(s)
  <2>1. n \in Nat /\ x \in Nat /\ y = x + n
    BY <1>1, <1>3, LenProperties
  <2>2. \A z \in Addr : ~(x <= z /\ z < x + n) => View(f')[z] = View(f)[z]
    BY <1>3, PutAt
  <2>3. y - x = n /\ y >= x /\ y \in Nat
    <3> HIDE DEF x, y, n
    <3> QED
      BY <2>1
  <2>4. Plain!Write(n)
    BY <1>1, <2>1, <2>2 DEF Plain!Write, Contents
  <2> QED
    BY <2>3, <2>4 DEF Plain!Next
<1> QED
  BY <1>2, <1>3 DEF PlainStep

\* The cache, over stdio, over the kernel's file, is a plain file to the
\* writer of the recording.
THEOREM CacheIsAFile == Spec => CacheKeepsPromise
<1>1. Init => Plain!Init
  <2> SUFFICES ASSUME Init PROVE Plain!Init
    OBVIOUS
  <2>1. View(f) \in Contents /\ f.tell \in Nat
    BY InvInit, FileFields DEF Inv, RecTypeOK
  <2> QED
    BY <2>1 DEF Plain!Init, Contents
<1>2. Inv /\ Inv' /\ [Next]_vars => [Plain!Next]_<<View(f), f.tell>>
  BY StepKeeps, PlainStepIs
<1> QED
  BY <1>1, <1>2, InvHolds, PTL DEF Spec, CacheKeepsPromise, Plain!Spec
=============================================================================
