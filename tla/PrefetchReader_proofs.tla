------------------------ MODULE PrefetchReader_proofs ------------------------
(***************************************************************************)
(* Proofs about the prefetch reader: whatever the workers, the drainer, the *)
(* consumer and the faults do, for every object, range, window size and     *)
(* number of workers, the client gets the bytes of the range in order, a    *)
(* stream that ends with io.EOF is complete, and a failure of the first     *)
(* window is seen before the status line is committed.                      *)
(***************************************************************************)
EXTENDS PrefetchReader, SequenceTheorems, FiniteSetTheorems, TLAPS

-----------------------------------------------------------------------------
(* The inductive invariant. *)

(* Where the trimmed windows meet: window i is delivered as the bytes from
   Bounds[i] up to Bounds[i + 1]. *)
Bounds ==
  [i \in 0..nChunks |-> IF i = 0 THEN start ELSE IF i = nChunks THEN end ELSE Offset(i)]

Geometry ==
  /\ nChunks = 0 => start = end
  /\ \A i \in Indices :
       /\ Offset(i) \in 0..ObjSize /\ Window(i).hi \in Offset(i)..ObjSize
       /\ Larger(Offset(i), start) = Bounds[i]
       /\ Smaller(Window(i).hi, end) = Bounds[i + 1]
       /\ Bounds[i] < Bounds[i + 1]
  /\ Bounds \in [0..nChunks -> start..end] /\ Bounds[0] = start /\ Bounds[nChunks] = end

(* A buffer the drainer may deliver between two bounds, and one a worker may
   publish, for the range from s to e. *)
Good(b, lo, hi, tr) ==
  /\ b \in Buffers
  /\ b.err = "nil" =>
       /\ b.lo = lo /\ lo <= b.hi /\ b.hi <= hi
       /\ "short" \notin tr => b.hi = hi
Cut(b, s, e) ==
  IF Smaller(b.hi, e) <= Larger(b.lo, s)
    THEN Data(Larger(b.lo, s), Larger(b.lo, s))
    ELSE Data(Larger(b.lo, s), Smaller(b.hi, e))
Raw(b, lo, hi, tr, s, e) ==
  b \in Buffers /\ (b.err = "nil" => Good(Cut(b, s, e), lo, hi, tr))

Busy == {w \in Workers : wpc[w] \in {"check", "fetch", "send"}}
Idle == {w \in Workers : wpc[w] = "done"}

(* Windows the drainer has taken from their slots, and windows the consumer
   has taken from the channel. *)
Received == IF dpc = "deliver" THEN di + 1 ELSE di
Consumed == di - Len(out)

(* Every index is claimed once, and a claimed window is on its way until the
   drainer has it. *)
WorkInv ==
  \A w \in Busy :
    /\ wi[w] \in Indices /\ wi[w] < idx /\ Received <= wi[w] /\ results[wi[w]] = None
    /\ wpc[w] = "send" => 
         Raw(wbuf[w], Bounds[wi[w]], Bounds[wi[w] + 1], trouble, start, end)
    /\ \A v \in Busy : wi[v] = wi[w] => v = w

SlotInv ==
  \A i \in Indices : results[i] # None =>
    /\ i < idx /\ Received <= i
    /\ Raw(results[i], Bounds[i], Bounds[i + 1], trouble, start, end)

DrainInv ==
  /\ Received <= idx /\ Received <= nChunks
  /\ dpc = "recv" => di < nChunks /\ ~closed
  /\ dpc = "deliver" => di < nChunks /\ ~closed /\ Good(dbuf, Bounds[di], Bounds[di + 1], trouble)
  /\ dpc = "done" => closed

ChanInv ==
  /\ Len(out) <= di
  /\ \A k \in 1..Len(out) :
       /\ Good(out[k], Bounds[Consumed + k - 1], Bounds[Consumed + k], trouble)
       /\ out[k].err # "nil" => k = Len(out) /\ closed

(* The last buffer of the channel is an error. *)
Broken == out # << >> /\ out[Len(out)].err # "nil"

Streaming == cpc \in {"prime", "read"}

(* The consumer's position. *)
Pos == IF cur = None THEN Bounds[Consumed] ELSE cur.lo

ReadInv ==
  Streaming =>
    /\ err = "nil" /\ sink = "off" /\ "write" \notin trouble
    /\ ctxDone => "cancel" \in trouble
    /\ closed /\ ~ctxDone => di = nChunks \/ Broken
    /\ cur # None =>
         /\ 1 <= Consumed /\ cur.err = "nil"
         /\ start <= cur.lo /\ cur.lo <= cur.hi /\ cur.hi <= Bounds[Consumed]
         /\ "short" \notin trouble => cur.hi = Bounds[Consumed]
    /\ \A k \in 1..Len(sent) : sent[k] < Pos
    /\ "short" \notin trouble => Len(sent) = Pos - start

StatusInv ==
  /\ cpc = "prime" => cur = None /\ sent = << >> /\ status = "none" /\ di = Len(out)
  /\ cpc # "prime" => status # "none"
  /\ status = "ok" /\ ~ctxDone => 1 <= di \/ nChunks = 0
  /\ status = "502" => ~Streaming /\ sent = << >> /\ err # "nil" /\ err # "EOF"

(* The failure of window i has not reached the consumer yet. *)
FailAt(i) ==
  /\ i \in Indices
  /\ \/ \E w \in Busy : wi[w] = i /\ wpc[w] = "send" /\ wbuf[w].err # "nil"
     \/ results[i] # None /\ results[i].err # "nil"
     \/ dpc = "deliver" /\ di = i /\ dbuf.err # "nil"
     \/ di = i + 1 /\ Broken

FailInv ==
  "fetch" \in trouble /\ "cancel" \notin trouble /\ Streaming => \E i \in Indices : FailAt(i)

FirstInv ==
  /\ trouble \subseteq {"fetch", "short", "cancel", "write", "first"}
  /\ "first" \in trouble =>
       /\ "fetch" \in trouble
       /\ ~ctxDone => status # "ok" /\ (cpc = "prime" => FailAt(0))

CountInv == idx <= nChunks + Cardinality(Idle)

EofInv ==
  err = "EOF" =>
    /\ ~Streaming
    /\ trouble \cap {"cancel", "short"} = {} =>
         Len(sent) = end - start /\ trouble = {} /\ di = nChunks /\ Received = di

PInv ==
  /\ TypeOK /\ sent \in Seq(Nat) /\ Geometry /\ WorkInv /\ SlotInv /\ DrainInv /\ ChanInv
  /\ ReadInv /\ BytesInOrder /\ StatusInv /\ FailInv /\ FirstInv /\ CountInv /\ EofInv

-----------------------------------------------------------------------------
(* The geometry of a range. *)

LEMMA Division ==
  ASSUME NEW a \in Nat, NEW b \in Nat \ {0}
  PROVE  a \div b \in Nat /\ a % b \in 0..b - 1 /\ a = b * (a \div b) + (a % b)
<1>1. a \div b \in Nat /\ a % b \in 0..b - 1
  OBVIOUS
<1>2. a = b * (a \div b) + (a % b)
  BY Z3
<1> QED
  BY <1>1, <1>2

LEMMA Products ==
  ASSUME NEW c \in Nat \ {0}, NEW m \in Nat, NEW n \in Nat
  PROVE  /\ m * c \in Nat /\ m <= m * c /\ c * m = m * c
         /\ (m + 1) * c = m * c + c
         /\ m <= n => m * c <= n * c /\ (n - m) * c = n * c - m * c
         /\ m < n => m * c + c <= n * c
         /\ (m * c) \div c = m
<1>1. m * c \in Nat /\ c * m = m * c /\ n * c \in Nat
  OBVIOUS
<1>2. m <= m * c
  OBVIOUS
<1>3. (m + 1) * c = m * c + c
  OBVIOUS
<1>4. m <= n => m * c <= n * c
  OBVIOUS
<1>5. (n - m) * c = n * c - m * c
  OBVIOUS
<1>6. m < n => m * c + c <= n * c
  OBVIOUS
<1>7. (m * c) \div c = m
  OBVIOUS
<1> QED
  BY <1>1, <1>2, <1>3, <1>4, <1>5, <1>6, <1>7

(* New's windows cover the range, and the first and the last of them touch
   it. *)
LEMMA Cover ==
  ASSUME NEW c \in Nat \ {0}, NEW s \in Nat, NEW e \in Nat, s < e,
         NEW a, a = s - (s % c), NEW n, n = Windows(a, e, c)
  PROVE  /\ a \in Nat /\ a <= s /\ s < a + c
         /\ n \in Nat \ {0} /\ e <= a + n * c /\ a + (n - 1) * c < e
<1>1. PICK p \in Nat, r \in 0..c - 1 : s = p * c + r /\ s % c = r
  <2>1. s \div c \in Nat /\ s % c \in 0..c - 1 /\ s = c * (s \div c) + (s % c)
    BY Division, Zenon
  <2>2. c * (s \div c) = (s \div c) * c
    BY <2>1, Products
  <2> QED
    BY <2>1, <2>2
<1>2. PICK q \in Nat, z \in 0..c - 1 : e = q * c + z /\ e % c = z
  <2>1. e \div c \in Nat /\ e % c \in 0..c - 1 /\ e = c * (e \div c) + (e % c)
    BY Division, Zenon
  <2>2. c * (e \div c) = (e \div c) * c
    BY <2>1, Products
  <2> QED
    BY <2>1, <2>2
<1>3. p * c \in Nat /\ q * c \in Nat /\ (q + 1) * c = q * c + c
  BY Products
<1>4. a = p * c /\ a \in Nat /\ a <= s /\ s < a + c
  BY <1>1, <1>3
<1>5. PICK Q \in Nat :
        /\ Q * c = IF z # 0 THEN e + (c - z) ELSE e
        /\ Q * c \in Nat /\ e <= Q * c /\ Q * c < e + c
  <2>1. CASE z = 0
    BY <1>2, <1>3, <2>1
  <2>2. CASE z # 0
    <3>1. q + 1 \in Nat /\ (q + 1) * c = e + (c - z) /\ e <= e + (c - z) /\ e + (c - z) < e + c
      BY <1>2, <1>3, <2>2
    <3>2. e + (c - z) \in Nat
      BY <1>2
    <3> QED
      BY <2>2, <3>1, <3>2
  <2> QED
    BY <2>1, <2>2
<1>6. p < Q
  <2>1. Q <= p => Q * c <= p * c
    BY Products
  <2>2. p * c < Q * c
    BY <1>1, <1>3, <1>5
  <2> QED
    BY <1>3, <1>5, <2>1, <2>2
<1>7. (Q - p) * c = Q * c - p * c /\ Q - p \in Nat \ {0} /\ ((Q - p) * c) \div c = Q - p
  <2>1. Q - p \in Nat \ {0}
    BY <1>6
  <2> QED
    BY <1>6, <2>1, Products
<1>8. n = Q - p
  <2>1. n = (Q * c - a) \div c
    BY <1>2, <1>5 DEF Windows
  <2> QED
    BY <1>4, <1>7, <2>1
<1>9. n * c = Q * c - p * c /\ (n - 1) * c = n * c - c
  <2>1. n - 1 \in Nat /\ (n - 1) + 1 = n
    BY <1>7, <1>8
  <2>2. ((n - 1) + 1) * c = (n - 1) * c + c /\ (n - 1) * c \in Nat
    BY <2>1, Products
  <2>3. n * c = (n - 1) * c + c
    BY <2>1, <2>2
  <2>4. (n - 1) * c = n * c - c
    BY <2>2, <2>3
  <2> QED
    BY <1>7, <1>8, <2>4
<1> QED
  BY <1>3, <1>4, <1>5, <1>7, <1>8, <1>9

(* The loop of ChunkSize ends with a window of at least one byte. *)
LEMMA ChunkSizeFacts ==
  ASSUME NEW span, NEW h \in ChunkSizeRuns(span)
  PROVE  h[Len(h)] \in 1..StreamChunk
<1>1. PICK n \in 1..StreamChunk : h \in [1..n -> 0..StreamChunk]
  BY DEF ChunkSizeRuns
<1>2. Len(h) = n /\ n \in Nat \ {0} /\ StreamChunk \in Nat \ {0} /\ MinChunk \in Nat \ {0}
  <2>1. n \in Nat /\ StreamChunk \in Nat \ {0} /\ MinChunk \in Nat \ {0}
    BY ReaderAssumption
  <2>2. h \in Seq(0..StreamChunk)
    BY <1>1, <2>1
  <2> QED
    BY <1>1, <2>1, <2>2
<1>3. CASE n = 1
  BY <1>2, <1>3 DEF ChunkSizeRuns
<1>4. CASE n # 1
  <2>1. n - 1 \in 1..Len(h) - 1 /\ (n - 1) + 1 = n /\ n - 1 \in 1..n
    BY <1>2, <1>4
  <2>2. Halves(h[n - 1], span) /\ h[n] = h[n - 1] \div 2
    BY <2>1 DEF ChunkSizeRuns
  <2>3. h[n - 1] \in 0..StreamChunk /\ h[n - 1] > MinChunk
    BY <1>1, <2>1, <2>2 DEF Halves
  <2> QED
    BY <1>2, <2>2, <2>3
<1> QED
  BY <1>3, <1>4

LEMMA InitGeometry ==
  ASSUME Init
  PROVE  /\ start \in 0..ObjSize /\ end \in start..ObjSize
         /\ chunkSize \in 1..StreamChunk /\ alignedStart \in 0..start
         /\ nChunks \in 0..ObjSize /\ Geometry
<1>1. ObjSize \in Nat \ {0} /\ StreamChunk \in Nat \ {0}
  BY ReaderAssumption
<1>2. start \in 0..ObjSize /\ end \in start..ObjSize /\ start \in Nat /\ end \in Nat
  BY <1>1, ReaderAssumption DEF Init
<1>3. chunkSize \in 1..StreamChunk /\ chunkSize \in Nat \ {0}
  BY <1>1, ChunkSizeFacts DEF Init
<1>4. alignedStart = start - (start % chunkSize) /\ start % chunkSize \in 0..chunkSize - 1
      /\ start % chunkSize <= start
  <2>1. start % chunkSize \in 0..chunkSize - 1 /\ start \div chunkSize \in Nat
        /\ start = chunkSize * (start \div chunkSize) + (start % chunkSize)
    BY <1>2, <1>3, Division, Zenon
  <2>2. chunkSize * (start \div chunkSize) \in Nat
    BY <1>3, <2>1, Products
  <2> QED
    BY <1>2, <1>3, <2>1, <2>2 DEF Init
<1>5. alignedStart \in 0..start
  BY <1>2, <1>3, <1>4
<1>6. CASE start >= end
  <2>1. nChunks = 0 /\ start = end /\ Indices = {}
    BY <1>2, <1>6 DEF Init, Indices
  <2>2. Bounds = [i \in 0..0 |-> start]
    BY <2>1 DEF Bounds
  <2>3. Geometry
    BY <1>2, <2>1, <2>2 DEF Geometry
  <2> QED
    BY <1>1, <1>2, <1>3, <1>5, <2>1, <2>3
<1>7. CASE start < end
  <2> DEFINE O(i) == alignedStart + i * chunkSize
  <2>1. nChunks = Windows(alignedStart, end, chunkSize)
    BY <1>2, <1>7 DEF Init
  <2>2. /\ alignedStart \in Nat /\ alignedStart <= start /\ start < alignedStart + chunkSize
        /\ nChunks \in Nat \ {0} /\ end <= O(nChunks) /\ O(nChunks - 1) < end
    BY <1>2, <1>3, <1>4, <1>7, <2>1, Cover
  <2>3. nChunks \in 0..ObjSize
    <3>1. nChunks - 1 \in Nat /\ (nChunks - 1) * chunkSize \in Nat
          /\ nChunks - 1 <= (nChunks - 1) * chunkSize
      BY <1>3, <2>2, Products
    <3> QED
      BY <1>1, <1>2, <2>2, <3>1
  <2>4. ASSUME NEW i \in 0..nChunks - 1
        PROVE  /\ O(i) \in Nat /\ O(i) < end /\ O(i + 1) = O(i) + chunkSize
               /\ i = 0 => O(i) <= start /\ start < O(i) + chunkSize
               /\ i # 0 => start < O(i)
               /\ i + 1 # nChunks => O(i) + chunkSize < end
               /\ i + 1 = nChunks => end <= O(i) + chunkSize
    <3> DEFINE m == nChunks - 1
    <3>1. i \in Nat /\ m \in Nat /\ i <= m
      BY <2>2
    <3>2. i * chunkSize \in Nat /\ (i + 1) * chunkSize = i * chunkSize + chunkSize
          /\ (i < m => i * chunkSize + chunkSize <= m * chunkSize)
          /\ i * chunkSize <= m * chunkSize /\ m * chunkSize \in Nat
      BY <1>3, <3>1, Products
    <3>3. i # 0 => chunkSize <= i * chunkSize
      <4>1. i # 0 => 1 <= i
        BY <3>1
      <4>2. 1 <= i => 1 * chunkSize <= i * chunkSize
        BY <1>3, <3>1, Products
      <4> QED
        BY <1>3, <4>1, <4>2
    <3>4. i = 0 => i * chunkSize = 0
      BY <1>3
    <3>5. O(i + 1) = O(i) + chunkSize /\ O(i) \in Nat
      BY <1>3, <2>2, <3>2
    <3>6. i + 1 = nChunks => O(i + 1) = O(nChunks)
      OBVIOUS
    <3>7. i + 1 # nChunks => i < m
      BY <3>1, <2>2
    <3> HIDE DEF m
    <3>8. alignedStart + m * chunkSize < end
      BY <2>2 DEF m
    <3>9. O(i) < end /\ (i = 0 => O(i) <= start /\ start < O(i) + chunkSize) /\ (i # 0 => start < O(i))
      BY <1>2, <1>3, <2>2, <3>2, <3>3, <3>4, <3>8
    <3>10. i + 1 # nChunks => O(i) + chunkSize < end
      BY <1>2, <1>3, <2>2, <3>2, <3>7, <3>8
    <3>11. i + 1 = nChunks => end <= O(i) + chunkSize
      BY <2>2, <3>5, <3>6
    <3> QED
      BY <3>5, <3>9, <3>10, <3>11
  <2> HIDE DEF O
  <2>5. \A i : Offset(i) = O(i)
    BY DEF Offset, O
  <2>6. Bounds = [i \in 0..nChunks |->
                    IF i = 0 THEN start ELSE IF i = nChunks THEN end ELSE O(i)]
    BY <2>5 DEF Bounds
  <2>7. ASSUME NEW i \in Indices
        PROVE  /\ Offset(i) \in 0..ObjSize /\ Window(i).hi \in Offset(i)..ObjSize
               /\ Larger(Offset(i), start) = Bounds[i]
               /\ Smaller(Window(i).hi, end) = Bounds[i + 1]
               /\ Bounds[i] < Bounds[i + 1]
    <3>1. i \in 0..nChunks - 1 /\ i \in 0..nChunks /\ i + 1 \in 0..nChunks /\ i # nChunks /\ i + 1 # 0
      BY <2>2 DEF Indices
    <3>2. /\ O(i) \in Nat /\ O(i) < end /\ O(i + 1) = O(i) + chunkSize
          /\ i = 0 => O(i) <= start /\ start < O(i) + chunkSize
          /\ i # 0 => start < O(i)
          /\ i + 1 # nChunks => O(i) + chunkSize < end
          /\ i + 1 = nChunks => end <= O(i) + chunkSize
      BY <2>4, <3>1
    <3>3. Window(i).hi = Smaller(O(i) + chunkSize, ObjSize)
      BY <2>5 DEF Window, Data
    <3>4. Bounds[i] = IF i = 0 THEN start ELSE O(i)
      BY <2>6, <3>1
    <3>5. Bounds[i + 1] = IF i + 1 = nChunks THEN end ELSE O(i) + chunkSize
      BY <2>6, <3>1, <3>2
    <3>6. O(i) \in 0..ObjSize /\ Window(i).hi \in O(i)..ObjSize
      BY <1>1, <1>2, <1>3, <3>2, <3>3 DEF Smaller
    <3>7. Larger(O(i), start) = Bounds[i]
      BY <1>2, <3>2, <3>4 DEF Larger
    <3>8. Smaller(Window(i).hi, end) = Bounds[i + 1]
      BY <1>1, <1>2, <1>3, <3>2, <3>3, <3>5 DEF Smaller
    <3>9. Bounds[i] < Bounds[i + 1]
      <4>1. CASE i = 0
        BY <1>2, <1>3, <1>7, <3>2, <3>4, <3>5, <4>1
      <4>2. CASE i # 0
        BY <1>2, <1>3, <3>2, <3>4, <3>5, <4>2
      <4> QED
        BY <4>1, <4>2
    <3> QED
      BY <2>5, <3>6, <3>7, <3>8, <3>9
  <2>8. Bounds \in [0..nChunks -> start..end] /\ Bounds[0] = start /\ Bounds[nChunks] = end
    <3>1. ASSUME NEW i \in 0..nChunks
          PROVE  (IF i = 0 THEN start ELSE IF i = nChunks THEN end ELSE O(i)) \in start..end
      <4>1. CASE i = 0 \/ i = nChunks
        BY <1>2, <4>1
      <4>2. CASE i # 0 /\ i # nChunks
        <5>1. i \in 0..nChunks - 1
          BY <2>2, <4>2
        <5> QED
          BY <1>2, <2>4, <4>2, <5>1
      <4> QED
        BY <4>1, <4>2
    <3> QED
      BY <2>2, <2>6, <3>1
  <2>9. Geometry
    BY <2>2, <2>7, <2>8 DEF Geometry
  <2> QED
    BY <1>2, <1>3, <1>5, <2>3, <2>9
<1> QED
  BY <1>2, <1>6, <1>7

-----------------------------------------------------------------------------
(* Facts about the states, and what an action leaves alone. *)

LEMMA Facts ==
  ASSUME PInv
  PROVE  /\ ObjSize \in Nat /\ OutBuffers \in Nat \ {0} /\ None \notin Buffers
         /\ nChunks \in Nat /\ idx \in Nat /\ di \in Nat /\ di <= nChunks
         /\ start \in Nat /\ end \in Nat /\ start <= end
         /\ Len(out) \in Nat /\ out \in Seq(Buffers) /\ Len(out) <= di
         /\ Consumed \in Nat /\ Consumed <= nChunks /\ Consumed = di - Len(out)
         /\ Received \in Nat /\ di <= Received /\ Received <= nChunks /\ Received <= idx
         /\ \A i \in 0..nChunks : Bounds[i] \in Nat /\ start <= Bounds[i] /\ Bounds[i] <= end
         /\ Bounds[0] = start /\ Bounds[nChunks] = end
         /\ \A i \in Indices : /\ i \in Nat /\ i < nChunks /\ i \in 0..nChunks
                               /\ i + 1 \in 0..nChunks /\ Bounds[i] < Bounds[i + 1]
         /\ \A i \in Nat : i < nChunks => i \in Indices
<1>1. ObjSize \in Nat /\ OutBuffers \in Nat \ {0} /\ None \notin Buffers
  BY ReaderAssumption
<1>2. /\ start \in 0..ObjSize /\ end \in start..ObjSize /\ nChunks \in 0..ObjSize
      /\ di \in 0..nChunks /\ out \in Seq(Buffers) /\ idx \in 0..nChunks + Cardinality(Workers)
  BY DEF PInv, TypeOK
<1>3. start \in Nat /\ end \in Nat /\ start <= end /\ nChunks \in Nat /\ di \in Nat /\ di <= nChunks
      /\ Len(out) \in Nat
  BY <1>1, <1>2
<1>4. idx \in Nat
  <2>1. Cardinality(Workers) \in Nat
    BY ReaderAssumption, FS_CardinalityType
  <2> QED
    BY <1>2, <1>3, <2>1
<1>5. Len(out) <= di /\ Received <= nChunks /\ Received <= idx
  BY DEF PInv, ChanInv, DrainInv
<1>6. Received \in Nat /\ di <= Received
  BY <1>3 DEF Received
<1>7. Consumed \in Nat /\ Consumed <= nChunks /\ Consumed = di - Len(out)
  BY <1>3, <1>5 DEF Consumed
<1>8. Bounds \in [0..nChunks -> start..end] /\ Bounds[0] = start /\ Bounds[nChunks] = end
      /\ \A i \in Indices : Bounds[i] < Bounds[i + 1]
  BY DEF PInv, Geometry
<1>9. \A i \in 0..nChunks : Bounds[i] \in Nat /\ start <= Bounds[i] /\ Bounds[i] <= end
  BY <1>3, <1>8
<1>10. /\ \A i \in Indices : i \in Nat /\ i < nChunks /\ i \in 0..nChunks /\ i + 1 \in 0..nChunks
       /\ \A i \in Nat : i < nChunks => i \in Indices
  BY <1>3 DEF Indices
<1> QED
  BY <1>1, <1>2, <1>3, <1>4, <1>5, <1>6, <1>7, <1>8, <1>9, <1>10

(* A buffer that is good stays good when more goes wrong. *)
LEMMA GoodStays ==
  /\ \A b, lo, hi, tr, ts : tr \subseteq ts /\ Good(b, lo, hi, tr) => Good(b, lo, hi, ts)
  /\ \A b, lo, hi, tr, ts, s, e :
       tr \subseteq ts /\ Raw(b, lo, hi, tr, s, e) => Raw(b, lo, hi, ts, s, e)
  /\ \A b, lo, hi, tr : Good(b, lo, hi, tr) => b \in Buffers
  /\ \A b, lo, hi, tr, s, e : Raw(b, lo, hi, tr, s, e) => b \in Buffers
<1>1. \A b, lo, hi, tr, ts : tr \subseteq ts /\ Good(b, lo, hi, tr) => Good(b, lo, hi, ts)
  BY DEF Good
<1> QED
  BY <1>1 DEF Raw, Good

(* An error is a buffer for any window. *)
LEMMA ErrorFacts ==
  \A x \in {"fetch", "ctx"} :
    /\ Error(x) \in Buffers /\ Error(x).err = x /\ Error(x) # None
    /\ \A lo, hi, tr : Good(Error(x), lo, hi, tr)
    /\ \A lo, hi, tr, s, e : Raw(Error(x), lo, hi, tr, s, e)
<1>1. \A x \in {"fetch", "ctx"} : Error(x) \in Buffers /\ Error(x).err = x
  BY ReaderAssumption DEF Error, Buffers
<1>2. \A x \in {"fetch", "ctx"} : Error(x).err # "nil" /\ Error(x) # None
  BY <1>1, ReaderAssumption
<1> QED
  BY <1>1, <1>2 DEF Good, Raw

LEMMA RangeSame ==
  ASSUME UNCHANGED rangeVars
  PROVE  /\ start' = start /\ end' = end /\ nChunks' = nChunks
         /\ chunkSize' = chunkSize /\ alignedStart' = alignedStart
         /\ Bounds' = Bounds /\ Indices' = Indices
         /\ Geometry => Geometry'
<1>1. /\ start' = start /\ end' = end /\ nChunks' = nChunks
      /\ chunkSize' = chunkSize /\ alignedStart' = alignedStart
  BY DEF rangeVars
<1>2. Bounds' = Bounds /\ Indices' = Indices
  BY <1>1 DEF Bounds, Indices, Offset
<1>3. Geometry => Geometry'
  BY <1>1, <1>2 DEF Geometry, Offset, Window, Data
<1> QED
  BY <1>1, <1>2, <1>3

LEMMA IdleFacts ==
  /\ IsFiniteSet(Workers) /\ IsFiniteSet(Idle) /\ Cardinality(Idle) \in Nat
  /\ Cardinality(Workers) \in Nat /\ Cardinality(Idle) <= Cardinality(Workers)
<1>1. IsFiniteSet(Workers) /\ Idle \subseteq Workers
  BY ReaderAssumption DEF Idle
<1> QED
  BY <1>1, FS_Subset, FS_CardinalityType

(* The workers and the drainer stand still. *)
LEMMA FetchStill ==
  ASSUME PInv, UNCHANGED <<rangeVars, fetchVars, results, drainVars>>, trouble \subseteq trouble'
  PROVE  Geometry' /\ WorkInv' /\ SlotInv' /\ DrainInv' /\ CountInv'
<1>1. /\ idx' = idx /\ wpc' = wpc /\ wi' = wi /\ wbuf' = wbuf /\ results' = results
      /\ dpc' = dpc /\ di' = di /\ dbuf' = dbuf /\ closed' = closed
  BY DEF fetchVars, drainVars
<1>2. /\ start' = start /\ end' = end /\ nChunks' = nChunks /\ Bounds' = Bounds
      /\ Indices' = Indices /\ Geometry'
  BY RangeSame DEF PInv
<1>3. Busy' = Busy /\ Idle' = Idle /\ Received' = Received
  BY <1>1 DEF Busy, Idle, Received
<1>4. WorkInv' /\ SlotInv'
  BY <1>1, <1>2, <1>3, GoodStays DEF PInv, WorkInv, SlotInv
<1>5. DrainInv' /\ CountInv'
  BY <1>1, <1>2, <1>3, GoodStays DEF PInv, DrainInv, CountInv
<1> QED
  BY <1>2, <1>4, <1>5

(* The channel and the consumer stand still. *)
LEMMA ReadStill ==
  ASSUME PInv, UNCHANGED <<rangeVars, di, closed, out, ctxDone, readVars>>,
         trouble \subseteq trouble', "write" \in trouble' => "write" \in trouble
  PROVE  /\ Geometry' /\ ChanInv' /\ ReadInv' /\ BytesInOrder' /\ StatusInv'
         /\ Consumed' = Consumed /\ Broken' = Broken /\ Streaming' = Streaming
<1>1. /\ di' = di /\ closed' = closed /\ out' = out /\ ctxDone' = ctxDone /\ cpc' = cpc
      /\ cur' = cur /\ err' = err /\ status' = status /\ sent' = sent /\ sink' = sink
  BY DEF readVars
<1>2. /\ start' = start /\ end' = end /\ nChunks' = nChunks /\ Bounds' = Bounds
      /\ Indices' = Indices /\ Geometry'
  BY RangeSame DEF PInv
<1>3. Consumed' = Consumed /\ Broken' = Broken /\ Streaming' = Streaming
  BY <1>1 DEF Consumed, Broken, Streaming
<1>4. Pos' = Pos
  BY <1>1, <1>2, <1>3 DEF Pos
<1>5. ChanInv'
  BY <1>1, <1>2, <1>3, GoodStays DEF PInv, ChanInv
<1>6. ReadInv' /\ BytesInOrder'
  BY <1>1, <1>2, <1>3, <1>4 DEF PInv, ReadInv, BytesInOrder
<1>7. StatusInv'
  BY <1>1, <1>2, <1>3 DEF PInv, StatusInv
<1> QED
  BY <1>2, <1>3, <1>5, <1>6, <1>7

-----------------------------------------------------------------------------
(* The workers. *)

LEMMA FailStays ==
  ASSUME UNCHANGED <<rangeVars, results, dpc, di, dbuf, out>>,
         \A v \in Busy : wpc[v] = "send" =>
           v \in Busy' /\ wi'[v] = wi[v] /\ wpc'[v] = "send" /\ wbuf'[v] = wbuf[v],
         NEW i, FailAt(i)
  PROVE  FailAt(i)'
<1>1. Indices' = Indices /\ results' = results /\ dpc' = dpc /\ di' = di /\ dbuf' = dbuf
  BY RangeSame
<1>2. Broken' = Broken
  BY DEF Broken
<1> QED
  BY <1>1, <1>2 DEF FailAt

(* The invariants on failures, when the failures under way are still under
   way. *)
LEMMA FailuresStay ==
  ASSUME PInv, UNCHANGED <<rangeVars, ctxDone, readVars, trouble>>,
         \A i : FailAt(i) => ctxDone \/ FailAt(i)'
  PROVE  FailInv' /\ FirstInv'
<1>1. trouble' = trouble /\ ctxDone' = ctxDone /\ cpc' = cpc /\ status' = status
      /\ Indices' = Indices /\ Streaming' = Streaming
  BY RangeSame DEF readVars, Streaming
<1>2. ASSUME "fetch" \in trouble, "cancel" \notin trouble, Streaming
      PROVE  \E i \in Indices : FailAt(i)'
  <2>1. ~ctxDone
    BY <1>2 DEF PInv, ReadInv
  <2>2. PICK i \in Indices : FailAt(i)
    BY <1>2 DEF PInv, FailInv
  <2> QED
    BY <2>1, <2>2
<1>3. FailInv'
  BY <1>1, <1>2 DEF FailInv
<1>4. FirstInv'
  BY <1>1 DEF PInv, FirstInv
<1> QED
  BY <1>3, <1>4

LEMMA ClaimKeeps ==
  ASSUME PInv, NEW w \in Workers, Claim(w)
  PROVE  PInv'
<1> USE DEF PInv
<1>1. /\ wpc[w] = "claim" /\ idx' = idx + 1 /\ wbuf' = wbuf /\ results' = results
      /\ UNCHANGED <<rangeVars, drainVars, out, ctxDone, readVars, trouble>>
      /\ dpc' = dpc /\ di' = di /\ dbuf' = dbuf /\ closed' = closed /\ out' = out
      /\ ctxDone' = ctxDone /\ trouble' = trouble /\ sent' = sent
  BY DEF Claim, drainVars, readVars
<1>2. /\ start' = start /\ end' = end /\ nChunks' = nChunks /\ Bounds' = Bounds /\ Indices' = Indices
      /\ Received' = Received
  BY <1>1, RangeSame DEF Received
<1>3. Geometry' /\ ChanInv' /\ ReadInv' /\ BytesInOrder' /\ StatusInv'
  BY <1>1, ReadStill
<1>4. w \notin Busy /\ w \notin Idle
  BY <1>1 DEF Busy, Idle
<1>5. EofInv'
  BY <1>1, <1>2 DEF EofInv, readVars, Streaming
<1>6. \A v \in Busy : v # w /\ wpc'[v] = wpc[v] /\ wi'[v] = wi[v] /\ v \in Busy'
  BY <1>1, <1>4 DEF Claim, Busy, TypeOK
<1>7. FailInv' /\ FirstInv'
  <2>1. \A i : FailAt(i) => FailAt(i)'
    BY <1>1, <1>6, FailStays DEF drainVars
  <2> QED
    BY <1>1, <2>1, FailuresStay
<1>8. /\ idx \in Nat /\ nChunks \in Nat /\ Received <= idx /\ Received \in Nat
      /\ (\A i \in Nat : i < nChunks => i \in Indices) /\ \A i \in Indices : i \in Nat /\ i < nChunks
  BY Facts
<1>9. SlotInv' /\ DrainInv'
  BY <1>1, <1>2, <1>8 DEF SlotInv, DrainInv
<1>10. CASE idx >= nChunks
  <2>1. wpc' = [wpc EXCEPT ![w] = "done"] /\ wi' = wi
    BY <1>10 DEF Claim
  <2>2. Busy' = Busy /\ Idle' = Idle \cup {w}
    BY <1>1, <2>1 DEF Busy, Idle, TypeOK
  <2>3. WorkInv'
    BY <1>1, <1>2, <1>6, <1>8, <2>1, <2>2 DEF WorkInv
  <2>4. CountInv'
    <3>1. Cardinality(Idle \cup {w}) = Cardinality(Idle) + 1 /\ Cardinality(Idle) \in Nat
      BY <1>4, IdleFacts, FS_AddElement
    <3>2. Cardinality(Idle') = Cardinality(Idle) + 1
      BY <2>2, <3>1
    <3> QED
      BY <1>1, <1>2, <1>8, <3>1, <3>2 DEF CountInv
  <2>5. idx' <= nChunks + Cardinality(Workers)
    <3>1. Idle' \subseteq Workers /\ Cardinality(Idle') <= Cardinality(Workers)
          /\ Cardinality(Idle') \in Nat /\ Cardinality(Workers) \in Nat
      <4>1. IsFiniteSet(Workers) /\ Idle' \subseteq Workers
        BY ReaderAssumption DEF Idle
      <4> QED
        BY <4>1, FS_Subset, FS_CardinalityType
    <3> QED
      BY <1>1, <1>2, <1>8, <2>4, <3>1 DEF CountInv
  <2>6. TypeOK'
    <3>1. idx' \in 0..nChunks' + Cardinality(Workers)
      BY <1>1, <1>2, <1>8, <2>5, IdleFacts
    <3> QED
      BY <1>1, <1>2, <2>1, <3>1 DEF TypeOK, rangeVars, readVars
  <2> QED
    BY <1>1, <1>3, <1>5, <1>7, <1>9, <2>3, <2>4, <2>6
<1>11. CASE idx < nChunks
  <2>1. wpc' = [wpc EXCEPT ![w] = "check"] /\ wi' = [wi EXCEPT ![w] = idx]
    BY <1>8, <1>11 DEF Claim
  <2>2. Busy' = Busy \cup {w} /\ Idle' = Idle
    BY <1>1, <2>1 DEF Busy, Idle, TypeOK
  <2>3. idx \in Indices /\ results[idx] = None /\ wi'[w] = idx /\ wpc'[w] = "check" /\ ~ (idx < idx)
        /\ idx < idx' /\ \A i \in Nat : i < idx => i < idx' /\ i # idx
    BY <1>1, <1>8, <1>11, <2>1 DEF SlotInv, TypeOK
  <2>4. \A v \in Busy : wi[v] # idx /\ wi[v] < idx'
    BY <1>1, <1>8, <2>3 DEF WorkInv
  <2>5. WorkInv'
    <3>1. ASSUME NEW v \in Busy
          PROVE  /\ wi'[v] \in Indices /\ wi'[v] < idx' /\ Received <= wi'[v] /\ results[wi'[v]] = None
                 /\ wpc'[v] = "send" =>
                      Raw(wbuf[v], Bounds[wi'[v]], Bounds[wi'[v] + 1], trouble, start, end)
                 /\ \A u \in Busy : wi'[u] = wi'[v] => u = v
      BY <1>6, <2>4 DEF WorkInv
    <3>2. /\ wi'[w] \in Indices /\ wi'[w] < idx' /\ Received <= wi'[w] /\ results[wi'[w]] = None
          /\ wpc'[w] # "send"
      BY <1>8, <2>3
    <3>3. \A v \in Busy : wi'[v] # wi'[w]
      BY <1>6, <2>3, <2>4
    <3> QED
      BY <1>1, <1>2, <2>2, <3>1, <3>2, <3>3 DEF WorkInv
  <2>6. CountInv'
    <3>1. Cardinality(Idle) \in Nat /\ idx + 1 <= nChunks
      BY <1>8, <1>11, IdleFacts
    <3> QED
      BY <1>1, <1>2, <1>8, <2>2, <3>1 DEF CountInv
  <2>7. TypeOK'
    <3>1. idx' \in 0..nChunks' + Cardinality(Workers)
      BY <1>1, <1>2, <1>8, <1>11, IdleFacts
    <3> QED
      BY <1>1, <1>2, <2>1, <2>3, <3>1 DEF TypeOK, rangeVars, readVars
  <2> QED
    BY <1>1, <1>3, <1>5, <1>7, <1>9, <2>5, <2>6, <2>7
<1> QED
  BY <1>8, <1>10, <1>11

(* A worker on a window moves on without claiming another. *)
LEMMA WorkerFacts ==
  ASSUME PInv, NEW w \in Workers, w \in Busy
  PROVE  /\ wi[w] \in Indices /\ wi[w] \in Nat /\ wi[w] < nChunks /\ wi[w] < idx
         /\ Received <= wi[w] /\ di <= wi[w] /\ results[wi[w]] = None
         /\ \A v \in Busy : v # w => wi[v] # wi[w]
         /\ wpc[w] = "send" =>
              Raw(wbuf[w], Bounds[wi[w]], Bounds[wi[w] + 1], trouble, start, end)
         /\ ~ (err = "EOF" /\ trouble \cap {"cancel", "short"} = {})
<1>1. /\ wi[w] \in Indices /\ wi[w] < idx /\ Received <= wi[w] /\ results[wi[w]] = None
      /\ \A v \in Busy : wi[v] = wi[w] => v = w
      /\ wpc[w] = "send" =>
              Raw(wbuf[w], Bounds[wi[w]], Bounds[wi[w] + 1], trouble, start, end)
  BY DEF PInv, WorkInv
<1>2. wi[w] \in Nat /\ wi[w] < nChunks /\ nChunks \in Nat /\ di \in Nat /\ Received \in Nat
      /\ di <= Received
  BY <1>1, Facts
<1>3. ~ (err = "EOF" /\ trouble \cap {"cancel", "short"} = {})
  BY <1>1, <1>2 DEF PInv, EofInv
<1> QED
  BY <1>1, <1>2, <1>3

LEMMA CheckCtxKeeps ==
  ASSUME PInv, NEW w \in Workers, CheckCtx(w)
  PROVE  PInv'
<1> USE DEF PInv
<1>1. /\ wpc[w] = "check" /\ idx' = idx /\ wi' = wi /\ wbuf' = wbuf
      /\ UNCHANGED <<rangeVars, drainVars, out, ctxDone, readVars, trouble>>
      /\ dpc' = dpc /\ di' = di /\ dbuf' = dbuf /\ closed' = closed /\ out' = out
      /\ ctxDone' = ctxDone /\ trouble' = trouble /\ sent' = sent
  BY DEF CheckCtx, drainVars, readVars
<1>2. /\ start' = start /\ end' = end /\ nChunks' = nChunks /\ Bounds' = Bounds /\ Indices' = Indices
      /\ Received' = Received
  BY <1>1, RangeSame DEF Received
<1>3. Geometry' /\ ChanInv' /\ ReadInv' /\ BytesInOrder' /\ StatusInv'
  BY <1>1, ReadStill
<1>4. w \in Busy
  BY <1>1 DEF Busy
<1>5. EofInv'
  BY <1>1, <1>2 DEF EofInv, readVars, Streaming
<1>6. DrainInv'
  BY <1>1, <1>2 DEF DrainInv
<1>7. PICK i \in Indices : /\ i = wi[w] /\ i < idx /\ Received <= i /\ results[i] = None
                           /\ \A v \in Busy : v # w => wi[v] # i
  BY <1>4, WorkerFacts
<1>8. CASE ctxDone
  <2>1. wpc' = [wpc EXCEPT ![w] = "done"] /\ results' = [results EXCEPT ![i] = Error("ctx")]
    BY <1>7, <1>8 DEF CheckCtx, TypeOK
  <2>2. Busy' = Busy \ {w} /\ Idle' = Idle \cup {w} /\ w \notin Idle
        /\ \A v \in Busy' : wpc'[v] = wpc[v]
    BY <1>1, <2>1 DEF Busy, Idle, TypeOK
  <2>3. /\ results'[i] = Error("ctx") /\ \A j \in Indices : j # i => results'[j] = results[j]
    BY <2>1 DEF TypeOK
  <2>4. WorkInv'
    BY <1>1, <1>2, <1>7, <2>2, <2>3 DEF WorkInv
  <2>5. SlotInv'
    BY <1>1, <1>2, <1>7, <2>3, ErrorFacts DEF SlotInv
  <2>6. CountInv'
    <3>1. Cardinality(Idle \cup {w}) = Cardinality(Idle) + 1 /\ Cardinality(Idle) \in Nat
      BY <2>2, IdleFacts, FS_AddElement
    <3>2. Cardinality(Idle') = Cardinality(Idle) + 1
      BY <2>2, <3>1
    <3>3. idx \in Nat /\ nChunks \in Nat
      BY Facts
    <3> QED
      BY <1>1, <1>2, <3>1, <3>2, <3>3 DEF CountInv
  <2>7. FailInv' /\ FirstInv'
    BY <1>1, <1>8, FailuresStay
  <2>8. TypeOK'
    <3>1. results' \in [Indices -> Buffers \cup {None}]
      BY <2>1, ErrorFacts DEF TypeOK
    <3> QED
      BY <1>1, <1>2, <2>1, <3>1 DEF TypeOK, rangeVars, readVars
  <2> QED
    BY <1>1, <1>3, <1>5, <1>6, <2>4, <2>5, <2>6, <2>7, <2>8
<1>9. CASE ~ctxDone
  <2>1. wpc' = [wpc EXCEPT ![w] = "fetch"] /\ results' = results
    BY <1>9 DEF CheckCtx
  <2>2. Busy' = Busy /\ Idle' = Idle /\ wpc'[w] = "fetch" /\ \A v \in Busy : v # w => wpc'[v] = wpc[v]
    BY <1>1, <2>1 DEF Busy, Idle, TypeOK
  <2>3. WorkInv' /\ SlotInv'
    BY <1>1, <1>2, <2>1, <2>2 DEF WorkInv, SlotInv
  <2>4. CountInv'
    BY <1>1, <1>2, <2>2 DEF CountInv
  <2>5. \A j : FailAt(j) => FailAt(j)'
    BY <1>1, <2>1, <2>2, FailStays
  <2>6. FailInv' /\ FirstInv'
    BY <1>1, <2>5, FailuresStay
  <2>7. TypeOK'
    BY <1>1, <1>2, <2>1 DEF TypeOK, rangeVars, readVars
  <2> QED
    BY <1>1, <1>3, <1>5, <1>6, <2>3, <2>4, <2>6, <2>7
<1> QED
  BY <1>8, <1>9

LEMMA FetchedKeeps ==
  ASSUME PInv, NEW w \in Workers, NEW b, NEW t \in SUBSET {"short", "fetch", "first"},
         Fetched(w, b, t), Raw(b, Bounds[wi[w]], Bounds[wi[w] + 1], trouble \cup t, start, end),
         "fetch" \in t => b.err # "nil",
         "first" \in t => "fetch" \in t /\ wi[w] = 0
  PROVE  PInv'
<1> USE DEF PInv
<1>1. /\ wpc[w] = "fetch" /\ idx' = idx /\ wi' = wi /\ results' = results
      /\ wbuf' = [wbuf EXCEPT ![w] = b] /\ wpc' = [wpc EXCEPT ![w] = "send"]
      /\ trouble' = trouble \cup t /\ trouble \subseteq trouble'
      /\ UNCHANGED <<rangeVars, drainVars, out, ctxDone, readVars>>
      /\ dpc' = dpc /\ di' = di /\ dbuf' = dbuf /\ closed' = closed /\ out' = out
      /\ ctxDone' = ctxDone /\ sent' = sent /\ cpc' = cpc /\ status' = status /\ err' = err
  BY DEF Fetched, drainVars, readVars
<1>2. /\ start' = start /\ end' = end /\ nChunks' = nChunks /\ Bounds' = Bounds /\ Indices' = Indices
      /\ Received' = Received
  BY <1>1, RangeSame DEF Received
<1>3. /\ Geometry' /\ ChanInv' /\ ReadInv' /\ BytesInOrder' /\ StatusInv'
      /\ Streaming' = Streaming
  BY <1>1, ReadStill
<1>4. w \in Busy /\ b \in Buffers
  BY <1>1, GoodStays DEF Busy
<1>5. /\ wi[w] \in Indices /\ wi[w] \in Nat /\ wi[w] < nChunks /\ nChunks \in Nat /\ di \in Nat
      /\ di <= wi[w] /\ ~ (err = "EOF" /\ trouble \cap {"cancel", "short"} = {})
  BY <1>4, WorkerFacts, Facts
<1>6. EofInv'
  BY <1>1, <1>2, <1>3, <1>5 DEF EofInv
<1>7. /\ Busy' = Busy /\ Idle' = Idle /\ wpc'[w] = "send" /\ wbuf'[w] = b
      /\ \A v \in Busy : v # w => wpc'[v] = wpc[v] /\ wbuf'[v] = wbuf[v]
  BY <1>1 DEF Busy, Idle, TypeOK
<1>8. WorkInv'
  BY <1>1, <1>2, <1>7, GoodStays DEF WorkInv
<1>9. SlotInv' /\ DrainInv' /\ CountInv'
  BY <1>1, <1>2, <1>7, GoodStays DEF SlotInv, DrainInv, CountInv
<1>10. \A j : FailAt(j) => FailAt(j)'
  BY <1>1, <1>7, FailStays
<1>11. "fetch" \in t => FailAt(wi[w])'
  BY <1>1, <1>2, <1>4, <1>5, <1>7 DEF FailAt
<1>12. FailInv'
  BY <1>1, <1>2, <1>3, <1>5, <1>10, <1>11 DEF FailInv
<1>13. FirstInv'
  <2>1. CASE "first" \in t
    <3>1. "fetch" \in trouble' /\ FailAt(0)'
      BY <1>1, <1>11, <2>1
    <3>2. ~ctxDone => status # "ok"
      BY <1>5, <2>1 DEF StatusInv
    <3> QED
      BY <1>1, <3>1, <3>2 DEF FirstInv
  <2>2. CASE "first" \notin t
    BY <1>1, <1>10, <2>2 DEF FirstInv
  <2> QED
    BY <2>1, <2>2
<1>14. TypeOK'
  BY <1>1, <1>2, <1>4 DEF TypeOK, rangeVars, readVars
<1> QED
  BY <1>1, <1>3, <1>6, <1>8, <1>9, <1>12, <1>13, <1>14

(* What a fetch may return is good for its window. *)
LEMMA FetchKeeps ==
  ASSUME PInv, NEW w \in Workers, Fetch(w) \/ FetchShort(w) \/ FetchFails(w)
  PROVE  PInv'
<1>1. w \in Busy
  BY DEF Fetch, FetchShort, FetchFails, Fetched, Busy
<1>2. PICK i \in Indices : i = wi[w]
  BY <1>1, WorkerFacts
<1>3. /\ Offset(i) \in 0..ObjSize /\ Window(i).hi \in Offset(i)..ObjSize
      /\ Larger(Offset(i), start) = Bounds[i] /\ Smaller(Window(i).hi, end) = Bounds[i + 1]
  BY DEF PInv, Geometry
<1>4. /\ ObjSize \in Nat /\ Bounds[i] \in Nat /\ Bounds[i + 1] \in Nat /\ Bounds[i] < Bounds[i + 1]
      /\ start \in Nat /\ end \in Nat /\ Bounds[i + 1] <= end /\ end <= ObjSize
  <2>1. /\ ObjSize \in Nat /\ start \in Nat /\ end \in Nat /\ Bounds[i] < Bounds[i + 1]
        /\ i \in 0..nChunks /\ i + 1 \in 0..nChunks
        /\ \A j \in 0..nChunks : Bounds[j] \in Nat /\ Bounds[j] <= end
    BY Facts
  <2>2. end \in start..ObjSize
    BY DEF PInv, TypeOK
  <2> QED
    BY <2>1, <2>2
<1>5. ASSUME NEW hi \in Offset(i)..Window(i).hi, NEW tr,
             hi # Window(i).hi => "short" \in tr
      PROVE  Raw(Data(Offset(i), hi), Bounds[i], Bounds[i + 1], tr, start, end)
  <2> DEFINE b == Data(Offset(i), hi)
  <2>1. b \in Buffers /\ b.lo = Offset(i) /\ b.hi = hi /\ hi \in Nat /\ Offset(i) \in Nat
        /\ Window(i).hi \in Nat /\ hi <= Window(i).hi
    BY <1>3, <1>4 DEF Data, Buffers
  <2> HIDE DEF b
  <2>2. Cut(b, start, end) = IF Smaller(hi, end) <= Bounds[i] THEN Data(Bounds[i], Bounds[i])
                             ELSE Data(Bounds[i], Smaller(hi, end))
    BY <1>3, <2>1 DEF Cut
  <2>3. Smaller(hi, end) \in Nat /\ Smaller(hi, end) <= Bounds[i + 1]
        /\ (hi = Window(i).hi => Smaller(hi, end) = Bounds[i + 1])
    BY <1>3, <1>4, <2>1 DEF Smaller
  <2>4. PICK x \in Nat : /\ Cut(b, start, end) = Data(Bounds[i], x)
                         /\ Bounds[i] <= x /\ x <= Bounds[i + 1]
                         /\ (hi = Window(i).hi => x = Bounds[i + 1])
    <3>1. CASE Smaller(hi, end) <= Bounds[i]
      BY <1>4, <2>2, <2>3, <3>1
    <3>2. CASE ~ (Smaller(hi, end) <= Bounds[i])
      BY <1>4, <2>2, <2>3, <3>2
    <3> QED
      BY <3>1, <3>2
  <2>5. Good(Data(Bounds[i], x), Bounds[i], Bounds[i + 1], tr)
    <3>1. Bounds[i] \in 0..ObjSize /\ x \in 0..ObjSize
      BY <1>4, <2>4
    <3> QED
      BY <1>5, <2>4, <3>1 DEF Good, Data, Buffers
  <2> QED
    BY <2>1, <2>4, <2>5 DEF Raw, b
<1>6. CASE Fetch(w)
  <2>1. Window(i) = Data(Offset(i), Window(i).hi)
    BY DEF Window, Data
  <2>2. Window(i).hi \in Offset(i)..Window(i).hi
    BY <1>3, <1>4
  <2>3. Raw(Window(i), Bounds[i], Bounds[i + 1], trouble \cup {}, start, end)
    BY <1>5, <2>1, <2>2
  <2>4. Fetched(w, Window(i), {})
    BY <1>2, <1>6 DEF Fetch
  <2> QED
    BY <1>2, <2>3, <2>4, FetchedKeeps
<1>7. CASE FetchShort(w)
  <2>1. PICK hi \in Offset(i)..Window(i).hi - 1 : Fetched(w, Data(Offset(i), hi), {"short"})
    BY <1>2, <1>7 DEF FetchShort
  <2>2. hi \in Offset(i)..Window(i).hi
    BY <1>3, <1>4
  <2>3. Raw(Data(Offset(i), hi), Bounds[i], Bounds[i + 1], trouble \cup {"short"}, start, end)
    BY <1>5, <2>2
  <2> QED
    BY <1>2, <2>1, <2>3, FetchedKeeps
<1>8. CASE FetchFails(w)
  <2> DEFINE t == IF wi[w] = 0 THEN {"fetch", "first"} ELSE {"fetch"}
  <2>1. t \in SUBSET {"short", "fetch", "first"} /\ ("first" \in t => wi[w] = 0) /\ "fetch" \in t
    OBVIOUS
  <2>2. Fetched(w, Error("fetch"), t)
    BY <1>8 DEF FetchFails
  <2> HIDE DEF t
  <2>3. Raw(Error("fetch"), Bounds[wi[w]], Bounds[wi[w] + 1], trouble \cup t, start, end)
        /\ Error("fetch").err # "nil"
    BY ErrorFacts
  <2> QED
    BY <2>1, <2>2, <2>3, FetchedKeeps
<1> QED
  BY <1>6, <1>7, <1>8

LEMMA PublishKeeps ==
  ASSUME PInv, NEW w \in Workers, Publish(w)
  PROVE  PInv'
<1> USE DEF PInv
<1>1. /\ wpc[w] = "send" /\ idx' = idx /\ wi' = wi
      /\ wbuf' = [wbuf EXCEPT ![w] = None] /\ wpc' = [wpc EXCEPT ![w] = "claim"]
      /\ UNCHANGED <<rangeVars, drainVars, out, ctxDone, readVars, trouble>>
      /\ dpc' = dpc /\ di' = di /\ dbuf' = dbuf /\ closed' = closed /\ out' = out
      /\ ctxDone' = ctxDone /\ trouble' = trouble /\ sent' = sent
  BY DEF Publish, drainVars, readVars
<1>2. /\ start' = start /\ end' = end /\ nChunks' = nChunks /\ Bounds' = Bounds /\ Indices' = Indices
      /\ Received' = Received
  BY <1>1, RangeSame DEF Received
<1>3. Geometry' /\ ChanInv' /\ ReadInv' /\ BytesInOrder' /\ StatusInv'
  BY <1>1, ReadStill
<1>4. w \in Busy
  BY <1>1 DEF Busy
<1>5. EofInv'
  BY <1>1, <1>2 DEF EofInv, readVars, Streaming
<1>6. DrainInv'
  BY <1>1, <1>2 DEF DrainInv
<1>7. PICK i \in Indices : /\ i = wi[w] /\ i < idx /\ Received <= i /\ results[i] = None
                           /\ (\A v \in Busy : v # w => wi[v] # i)
                           /\ Raw(wbuf[w], Bounds[i], Bounds[i + 1], trouble, start, end)
  BY <1>1, <1>4, WorkerFacts
<1>8. results' = [results EXCEPT ![i] = wbuf[w]] /\ wbuf[w] \in Buffers /\ wbuf[w] # None
  BY <1>7, GoodStays, ReaderAssumption DEF Publish
<1>9. /\ Busy' = Busy \ {w} /\ Idle' = Idle
      /\ \A v \in Busy' : wpc'[v] = wpc[v] /\ wbuf'[v] = wbuf[v]
  BY <1>1 DEF Busy, Idle, TypeOK
<1>10. /\ results'[i] = wbuf[w] /\ \A j \in Indices : j # i => results'[j] = results[j]
  BY <1>8 DEF TypeOK
<1>11. WorkInv'
  BY <1>1, <1>2, <1>7, <1>9, <1>10 DEF WorkInv
<1>12. SlotInv'
  BY <1>1, <1>2, <1>7, <1>10 DEF SlotInv
<1>13. CountInv'
  BY <1>1, <1>2, <1>9 DEF CountInv
<1>14. ASSUME NEW j, FailAt(j) PROVE FailAt(j)'
  <2>1. Broken' = Broken
    BY <1>1 DEF Broken
  <2>2. CASE \E v \in Busy : wi[v] = j /\ wpc[v] = "send" /\ wbuf[v].err # "nil"
    <3>1. PICK v \in Busy : wi[v] = j /\ wpc[v] = "send" /\ wbuf[v].err # "nil"
      BY <2>2
    <3>2. CASE v = w
      BY <1>2, <1>7, <1>8, <1>10, <3>1, <3>2 DEF FailAt
    <3>3. CASE v # w
      BY <1>1, <1>2, <1>9, <1>14, <3>1, <3>3 DEF FailAt
    <3> QED
      BY <3>2, <3>3
  <2>3. CASE results[j] # None /\ results[j].err # "nil"
    BY <1>2, <1>7, <1>10, <1>14, <2>3 DEF FailAt
  <2>4. CASE dpc = "deliver" /\ di = j /\ dbuf.err # "nil"
    BY <1>1, <1>2, <1>14, <2>4 DEF FailAt
  <2>5. CASE di = j + 1 /\ Broken
    BY <1>1, <1>2, <1>14, <2>1, <2>5 DEF FailAt
  <2>6. \/ \E v \in Busy : wi[v] = j /\ wpc[v] = "send" /\ wbuf[v].err # "nil"
        \/ results[j] # None /\ results[j].err # "nil"
        \/ dpc = "deliver" /\ di = j /\ dbuf.err # "nil"
        \/ di = j + 1 /\ Broken
    BY <1>14 DEF FailAt
  <2> QED
    BY <2>2, <2>3, <2>4, <2>5, <2>6
<1>15. FailInv' /\ FirstInv'
  BY <1>1, <1>14, FailuresStay
<1>16. TypeOK'
  <2>1. results' \in [Indices -> Buffers \cup {None}]
    BY <1>8 DEF TypeOK
  <2> QED
    BY <1>1, <1>2, <2>1 DEF TypeOK, rangeVars, readVars
<1> QED
  BY <1>1, <1>3, <1>5, <1>6, <1>11, <1>12, <1>13, <1>15, <1>16

LEMMA AbandonKeeps ==
  ASSUME PInv, NEW w \in Workers, Abandon(w)
  PROVE  PInv'
<1> USE DEF PInv
<1>1. /\ wpc[w] = "send" /\ ctxDone /\ idx' = idx /\ wi' = wi /\ results' = results
      /\ wbuf' = [wbuf EXCEPT ![w] = None] /\ wpc' = [wpc EXCEPT ![w] = "done"]
      /\ UNCHANGED <<rangeVars, drainVars, out, ctxDone, readVars, trouble>>
      /\ dpc' = dpc /\ di' = di /\ dbuf' = dbuf /\ closed' = closed /\ out' = out
      /\ ctxDone' = ctxDone /\ trouble' = trouble /\ sent' = sent
  BY DEF Abandon, drainVars, readVars
<1>2. /\ start' = start /\ end' = end /\ nChunks' = nChunks /\ Bounds' = Bounds /\ Indices' = Indices
      /\ Received' = Received
  BY <1>1, RangeSame DEF Received
<1>3. Geometry' /\ ChanInv' /\ ReadInv' /\ BytesInOrder' /\ StatusInv'
  BY <1>1, ReadStill
<1>4. EofInv'
  BY <1>1, <1>2 DEF EofInv, readVars, Streaming
<1>5. DrainInv' /\ SlotInv'
  BY <1>1, <1>2 DEF DrainInv, SlotInv
<1>6. /\ Busy' = Busy \ {w} /\ Idle' = Idle \cup {w} /\ w \notin Idle
      /\ \A v \in Busy' : wpc'[v] = wpc[v] /\ wbuf'[v] = wbuf[v]
  BY <1>1 DEF Busy, Idle, TypeOK
<1>7. WorkInv'
  BY <1>1, <1>2, <1>6 DEF WorkInv
<1>8. CountInv'
  <2>1. Cardinality(Idle \cup {w}) = Cardinality(Idle) + 1 /\ Cardinality(Idle) \in Nat
    BY <1>6, IdleFacts, FS_AddElement
  <2>2. Cardinality(Idle') = Cardinality(Idle) + 1
    BY <1>6, <2>1
  <2>3. idx \in Nat /\ nChunks \in Nat
    BY Facts
  <2> QED
    BY <1>1, <1>2, <2>1, <2>2, <2>3 DEF CountInv
<1>9. FailInv' /\ FirstInv'
  BY <1>1, FailuresStay
<1>10. TypeOK'
  BY <1>1, <1>2 DEF TypeOK, rangeVars, readVars
<1> QED
  BY <1>1, <1>3, <1>4, <1>5, <1>7, <1>8, <1>9, <1>10

-----------------------------------------------------------------------------
(* The drainer. *)

LEMMA DrainRecvKeeps ==
  ASSUME PInv, DrainRecv
  PROVE  PInv'
<1> USE DEF PInv
<1>1. /\ dpc = "recv" /\ results[di] # None /\ dpc' = "deliver"
      /\ dbuf' = (IF results[di].err # "nil" THEN results[di] ELSE Trim(results[di]))
      /\ UNCHANGED <<rangeVars, fetchVars, di, closed, out, ctxDone, readVars, trouble>>
      /\ idx' = idx /\ wpc' = wpc /\ wi' = wi /\ wbuf' = wbuf /\ di' = di /\ closed' = closed
      /\ out' = out /\ ctxDone' = ctxDone /\ trouble' = trouble /\ sent' = sent /\ err' = err
  BY DEF DrainRecv, fetchVars, readVars
<1>2. /\ start' = start /\ end' = end /\ nChunks' = nChunks /\ Bounds' = Bounds /\ Indices' = Indices
      /\ Busy' = Busy /\ Idle' = Idle /\ Received = di /\ Received' = di + 1
  BY <1>1, RangeSame DEF Received, Busy, Idle
<1>3. Geometry' /\ ChanInv' /\ ReadInv' /\ BytesInOrder' /\ StatusInv' /\ Broken' = Broken
  BY <1>1, ReadStill
<1>4. di < nChunks /\ ~closed
  BY <1>1 DEF DrainInv
<1>5. /\ di \in Nat /\ nChunks \in Nat /\ idx \in Nat /\ di \in Indices
      /\ \A j \in Indices : j \in Nat
  BY <1>4, Facts
<1>6. PICK i \in Indices : i = di
  BY <1>5
<1>7. i < idx /\ Raw(results[i], Bounds[i], Bounds[i + 1], trouble, start, end) /\ results[i] \in Buffers
  BY <1>1, <1>6, GoodStays DEF SlotInv
<1>8. results' = [results EXCEPT ![i] = None] /\ results'[i] = None
      /\ \A j \in Indices : j # i => results'[j] = results[j]
  BY <1>6 DEF DrainRecv, TypeOK
<1>9. Good(dbuf', Bounds[i], Bounds[i + 1], trouble)
  <2>1. CASE results[i].err # "nil"
    BY <1>1, <1>6, <1>7, <2>1 DEF Good
  <2>2. CASE results[i].err = "nil"
    <3>1. Trim(results[i]) = Cut(results[i], start, end)
      BY DEF Trim, Cut
    <3> QED
      BY <1>1, <1>6, <1>7, <2>2, <3>1 DEF Raw
  <2> QED
    BY <2>1, <2>2
<1>10. DrainInv'
  BY <1>1, <1>2, <1>4, <1>5, <1>6, <1>7, <1>9 DEF DrainInv
<1>11. WorkInv'
  <2>1. \A v \in Busy : wi[v] \in Indices /\ wi[v] # i /\ di + 1 <= wi[v]
    <3> SUFFICES ASSUME NEW v \in Busy
                 PROVE  wi[v] \in Indices /\ wi[v] # i /\ di + 1 <= wi[v]
      OBVIOUS
    <3>1. wi[v] \in Indices /\ di <= wi[v] /\ results[wi[v]] = None
      BY <1>2 DEF WorkInv
    <3>2. wi[v] # di
      BY <1>1, <3>1
    <3>3. wi[v] \in Nat
      BY <1>5, <3>1
    <3>4. di + 1 <= wi[v]
      BY <1>5, <3>1, <3>2, <3>3
    <3> QED
      BY <1>6, <3>1, <3>2, <3>4
  <2> QED
    BY <1>1, <1>2, <1>8, <2>1 DEF WorkInv
<1>12. SlotInv'
  <2>1. ASSUME NEW j \in Indices, results'[j] # None
        PROVE  /\ j < idx /\ di + 1 <= j
               /\ Raw(results'[j], Bounds[j], Bounds[j + 1], trouble, start, end)
    <3>1. j # i /\ results'[j] = results[j]
      BY <1>8, <2>1
    <3>2. j < idx /\ di <= j /\ Raw(results[j], Bounds[j], Bounds[j + 1], trouble, start, end)
      BY <1>2, <2>1, <3>1 DEF SlotInv
    <3>3. j \in Nat /\ j # di
      BY <1>5, <1>6, <3>1
    <3>4. di + 1 <= j
      BY <1>5, <3>2, <3>3
    <3> QED
      BY <3>1, <3>2, <3>4
  <2> QED
    BY <1>1, <1>2, <2>1 DEF SlotInv
<1>13. CountInv' /\ EofInv'
  BY <1>1, <1>2, <1>4, <1>5 DEF CountInv, EofInv, Streaming, readVars
<1>14. ASSUME NEW j, FailAt(j) PROVE FailAt(j)'
  <2>1. CASE \E v \in Busy : wi[v] = j /\ wpc[v] = "send" /\ wbuf[v].err # "nil"
    BY <1>1, <1>2, <1>14, <2>1 DEF FailAt
  <2>2. CASE results[j] # None /\ results[j].err # "nil"
    <3>1. CASE j = i
      BY <1>1, <1>2, <1>6, <2>2, <3>1 DEF FailAt
    <3>2. CASE j # i
      BY <1>2, <1>8, <1>14, <2>2, <3>2 DEF FailAt
    <3> QED
      BY <3>1, <3>2
  <2>3. CASE di = j + 1 /\ Broken
    BY <1>1, <1>2, <1>3, <1>14, <2>3 DEF FailAt
  <2>4. \/ \E v \in Busy : wi[v] = j /\ wpc[v] = "send" /\ wbuf[v].err # "nil"
        \/ results[j] # None /\ results[j].err # "nil"
        \/ di = j + 1 /\ Broken
    BY <1>1, <1>14 DEF FailAt
  <2> QED
    BY <2>1, <2>2, <2>3, <2>4
<1>15. FailInv' /\ FirstInv'
  BY <1>1, <1>14, FailuresStay
<1>16. TypeOK'
  <2>1. results' \in [Indices -> Buffers \cup {None}] /\ dbuf' \in Buffers
    BY <1>8, <1>9, GoodStays DEF TypeOK
  <2> QED
    BY <1>1, <1>2, <2>1 DEF TypeOK, rangeVars, readVars
<1> QED
  BY <1>1, <1>3, <1>10, <1>11, <1>12, <1>13, <1>15, <1>16

LEMMA DeliverKeeps ==
  ASSUME PInv, Deliver
  PROVE  PInv'
<1> USE DEF PInv
<1> DEFINE L == Len(out)
           last == dbuf.err # "nil" \/ di + 1 = nChunks
<1>1. /\ dpc = "deliver" /\ L < OutBuffers /\ out' = Append(out, dbuf) /\ dbuf' = None
      /\ di' = di + 1 /\ dpc' = (IF last THEN "done" ELSE "recv") /\ closed' = last
      /\ UNCHANGED <<rangeVars, fetchVars, results, ctxDone, readVars, trouble>>
      /\ idx' = idx /\ wpc' = wpc /\ wi' = wi /\ wbuf' = wbuf /\ results' = results
      /\ ctxDone' = ctxDone /\ trouble' = trouble /\ sent' = sent /\ err' = err /\ cpc' = cpc
      /\ cur' = cur /\ status' = status /\ sink' = sink
  BY DEF Deliver, fetchVars, readVars
<1>2. /\ start' = start /\ end' = end /\ nChunks' = nChunks /\ Bounds' = Bounds /\ Indices' = Indices
      /\ Busy' = Busy /\ Idle' = Idle /\ Geometry' /\ Streaming' = Streaming
  BY <1>1, RangeSame DEF Busy, Idle, Streaming
<1>3. /\ di < nChunks /\ ~closed /\ Good(dbuf, Bounds[di], Bounds[di + 1], trouble)
      /\ dbuf \in Buffers
  BY <1>1, GoodStays DEF DrainInv
<1>4. /\ di \in Nat /\ nChunks \in Nat /\ idx \in Nat /\ L \in Nat /\ L <= di /\ OutBuffers \in Nat
      /\ out \in Seq(Buffers) /\ Consumed = di - L /\ Received <= idx /\ Consumed \in Nat
  BY Facts
<1>5. Received = di + 1 /\ Received' = di + 1
  BY <1>1 DEF Received
<1>6. /\ out' \in Seq(Buffers) /\ Len(out') = L + 1 /\ out'[L + 1] = dbuf
      /\ \A k \in 1..L : out'[k] = out[k]
  BY <1>1, <1>3, <1>4
<1>7. Consumed' = Consumed
  <2>1. Consumed' = di' - Len(out')
    BY DEF Consumed
  <2> QED
    BY <1>1, <1>4, <1>6, <2>1
<1>8. (last <=> Broken' \/ di' = nChunks') /\ (Broken' <=> dbuf.err # "nil")
  <2>1. out' # << >>
    BY <1>4, <1>6
  <2>2. Broken' <=> out'[L + 1].err # "nil"
    BY <1>6, <2>1 DEF Broken
  <2> QED
    BY <1>1, <1>2, <1>6, <2>2
<1>9. \A k \in 1..L : out[k].err = "nil"
  BY <1>3 DEF ChanInv
<1>10. ~Broken
  <2>1. out # << >> => L \in 1..L
    BY <1>4
  <2> QED
    BY <1>9, <2>1 DEF Broken
<1>11. DrainInv'
  <2>1. Received' <= idx' /\ Received' <= nChunks'
    BY <1>1, <1>2, <1>3, <1>4, <1>5
  <2>2. ~last => di' < nChunks'
    BY <1>1, <1>2, <1>3, <1>4
  <2> QED
    BY <1>1, <2>1, <2>2 DEF DrainInv
<1>12. WorkInv' /\ SlotInv' /\ CountInv'
  BY <1>1, <1>2, <1>5 DEF WorkInv, SlotInv, CountInv
<1>13. ChanInv'
  <2>1. ASSUME NEW k \in 1..L + 1
        PROVE  /\ Good(out'[k], Bounds[Consumed + k - 1], Bounds[Consumed + k], trouble)
               /\ out'[k].err # "nil" => k = L + 1 /\ closed'
    <3>1. CASE k \in 1..L
      BY <1>6, <1>9, <3>1 DEF ChanInv
    <3>2. CASE k = L + 1
      <4>1. Consumed + k - 1 = di /\ Consumed + k = di + 1
        BY <1>4, <3>2
      <4> QED
        BY <1>1, <1>3, <1>6, <3>2, <4>1
    <3> QED
      BY <1>4, <3>1, <3>2
  <2>2. Len(out') <= di'
    BY <1>1, <1>4, <1>6
  <2> QED
    BY <1>1, <1>2, <1>6, <1>7, <2>1, <2>2 DEF ChanInv
<1>14. Pos' = Pos
  BY <1>1, <1>2, <1>7 DEF Pos
<1>15. ReadInv' /\ BytesInOrder'
  <2>1. closed' => di' = nChunks' \/ Broken'
    BY <1>1, <1>8
  <2>2. ReadInv'
    BY <1>1, <1>2, <1>7, <1>14, <2>1 DEF ReadInv
  <2>3. BytesInOrder'
    BY <1>1, <1>2 DEF BytesInOrder
  <2> QED
    BY <2>2, <2>3
<1>16. StatusInv'
  <2>1. cpc = "prime" => di' = Len(out')
    BY <1>1, <1>6 DEF StatusInv
  <2>2. 1 <= di'
    BY <1>1, <1>4
  <2> QED
    BY <1>1, <1>2, <2>1, <2>2 DEF StatusInv
<1>17. ASSUME NEW j, FailAt(j) PROVE FailAt(j)'
  <2>1. CASE \E v \in Busy : wi[v] = j /\ wpc[v] = "send" /\ wbuf[v].err # "nil"
    BY <1>1, <1>2, <1>17, <2>1 DEF FailAt
  <2>2. CASE results[j] # None /\ results[j].err # "nil"
    BY <1>1, <1>2, <1>17, <2>2 DEF FailAt
  <2>3. CASE di = j /\ dbuf.err # "nil"
    BY <1>1, <1>2, <1>8, <1>17, <2>3 DEF FailAt
  <2>4. \/ \E v \in Busy : wi[v] = j /\ wpc[v] = "send" /\ wbuf[v].err # "nil"
        \/ results[j] # None /\ results[j].err # "nil"
        \/ di = j /\ dbuf.err # "nil"
    BY <1>10, <1>17 DEF FailAt
  <2> QED
    BY <2>1, <2>2, <2>3, <2>4
<1>18. FailInv' /\ FirstInv'
  BY <1>1, <1>17, FailuresStay
<1>19. EofInv'
  BY <1>1, <1>2, <1>4, <1>5 DEF EofInv
<1>20. TypeOK'
  <2>1. Len(out') <= OutBuffers /\ di' \in 0..nChunks
    BY <1>1, <1>3, <1>4, <1>6
  <2>2. closed' \in BOOLEAN /\ dpc' \in {"recv", "done"}
    BY <1>1
  <2> QED
    BY <1>1, <1>2, <1>6, <2>1, <2>2 DEF TypeOK, rangeVars
<1> QED
  BY <1>1, <1>2, <1>11, <1>12, <1>13, <1>15, <1>16, <1>18, <1>19, <1>20

LEMMA DrainCancelledKeeps ==
  ASSUME PInv, DrainCancelled
  PROVE  PInv'
<1> USE DEF PInv
<1>1. /\ dpc \in {"recv", "deliver"} /\ ctxDone /\ dpc' = "done" /\ closed' = TRUE /\ dbuf' = None
      /\ UNCHANGED <<rangeVars, fetchVars, results, di, out, ctxDone, readVars, trouble>>
      /\ idx' = idx /\ wpc' = wpc /\ wi' = wi /\ wbuf' = wbuf /\ results' = results
      /\ di' = di /\ out' = out /\ ctxDone' = ctxDone /\ trouble' = trouble /\ sent' = sent
      /\ err' = err /\ cpc' = cpc /\ cur' = cur /\ status' = status /\ sink' = sink
  BY DEF DrainCancelled, fetchVars, readVars
<1>2. /\ start' = start /\ end' = end /\ nChunks' = nChunks /\ Bounds' = Bounds /\ Indices' = Indices
      /\ Busy' = Busy /\ Idle' = Idle /\ Geometry' /\ Streaming' = Streaming
  BY <1>1, RangeSame DEF Busy, Idle, Streaming
<1>3. /\ di \in Nat /\ nChunks \in Nat /\ idx \in Nat /\ di <= nChunks
      /\ Received <= idx /\ Received \in Nat /\ di <= Received /\ \A i \in Indices : i \in Nat
  BY Facts
<1>4. Received' = di /\ Consumed' = Consumed /\ Broken' = Broken
  BY <1>1 DEF Received, Consumed, Broken
<1>5. WorkInv' /\ SlotInv'
  BY <1>1, <1>2, <1>3, <1>4 DEF WorkInv, SlotInv
<1>6. DrainInv' /\ CountInv'
  BY <1>1, <1>2, <1>3, <1>4 DEF DrainInv, CountInv
<1>7. Pos' = Pos
  BY <1>1, <1>2, <1>4 DEF Pos
<1>8. ChanInv' /\ ReadInv' /\ BytesInOrder'
  BY <1>1, <1>2, <1>4, <1>7 DEF ChanInv, ReadInv, BytesInOrder
<1>9. StatusInv'
  BY <1>1, <1>2 DEF StatusInv
<1>10. FailInv' /\ FirstInv'
  BY <1>1, FailuresStay
<1>11. EofInv'
  BY <1>1, <1>2, <1>4 DEF EofInv
<1>12. TypeOK'
  BY <1>1, <1>2 DEF TypeOK, rangeVars
<1> QED
  BY <1>1, <1>2, <1>5, <1>6, <1>8, <1>9, <1>10, <1>11, <1>12

-----------------------------------------------------------------------------
(* The consumer. *)

(* A buffer is taken from the channel. *)
LEMMA TakeFacts ==
  ASSUME PInv, out # << >>, out' = Tail(out), di' = di, closed' = closed,
         UNCHANGED rangeVars, trouble' = trouble
  PROVE  /\ Len(out) \in Nat \ {0} /\ Len(out') = Len(out) - 1 /\ out' \in Seq(Buffers)
         /\ Head(out) = out[1] /\ Head(out) \in Buffers /\ Head(out) # None
         /\ Good(Head(out), Bounds[Consumed], Bounds[Consumed + 1], trouble)
         /\ Consumed' = Consumed + 1 /\ Consumed + 1 <= nChunks
         /\ ChanInv' /\ Len(out') <= OutBuffers
         /\ Head(out).err = "nil" => Broken' = Broken
<1>1. /\ out \in Seq(Buffers) /\ Len(out) \in Nat /\ Len(out) <= di /\ di \in Nat /\ nChunks \in Nat
      /\ di <= nChunks /\ Consumed = di - Len(out) /\ Consumed \in Nat
      /\ None \notin Buffers /\ OutBuffers \in Nat \ {0}
  BY Facts
<1>2. Len(out) \in Nat \ {0}
  BY <1>1, EmptySeq
<1>3. /\ out' \in Seq(Buffers) /\ Len(out') = Len(out) - 1
      /\ \A k \in 1..Len(out) - 1 : out'[k] = out[k + 1]
      /\ Head(out) = out[1] /\ Head(out) \in Buffers
  BY <1>1, <1>2
<1>4. Consumed' = Consumed + 1
  <2>1. Consumed' = di' - Len(out')
    BY DEF Consumed
  <2> QED
    BY <1>1, <1>2, <1>3, <2>1
<1>5. Consumed + 1 <= nChunks
  BY <1>1, <1>2
<1>6. 1 \in 1..Len(out) /\ Consumed + 1 - 1 = Consumed
  BY <1>1, <1>2
<1>7. Good(out[1], Bounds[Consumed], Bounds[Consumed + 1], trouble)
  BY <1>6, Zenon DEF PInv, ChanInv
<1>8. Bounds' = Bounds
  BY RangeSame
<1>9. ChanInv'
  <2>1. ASSUME NEW k \in 1..Len(out')
        PROVE  /\ Good(out'[k], Bounds[Consumed' + k - 1], Bounds[Consumed' + k], trouble)
               /\ out'[k].err # "nil" => k = Len(out') /\ closed
    <3>1. /\ k \in 1..Len(out) - 1 /\ k + 1 \in 1..Len(out)
          /\ Consumed' + k - 1 = Consumed + (k + 1) - 1 /\ Consumed' + k = Consumed + (k + 1)
          /\ (k + 1 = Len(out) => k = Len(out'))
      <4> DEFINE L == Len(out)
                 c == Consumed
      <4>1. L \in Nat \ {0} /\ c \in Nat /\ k \in 1..L - 1 /\ Len(out') = L - 1
            /\ Consumed' = c + 1
        BY <1>1, <1>2, <1>3, <1>4
      <4> HIDE DEF L, c
      <4>2. /\ k \in 1..L - 1 /\ k + 1 \in 1..L
            /\ (c + 1) + k - 1 = c + (k + 1) - 1 /\ (c + 1) + k = c + (k + 1)
            /\ (k + 1 = L => k = L - 1)
        BY <4>1
      <4> QED
        BY <4>1, <4>2 DEF L, c
    <3>2. /\ Good(out[k + 1], Bounds[Consumed + (k + 1) - 1], Bounds[Consumed + (k + 1)], trouble)
          /\ out[k + 1].err # "nil" => k + 1 = Len(out) /\ closed
      BY <3>1 DEF PInv, ChanInv
    <3> QED
      BY <1>3, <3>1, <3>2
  <2>2. Len(out') <= di'
    BY <1>1, <1>2, <1>3
  <2> QED
    BY <1>8, <2>1, <2>2 DEF ChanInv
<1>10. Head(out).err = "nil" => Broken' = Broken
  <2>1. CASE Len(out) = 1
    <3>1. out' = << >>
      BY <1>3, <2>1, EmptySeq
    <3>2. Head(out).err = "nil" => ~Broken
      BY <1>3, <2>1 DEF Broken
    <3>3. ~Broken'
      BY <3>1 DEF Broken
    <3> QED
      BY <3>2, <3>3 DEF Broken
  <2>2. CASE Len(out) # 1
    <3>1. /\ Len(out') \in 1..Len(out) - 1 /\ Len(out') + 1 = Len(out)
      BY <1>1, <1>2, <1>3, <2>2
    <3>2. out' # << >> /\ out'[Len(out')] = out[Len(out)]
      <4>1. out'[Len(out')] = out[Len(out') + 1]
        BY <1>3, <3>1
      <4>2. Len(out') # 0
        BY <1>2, <3>1
      <4> QED
        BY <3>1, <4>1, <4>2
    <3> QED
      BY <3>2 DEF Broken
  <2> QED
    BY <2>1, <2>2
<1>11. Len(out') <= OutBuffers
  <2>1. Len(out) <= OutBuffers
    BY DEF PInv, TypeOK
  <2> QED
    BY <1>1, <1>2, <1>3, <2>1
<1> QED
  BY <1>1, <1>2, <1>3, <1>4, <1>5, <1>7, <1>9, <1>10, <1>11

(* The failures under way, when the consumer takes a good buffer or none. *)
LEMMA TakeFails ==
  ASSUME UNCHANGED <<rangeVars, fetchVars, results, drainVars>>, Broken' = Broken,
         NEW i, FailAt(i)
  PROVE  FailAt(i)'
<1>1. /\ wpc' = wpc /\ wi' = wi /\ wbuf' = wbuf /\ results' = results
      /\ dpc' = dpc /\ di' = di /\ dbuf' = dbuf /\ Indices' = Indices
  BY RangeSame DEF fetchVars, drainVars
<1>2. Busy' = Busy
  BY <1>1 DEF Busy
<1> QED
  BY <1>1, <1>2 DEF FailAt

(* A good buffer becomes the one Read is draining. *)
LEMMA TakeKeeps ==
  ASSUME PInv, Streaming, cur = None, out # << >>, out' = Tail(out),
         UNCHANGED <<rangeVars, fetchVars, results, drainVars, ctxDone, err, sent, sink, trouble>>,
         Head(out).err = "nil", cpc' = "read", cur' = Head(out), status' = "ok"
  PROVE  ReadInv' /\ FailInv' /\ 1 <= di
<1> USE DEF PInv
<1>1. /\ err' = err /\ sink' = sink /\ trouble' = trouble /\ sent' = sent /\ ctxDone' = ctxDone
      /\ closed' = closed /\ di' = di /\ Streaming'
  BY DEF drainVars, Streaming
<1>2. /\ start' = start /\ end' = end /\ nChunks' = nChunks /\ Bounds' = Bounds /\ Indices' = Indices
  BY RangeSame
<1>3. /\ Good(cur', Bounds[Consumed], Bounds[Consumed + 1], trouble) /\ cur' # None
      /\ Consumed' = Consumed + 1 /\ Consumed + 1 <= nChunks /\ Broken' = Broken
      /\ Len(out) \in Nat \ {0}
  BY <1>1, TakeFacts
<1>4. /\ Consumed \in Nat /\ nChunks \in Nat /\ Consumed = di - Len(out) /\ di \in Nat
      /\ (\A i \in 0..nChunks : Bounds[i] \in Nat /\ start <= Bounds[i])
  BY Facts
<1>5. Pos = Bounds[Consumed] /\ Pos' = cur'.lo
  BY <1>3 DEF Pos
<1>6. /\ cur'.err = "nil" /\ cur'.lo = Bounds[Consumed] /\ cur'.lo <= cur'.hi
      /\ cur'.hi <= Bounds[Consumed'] /\ ("short" \notin trouble => cur'.hi = Bounds[Consumed'])
  BY <1>3 DEF Good
<1>7. 1 <= Consumed' /\ start <= cur'.lo
  BY <1>3, <1>4, <1>6
<1>8. Pos' = Pos
  BY <1>5, <1>6
<1>9. ReadInv'
  BY <1>1, <1>2, <1>3, <1>6, <1>7, <1>8 DEF ReadInv
<1>10. FailInv'
  <2>1. \A i : FailAt(i) => FailAt(i)'
    BY <1>3, TakeFails
  <2> QED
    BY <1>1, <1>2, <2>1 DEF FailInv
<1>11. 1 <= di
  BY <1>3, <1>4
<1> QED
  BY <1>9, <1>10, <1>11

(* Window 0 is not failing once a good buffer was primed. *)
LEMMA FirstPassed ==
  ASSUME PInv, cpc = "prime", FailAt(0)
  PROVE  out # << >> => Head(out).err # "nil"
<1> USE DEF PInv
<1> SUFFICES ASSUME out # << >> PROVE Head(out).err # "nil"
  OBVIOUS
<1>1. /\ Len(out) \in Nat /\ di \in Nat /\ Received \in Nat /\ di <= Received
      /\ out \in Seq(Buffers)
  BY Facts
<1>2. di = Len(out) /\ Len(out) # 0 /\ Head(out) = out[1]
  BY <1>1, EmptySeq DEF StatusInv
<1>3. 1 <= di /\ 1 <= Received
  BY <1>1, <1>2
<1>4. \A v \in Busy : wi[v] # 0
  <2>1. \A v \in Busy : Received <= wi[v]
    BY DEF WorkInv
  <2> QED
    BY <1>1, <1>3, <2>1
<1>5. 0 \in Indices => results[0] = None
  <2>1. 0 \in Indices /\ results[0] # None => Received <= 0
    BY DEF SlotInv
  <2> QED
    BY <1>1, <1>3, <2>1
<1>6. di = 0 + 1 /\ Broken
  BY <1>3, <1>4, <1>5 DEF FailAt
<1> QED
  BY <1>2, <1>6 DEF Broken

LEMMA PrimeKeeps ==
  ASSUME PInv, Prime
  PROVE  PInv'
<1> USE DEF PInv
<1>1. /\ cpc = "prime" /\ UNCHANGED <<rangeVars, fetchVars, results, drainVars, ctxDone, sent, sink, trouble>>
      /\ ctxDone' = ctxDone /\ sent' = sent /\ sink' = sink /\ trouble' = trouble
      /\ di' = di /\ closed' = closed /\ dpc' = dpc /\ dbuf' = dbuf
      /\ idx' = idx /\ wpc' = wpc /\ wi' = wi /\ wbuf' = wbuf /\ results' = results
  BY DEF Prime, fetchVars, drainVars
<1>2. /\ start' = start /\ end' = end /\ nChunks' = nChunks /\ Bounds' = Bounds /\ Indices' = Indices
      /\ Received' = Received
  BY <1>1, RangeSame DEF Received
<1>3. Geometry' /\ WorkInv' /\ SlotInv' /\ DrainInv' /\ CountInv'
  BY <1>1, FetchStill
<1>4. BytesInOrder'
  BY <1>1, <1>2 DEF BytesInOrder
<1>5. /\ Streaming /\ cur = None /\ sent = << >> /\ err = "nil" /\ di = Len(out)
  BY <1>1 DEF StatusInv, ReadInv, Streaming
<1>6. CASE out # << >> /\ Head(out).err # "nil"
  <2>1. /\ out' = Tail(out) /\ cpc' = "close" /\ err' = Head(out).err /\ status' = "502" /\ cur' = cur
    BY <1>6 DEF Prime
  <2>2. /\ out' \in Seq(Buffers) /\ Len(out') <= OutBuffers /\ ChanInv' /\ Head(out) \in Buffers
    BY <1>1, <1>6, <2>1, TakeFacts
  <2>3. err' \in {"fetch", "ctx"}
    BY <1>6, <2>1, <2>2 DEF Buffers
  <2>4. ~Streaming'
    BY <2>1 DEF Streaming
  <2>5. ReadInv' /\ FailInv'
    BY <2>4 DEF ReadInv, FailInv
  <2>6. StatusInv' /\ FirstInv' /\ EofInv'
    BY <1>1, <1>5, <2>1, <2>3, <2>4 DEF StatusInv, FirstInv, EofInv
  <2>7. TypeOK'
    BY <1>1, <1>2, <2>1, <2>2, <2>3 DEF TypeOK, rangeVars
  <2> QED
    BY <1>1, <1>3, <1>4, <2>2, <2>5, <2>6, <2>7
<1>7. CASE out # << >> /\ Head(out).err = "nil"
  <2>1. /\ out' = Tail(out) /\ cpc' = "read" /\ err' = err /\ status' = "ok" /\ cur' = Head(out)
    BY <1>7 DEF Prime
  <2>2. /\ out' \in Seq(Buffers) /\ Len(out') <= OutBuffers /\ ChanInv' /\ Head(out) \in Buffers
    BY <1>1, <1>7, <2>1, TakeFacts
  <2>3. ReadInv' /\ FailInv' /\ 1 <= di
    BY <1>1, <1>5, <1>7, <2>1, TakeKeeps
  <2>4. StatusInv'
    BY <1>1, <2>1, <2>3 DEF StatusInv
  <2>5. FirstInv'
    <3>1. "first" \in trouble => ctxDone
      BY <1>1, <1>7, FirstPassed DEF FirstInv
    <3> QED
      BY <1>1, <3>1 DEF FirstInv
  <2>6. EofInv'
    BY <1>5, <2>1 DEF EofInv
  <2>7. TypeOK'
    BY <1>1, <1>2, <2>1, <2>2 DEF TypeOK, rangeVars
  <2> QED
    BY <1>1, <1>3, <1>4, <2>2, <2>3, <2>4, <2>5, <2>6, <2>7
<1>8. CASE out = << >>
  <2>1. /\ closed /\ out' = out /\ cpc' = "read" /\ err' = err /\ status' = "ok" /\ cur' = cur
    BY <1>8 DEF Prime
  <2>2. Streaming' /\ Broken' = Broken /\ ~Broken /\ Consumed' = Consumed
    BY <1>1, <1>8, <2>1 DEF Streaming, Broken, Consumed
  <2>3. ChanInv'
    BY <1>1, <1>2, <2>1, <2>2 DEF ChanInv
  <2>4. Pos' = Pos
    BY <1>2, <2>1, <2>2 DEF Pos
  <2>5. ReadInv'
    BY <1>1, <1>2, <1>5, <2>1, <2>2, <2>4 DEF ReadInv
  <2>6. ~ctxDone => nChunks = 0
    <3>1. ~ctxDone => di = nChunks
      BY <1>5, <2>1, <2>2 DEF ReadInv
    <3>2. Len(out) = 0
      BY <1>8
    <3> QED
      BY <1>5, <3>1, <3>2
  <2>7. StatusInv'
    BY <1>1, <1>2, <2>1, <2>2, <2>6 DEF StatusInv
  <2>8. \A i : FailAt(i) => FailAt(i)'
    BY <1>1, <2>2, TakeFails
  <2>9. FailInv'
    BY <1>1, <1>2, <1>5, <2>8 DEF FailInv
  <2>10. FirstInv'
    <3>1. "first" \in trouble => ctxDone
      <4>1. nChunks = 0 => 0 \notin Indices
        BY DEF Indices
      <4> QED
        BY <1>1, <2>6, <4>1 DEF FirstInv, FailAt
    <3> QED
      BY <1>1, <3>1 DEF FirstInv
  <2>11. EofInv'
    BY <1>5, <2>1 DEF EofInv
  <2>12. TypeOK'
    BY <1>1, <1>2, <2>1 DEF TypeOK, rangeVars
  <2> QED
    BY <1>1, <1>3, <1>4, <2>3, <2>5, <2>7, <2>9, <2>10, <2>11, <2>12
<1> QED
  BY <1>6, <1>7, <1>8

LEMMA ReadNextKeeps ==
  ASSUME PInv, ReadNext
  PROVE  PInv'
<1> USE DEF PInv
<1>1. /\ cpc = "read" /\ cur = None
      /\ UNCHANGED <<rangeVars, fetchVars, results, drainVars, ctxDone, status, sent, sink, trouble>>
      /\ ctxDone' = ctxDone /\ sent' = sent /\ sink' = sink /\ trouble' = trouble /\ status' = status
      /\ di' = di /\ closed' = closed /\ dpc' = dpc /\ dbuf' = dbuf
      /\ idx' = idx /\ wpc' = wpc /\ wi' = wi /\ wbuf' = wbuf /\ results' = results
  BY DEF ReadNext, fetchVars, drainVars
<1>2. /\ start' = start /\ end' = end /\ nChunks' = nChunks /\ Bounds' = Bounds /\ Indices' = Indices
      /\ Received' = Received
  BY <1>1, RangeSame DEF Received
<1>3. Geometry' /\ WorkInv' /\ SlotInv' /\ DrainInv' /\ CountInv'
  BY <1>1, FetchStill
<1>4. BytesInOrder'
  BY <1>1, <1>2 DEF BytesInOrder
<1>5. Streaming /\ err = "nil" /\ status = "ok"
  BY <1>1 DEF StatusInv, ReadInv, Streaming, TypeOK
<1>6. CASE out # << >> /\ Head(out).err # "nil"
  <2>1. /\ out' = Tail(out) /\ cpc' = "close" /\ err' = Head(out).err /\ cur' = cur
    BY <1>6 DEF ReadNext
  <2>2. /\ out' \in Seq(Buffers) /\ Len(out') <= OutBuffers /\ ChanInv' /\ Head(out) \in Buffers
    BY <1>1, <1>6, <2>1, TakeFacts
  <2>3. err' \in {"fetch", "ctx"}
    BY <1>6, <2>1, <2>2 DEF Buffers
  <2>4. ~Streaming'
    BY <2>1 DEF Streaming
  <2>5. ReadInv' /\ FailInv'
    BY <2>4 DEF ReadInv, FailInv
  <2>6. StatusInv' /\ FirstInv' /\ EofInv'
    BY <1>1, <1>2, <1>5, <2>1, <2>3, <2>4 DEF StatusInv, FirstInv, EofInv
  <2>7. TypeOK'
    BY <1>1, <1>2, <2>1, <2>2, <2>3 DEF TypeOK, rangeVars
  <2> QED
    BY <1>1, <1>3, <1>4, <2>2, <2>5, <2>6, <2>7
<1>7. CASE out # << >> /\ Head(out).err = "nil"
  <2>1. /\ out' = Tail(out) /\ cpc' = "read" /\ err' = err /\ cur' = Head(out)
    BY <1>1, <1>7 DEF ReadNext
  <2>2. /\ out' \in Seq(Buffers) /\ Len(out') <= OutBuffers /\ ChanInv' /\ Head(out) \in Buffers
    BY <1>1, <1>7, <2>1, TakeFacts
  <2>3. ReadInv' /\ FailInv' /\ 1 <= di
    BY <1>1, <1>5, <1>7, <2>1, TakeKeeps
  <2>4. StatusInv' /\ FirstInv'
    BY <1>1, <1>5, <2>1, <2>3 DEF StatusInv, FirstInv
  <2>5. EofInv'
    BY <1>5, <2>1 DEF EofInv
  <2>6. TypeOK'
    BY <1>1, <1>2, <2>1, <2>2 DEF TypeOK, rangeVars
  <2> QED
    BY <1>1, <1>3, <1>4, <2>2, <2>3, <2>4, <2>5, <2>6
<1>8. CASE out = << >>
  <2>1. /\ closed /\ out' = out /\ cpc' = "close" /\ err' = "EOF" /\ cur' = cur
    BY <1>8 DEF ReadNext
  <2>2. ~Streaming' /\ ~Broken /\ Consumed' = Consumed
    BY <1>1, <1>8, <2>1 DEF Streaming, Broken, Consumed
  <2>3. ChanInv'
    BY <1>1, <1>2, <2>1, <2>2 DEF ChanInv
  <2>4. ReadInv' /\ FailInv'
    BY <2>2 DEF ReadInv, FailInv
  <2>5. StatusInv' /\ FirstInv'
    BY <1>1, <1>2, <1>5, <2>1, <2>2 DEF StatusInv, FirstInv
  <2>6. ASSUME trouble \cap {"cancel", "short"} = {}
        PROVE  Len(sent) = end - start /\ trouble = {} /\ di = nChunks /\ Received = di
    <3>1. di = nChunks
      BY <1>5, <2>1, <2>2, <2>6 DEF ReadInv
    <3>2. /\ Received = di /\ Consumed = nChunks /\ Bounds[nChunks] = end /\ nChunks \in Nat
          /\ \A i \in Indices : i \in Nat /\ i < nChunks
      <4>1. /\ Received \in Nat /\ di <= Received /\ Received <= nChunks /\ nChunks \in Nat
            /\ Consumed = di - Len(out) /\ Bounds[nChunks] = end
            /\ \A i \in Indices : i \in Nat /\ i < nChunks
        BY Facts
      <4>2. Len(out) = 0
        BY <1>8
      <4> QED
        BY <3>1, <4>1, <4>2
    <3>3. Len(sent) = end - start
      <4>1. Pos = end
        BY <1>1, <3>2 DEF Pos
      <4> QED
        BY <1>5, <2>6, <4>1 DEF ReadInv
    <3>4. ASSUME NEW i \in Indices PROVE ~FailAt(i)
      <4>1. ~ (Received <= i)
        BY <3>1, <3>2
      <4>2. \A v \in Busy : wi[v] # i
        BY <4>1 DEF WorkInv
      <4>3. results[i] = None
        BY <4>1 DEF SlotInv
      <4>4. dpc # "deliver"
        BY <3>1, <3>2 DEF Received
      <4> QED
        BY <2>2, <4>2, <4>3, <4>4 DEF FailAt
    <3>5. "fetch" \notin trouble
      BY <1>5, <2>6, <3>4 DEF FailInv
    <3>6. "write" \notin trouble /\ "first" \notin trouble
      BY <1>5, <3>5 DEF ReadInv, FirstInv
    <3>7. trouble = {}
      BY <2>6, <3>5, <3>6 DEF FirstInv
    <3> QED
      BY <3>1, <3>2, <3>3, <3>7
  <2>7. EofInv'
    BY <1>1, <1>2, <2>1, <2>2, <2>6 DEF EofInv
  <2>8. TypeOK'
    BY <1>1, <1>2, <2>1 DEF TypeOK, rangeVars
  <2> QED
    BY <1>1, <1>3, <1>4, <2>3, <2>4, <2>5, <2>7, <2>8
<1> QED
  BY <1>6, <1>7, <1>8

LEMMA ReadSomeKeeps ==
  ASSUME PInv, ReadSome
  PROVE  PInv'
<1> USE DEF PInv
<1>1. /\ cpc = "read" /\ cur # None
      /\ UNCHANGED <<rangeVars, fetchVars, results, drainVars, out, ctxDone,
                     cpc, err, status, sink, trouble>>
      /\ ctxDone' = ctxDone /\ sink' = sink /\ trouble' = trouble /\ status' = status
      /\ cpc' = cpc /\ err' = err /\ out' = out
      /\ di' = di /\ closed' = closed /\ dpc' = dpc /\ dbuf' = dbuf
      /\ idx' = idx /\ wpc' = wpc /\ wi' = wi /\ wbuf' = wbuf /\ results' = results
  BY DEF ReadSome, fetchVars, drainVars
<1>2. /\ start' = start /\ end' = end /\ nChunks' = nChunks /\ Bounds' = Bounds /\ Indices' = Indices
      /\ Received' = Received /\ Consumed' = Consumed /\ Broken' = Broken /\ Streaming' = Streaming
  BY <1>1, RangeSame DEF Received, Consumed, Broken, Streaming
<1>3. Geometry' /\ WorkInv' /\ SlotInv' /\ DrainInv' /\ CountInv'
  BY <1>1, FetchStill
<1>4. ChanInv'
  BY <1>1, <1>2 DEF ChanInv
<1>5. Streaming /\ err = "nil" /\ status = "ok"
  BY <1>1 DEF StatusInv, ReadInv, Streaming, TypeOK
<1>6. FailInv'
  <2>1. \A i : FailAt(i) => FailAt(i)'
    BY <1>1, <1>2, TakeFails
  <2> QED
    BY <1>1, <1>2, <2>1 DEF FailInv
<1>7. FirstInv' /\ EofInv' /\ StatusInv'
  BY <1>1, <1>2, <1>5 DEF FirstInv, EofInv, StatusInv
<1>8. /\ cur \in Buffers /\ 1 <= Consumed /\ cur.err = "nil"
      /\ start <= cur.lo /\ cur.lo <= cur.hi /\ cur.hi <= Bounds[Consumed]
      /\ "short" \notin trouble => cur.hi = Bounds[Consumed]
      /\ Pos = cur.lo /\ \A k \in 1..Len(sent) : sent[k] < cur.lo
      /\ "short" \notin trouble => Len(sent) = cur.lo - start
  BY <1>1, <1>5 DEF ReadInv, Pos, TypeOK
<1>9. /\ ObjSize \in Nat /\ start \in Nat /\ end \in Nat /\ Bounds[Consumed] \in Nat
      /\ Bounds[Consumed] <= end /\ cur.lo \in Nat /\ cur.hi \in Nat /\ cur.hi <= ObjSize
      /\ sent \in Seq(Nat) /\ Len(sent) \in Nat /\ ReadSize \in Nat \ {0} /\ None \notin Buffers
  <2>1. /\ ObjSize \in Nat /\ start \in Nat /\ end \in Nat /\ None \notin Buffers
        /\ Consumed \in Nat /\ Consumed <= nChunks /\ nChunks \in Nat
        /\ \A i \in 0..nChunks : Bounds[i] \in Nat /\ Bounds[i] <= end
    BY Facts
  <2>2. Consumed \in 0..nChunks
    BY <2>1
  <2>3. cur.lo \in Nat /\ cur.hi \in Nat /\ cur.hi <= ObjSize
    BY <1>8, <2>1 DEF Buffers
  <2>4. sent \in Seq(Nat) /\ Len(sent) \in Nat /\ ReadSize \in Nat \ {0}
    BY ReaderAssumption
  <2> QED
    BY <2>1, <2>2, <2>3, <2>4
<1>10. CASE cur.lo >= cur.hi
  <2>1. cur' = None /\ sent' = sent
    BY <1>10 DEF ReadSome
  <2>2. Pos' = Bounds[Consumed]
    BY <1>2, <2>1 DEF Pos
  <2>3. cur.lo = cur.hi /\ cur.lo <= Bounds[Consumed]
    BY <1>8, <1>9, <1>10
  <2>4. \A k \in 1..Len(sent) : sent[k] < Bounds[Consumed]
    <3>1. \A k \in 1..Len(sent) : sent[k] \in Nat
      BY <1>9
    <3> QED
      BY <1>8, <1>9, <2>3, <3>1
  <2>5. "short" \notin trouble => Len(sent) = Bounds[Consumed] - start
    BY <1>8, <2>3
  <2>6. ReadInv'
    BY <1>1, <1>2, <1>5, <2>1, <2>2, <2>4, <2>5 DEF ReadInv
  <2>7. BytesInOrder' /\ TypeOK'
    BY <1>1, <1>2, <2>1 DEF BytesInOrder, TypeOK, rangeVars
  <2> QED
    BY <1>3, <1>4, <1>6, <1>7, <2>1, <2>6, <2>7
<1>11. CASE cur.lo < cur.hi
  <2> DEFINE n == Smaller(ReadSize, cur.hi - cur.lo)
             new == [k \in 1..n |-> cur.lo + k - 1]
             L == Len(sent)
             x == cur.lo
  <2>1. sent' = sent \o new /\ cur' = [cur EXCEPT !.lo = @ + n]
    <3>1. ~ (cur.lo >= cur.hi)
      BY <1>9, <1>11
    <3> QED
      BY <3>1, Zenon DEF ReadSome
  <2>2. n \in Nat \ {0} /\ x + n <= cur.hi
    BY <1>9, <1>11 DEF Smaller
  <2> HIDE DEF n
  <2>3. /\ cur' \in Buffers /\ cur' # None /\ cur'.lo = x + n /\ cur'.hi = cur.hi /\ cur'.err = "nil"
    <3>1. x + n \in 0..ObjSize
      BY <1>9, <2>2
    <3> QED
      BY <1>8, <1>9, <2>1, <3>1 DEF Buffers
  <2>4. new \in Seq(Nat) /\ Len(new) = n /\ \A k \in 1..n : new[k] = x + k - 1
    BY <1>9, <2>2
  <2> HIDE DEF new
  <2>5. /\ sent' \in Seq(Nat) /\ Len(sent') = L + n
        /\ \A k \in 1..L + n : sent'[k] = IF k <= L THEN sent[k] ELSE new[k - L]
    BY <1>9, <2>1, <2>4, ConcatProperties, Zenon
  <2>6. ASSUME NEW k \in 1..L + n
        PROVE  /\ k <= L => k \in 1..L /\ sent'[k] = sent[k]
               /\ ~ (k <= L) => k - L \in 1..n /\ sent'[k] = x + (k - L) - 1
    <3>1. k \in Nat /\ L \in Nat /\ n \in Nat
      BY <1>9, <2>2
    <3>2. CASE k <= L
      <4>1. k \in 1..L
        BY <3>1, <3>2
      <4>2. sent'[k] = sent[k]
        BY <2>5, <3>2, Zenon
      <4> QED
        BY <3>2, <4>1, <4>2
    <3>3. CASE ~ (k <= L)
      <4>1. k - L \in 1..n
        BY <3>1, <3>3
      <4>2. sent'[k] = new[k - L]
        BY <2>5, <3>3, Zenon
      <4> QED
        BY <2>4, <3>3, <4>1, <4>2
    <3> QED
      BY <3>2, <3>3
  <2> DEFINE y == x + n
  <2>7. /\ x \in Nat /\ y \in Nat /\ y = x + n /\ n \in Nat \ {0} /\ L \in Nat /\ start <= x
        /\ start \in Nat /\ end \in Nat /\ y <= end /\ y <= cur.hi
    BY <1>8, <1>9, <2>2
  <2>8. Pos' = y
    BY <2>3 DEF Pos
  <2>9. \A k \in 1..L : sent[k] \in Nat /\ sent[k] < x /\ sent[k] \in start..end - 1
    BY <1>8, <1>9 DEF BytesInOrder
  <2> HIDE DEF x, L, y
  <2>10. ASSUME NEW k \in 1..L + n
         PROVE  sent'[k] < y /\ sent'[k] \in start..end - 1
    <3>1. CASE k <= L
      <4>1. k \in 1..L /\ sent'[k] = sent[k]
        BY <2>6, <3>1
      <4>2. sent[k] \in Nat /\ sent[k] < x /\ sent[k] \in start..end - 1
        BY <2>9, <4>1
      <4>3. sent[k] < y
        BY <2>7, <4>2
      <4> QED
        BY <4>1, <4>2, <4>3
    <3>2. CASE ~ (k <= L)
      <4>1. k - L \in 1..n /\ sent'[k] = x + (k - L) - 1
        BY <2>6, <3>2
      <4> QED
        BY <2>7, <4>1
    <3> QED
      BY <3>1, <3>2
  <2>11. ASSUME NEW k \in 1..L + n - 1
         PROVE  sent'[k] < sent'[k + 1]
    <3>1. k \in 1..L + n /\ k + 1 \in 1..L + n /\ k \in Nat
      BY <2>7
    <3>2. CASE k + 1 <= L
      <4>1. k \in 1..L - 1 /\ k <= L
        BY <2>7, <3>1, <3>2
      <4>2. sent[k] < sent[k + 1]
        BY <4>1 DEF BytesInOrder, L
      <4> QED
        BY <2>6, <3>1, <3>2, <4>1, <4>2
    <3>3. CASE k = L
      <4>1. sent'[k] = sent[k] /\ sent[k] < x /\ sent[k] \in Nat
        BY <2>6, <2>7, <2>9, <3>1, <3>3
      <4>2. sent'[k + 1] = x + ((k + 1) - L) - 1
        <5>1. ~ (k + 1 <= L)
          BY <2>7, <3>3
        <5> QED
          BY <2>6, <3>1, <5>1
      <4>3. x + ((k + 1) - L) - 1 = x
        BY <2>7, <3>3
      <4> QED
        BY <4>1, <4>2, <4>3
    <3>4. CASE ~ (k <= L)
      <4>1. ~ (k + 1 <= L)
        BY <2>7, <3>1, <3>4
      <4>2. sent'[k] = x + (k - L) - 1 /\ sent'[k + 1] = x + ((k + 1) - L) - 1
        BY <2>6, <3>1, <3>4, <4>1
      <4>3. x + (k - L) - 1 < x + ((k + 1) - L) - 1
        BY <2>7, <3>1
      <4> QED
        BY <4>2, <4>3
    <3> QED
      BY <2>7, <3>1, <3>2, <3>3, <3>4
  <2>12. ASSUME "short" \notin trouble, NEW k \in 1..L + n
         PROVE  sent'[k] = start + k - 1
    <3>1. CASE k <= L
      <4>1. k \in 1..L /\ sent'[k] = sent[k]
        BY <2>6, <3>1
      <4>2. sent[k] = start + k - 1
        BY <2>12, <4>1 DEF BytesInOrder, L
      <4> QED
        BY <4>1, <4>2
    <3>2. CASE ~ (k <= L)
      <4>1. sent'[k] = x + (k - L) - 1
        BY <2>6, <3>2
      <4>2. L = x - start
        BY <1>8, <2>12 DEF L, x
      <4> QED
        BY <2>7, <4>1, <4>2
    <3> QED
      BY <3>1, <3>2
  <2>13. "short" \notin trouble => Len(sent') = y - start
    <3>1. "short" \notin trouble => L = x - start
      BY <1>8 DEF L, x
    <3>2. Len(sent') = L + n
      BY <2>5
    <3> QED
      BY <2>7, <3>1, <3>2
  <2>14. Len(sent') = L + n
    BY <2>5
  <2>15. BytesInOrder'
    <3>1. \A k \in 1..Len(sent') : sent'[k] \in start'..end' - 1
      BY <1>2, <2>10, <2>14, Zenon
    <3>2. \A k \in 1..Len(sent') - 1 : sent'[k] < sent'[k + 1]
      <4> SUFFICES ASSUME NEW k \in 1..Len(sent') - 1 PROVE sent'[k] < sent'[k + 1]
        OBVIOUS
      <4>1. k \in 1..L + n - 1
        BY <2>7, <2>14
      <4> QED
        BY <2>11, <4>1
    <3>3. "short" \notin trouble' => \A k \in 1..Len(sent') : sent'[k] = start' + k - 1
      BY <1>1, <1>2, <2>12, <2>14, Zenon
    <3> QED
      BY <3>1, <3>2, <3>3, Zenon DEF BytesInOrder
  <2>16. ReadInv'
    <3>1. /\ start <= cur'.lo /\ cur'.lo <= cur'.hi /\ cur'.hi <= Bounds[Consumed]
          /\ ("short" \notin trouble => cur'.hi = Bounds[Consumed])
      <4>1. cur'.lo = y /\ cur'.hi = cur.hi /\ start <= y
        BY <2>3, <2>7 DEF y
      <4> QED
        BY <1>8, <2>7, <4>1
    <3>2. \A k \in 1..Len(sent') : sent'[k] < Pos'
      BY <2>8, <2>10, <2>14
    <3>3. "short" \notin trouble => Len(sent') = Pos' - start
      BY <2>8, <2>13
    <3> QED
      BY <1>1, <1>2, <1>5, <1>8, <2>3, <3>1, <3>2, <3>3 DEF ReadInv
  <2>17. TypeOK'
    BY <1>1, <1>2, <2>3 DEF TypeOK, rangeVars
  <2> QED
    BY <1>3, <1>4, <1>6, <1>7, <2>5, <2>15, <2>16, <2>17
<1> QED
  BY <1>9, <1>10, <1>11

LEMMA WriteFailsKeeps ==
  ASSUME PInv, WriteFails
  PROVE  PInv'
<1> USE DEF PInv
<1>1. /\ cpc = "read" /\ cpc' = "close" /\ trouble' = trouble \cup {"write"}
      /\ UNCHANGED <<rangeVars, fetchVars, results, drainVars, out, ctxDone,
                     cur, err, status, sent, sink>>
      /\ out' = out /\ ctxDone' = ctxDone /\ cur' = cur /\ err' = err /\ status' = status
      /\ sent' = sent /\ sink' = sink /\ di' = di /\ closed' = closed /\ dpc' = dpc /\ dbuf' = dbuf
      /\ idx' = idx /\ wpc' = wpc /\ wi' = wi /\ wbuf' = wbuf /\ results' = results
  BY DEF WriteFails, fetchVars, drainVars
<1>2. /\ start' = start /\ end' = end /\ nChunks' = nChunks /\ Bounds' = Bounds /\ Indices' = Indices
      /\ Consumed' = Consumed /\ Streaming /\ ~Streaming'
  BY <1>1, RangeSame DEF Consumed, Streaming
<1>3. trouble \subseteq trouble' /\ ("short" \in trouble' <=> "short" \in trouble)
      /\ ("first" \in trouble' <=> "first" \in trouble)
      /\ ("fetch" \in trouble' <=> "fetch" \in trouble)
  BY <1>1
<1>4. Geometry' /\ WorkInv' /\ SlotInv' /\ DrainInv' /\ CountInv'
  BY <1>1, <1>3, FetchStill
<1>5. ChanInv'
  BY <1>1, <1>2, <1>3, GoodStays DEF ChanInv
<1>6. BytesInOrder'
  BY <1>1, <1>2, <1>3 DEF BytesInOrder
<1>7. ReadInv' /\ FailInv'
  BY <1>2 DEF ReadInv, FailInv
<1>8. err = "nil" /\ status = "ok"
  BY <1>1, <1>2 DEF ReadInv, StatusInv, TypeOK
<1>9. EofInv' /\ StatusInv'
  BY <1>1, <1>2, <1>8 DEF EofInv, StatusInv
<1>10. FirstInv'
  <2>1. trouble' \subseteq {"fetch", "short", "cancel", "write", "first"}
    BY <1>1 DEF FirstInv
  <2> QED
    BY <1>1, <1>3, <2>1 DEF FirstInv
<1>11. TypeOK'
  BY <1>1, <1>2 DEF TypeOK, rangeVars
<1> QED
  BY <1>1, <1>4, <1>5, <1>6, <1>7, <1>9, <1>10, <1>11

LEMMA CancelKeeps ==
  ASSUME PInv, Cancel
  PROVE  PInv'
<1> USE DEF PInv
<1>1. /\ cpc \in {"prime", "read"} /\ ctxDone' = TRUE /\ trouble' = trouble \cup {"cancel"}
      /\ UNCHANGED <<rangeVars, fetchVars, results, drainVars, out, readVars>>
      /\ out' = out /\ cur' = cur /\ err' = err /\ status' = status /\ cpc' = cpc
      /\ sent' = sent /\ sink' = sink /\ di' = di /\ closed' = closed /\ dpc' = dpc /\ dbuf' = dbuf
      /\ idx' = idx /\ wpc' = wpc /\ wi' = wi /\ wbuf' = wbuf /\ results' = results
  BY DEF Cancel, fetchVars, drainVars, readVars
<1>2. /\ start' = start /\ end' = end /\ nChunks' = nChunks /\ Bounds' = Bounds /\ Indices' = Indices
      /\ Consumed' = Consumed /\ Streaming /\ Streaming' /\ Broken' = Broken
  BY <1>1, RangeSame DEF Consumed, Streaming, Broken
<1>3. trouble \subseteq trouble' /\ ("short" \in trouble' <=> "short" \in trouble)
      /\ ("first" \in trouble' <=> "first" \in trouble)
      /\ ("fetch" \in trouble' <=> "fetch" \in trouble)
      /\ ("write" \in trouble' <=> "write" \in trouble) /\ "cancel" \in trouble'
  BY <1>1
<1>4. Geometry' /\ WorkInv' /\ SlotInv' /\ DrainInv' /\ CountInv'
  BY <1>1, <1>3, FetchStill
<1>5. ChanInv'
  BY <1>1, <1>2, <1>3, GoodStays DEF ChanInv
<1>6. BytesInOrder'
  BY <1>1, <1>2, <1>3 DEF BytesInOrder
<1>7. Pos' = Pos
  BY <1>1, <1>2 DEF Pos
<1>8. ReadInv'
  BY <1>1, <1>2, <1>3, <1>7 DEF ReadInv
<1>9. FailInv'
  BY <1>3 DEF FailInv
<1>10. err = "nil"
  BY <1>2 DEF ReadInv
<1>11. EofInv' /\ StatusInv'
  BY <1>1, <1>2, <1>10 DEF EofInv, StatusInv
<1>12. FirstInv'
  <2>1. trouble' \subseteq {"fetch", "short", "cancel", "write", "first"}
    BY <1>1 DEF FirstInv
  <2> QED
    BY <1>1, <1>3, <2>1 DEF FirstInv
<1>13. TypeOK'
  BY <1>1, <1>2 DEF TypeOK, rangeVars
<1> QED
  BY <1>1, <1>4, <1>5, <1>6, <1>8, <1>9, <1>11, <1>12, <1>13

(* Once the copy has ended, nothing but the control state moves. *)
LEMMA ClosingKeeps ==
  ASSUME PInv, cpc' \in {"close", "wait", "closed"}, ~Streaming,
         UNCHANGED <<rangeVars, fetchVars, results, drainVars, cur, err, status, sent, trouble>>,
         ctxDone => ctxDone', ctxDone' \in BOOLEAN, sink' \in {"off", "on", "done"},
         out' \in Seq(Buffers), Len(out') <= OutBuffers, ChanInv'
  PROVE  PInv'
<1> USE DEF PInv
<1>1. /\ cur' = cur /\ err' = err /\ status' = status /\ trouble' = trouble
      /\ sent' = sent /\ di' = di /\ closed' = closed /\ dpc' = dpc /\ dbuf' = dbuf
      /\ idx' = idx /\ wpc' = wpc /\ wi' = wi /\ wbuf' = wbuf /\ results' = results
  BY DEF fetchVars, drainVars
<1>2. /\ start' = start /\ end' = end /\ nChunks' = nChunks /\ Bounds' = Bounds /\ Indices' = Indices
      /\ ~Streaming' /\ Received' = Received /\ cpc # "prime"
  BY <1>1, RangeSame DEF Streaming, Received
<1>3. Geometry' /\ WorkInv' /\ SlotInv' /\ DrainInv' /\ CountInv'
  BY <1>1, FetchStill
<1>4. BytesInOrder'
  BY <1>1, <1>2 DEF BytesInOrder
<1>5. ReadInv' /\ FailInv'
  BY <1>2 DEF ReadInv, FailInv
<1>6. StatusInv' /\ FirstInv'
  BY <1>1, <1>2 DEF StatusInv, FirstInv
<1>7. EofInv'
  BY <1>1, <1>2 DEF EofInv
<1>8. TypeOK'
  BY <1>1, <1>2 DEF TypeOK, rangeVars
<1> QED
  BY <1>1, <1>3, <1>4, <1>5, <1>6, <1>7, <1>8

LEMMA CloseKeeps ==
  ASSUME PInv, Close \/ Sink \/ CloseReturns
  PROVE  PInv'
<1> USE DEF PInv
<1>1. /\ UNCHANGED <<rangeVars, fetchVars, results, drainVars, cur, err, status, sent, trouble>>
      /\ cpc' \in {"close", "wait", "closed"} /\ ~Streaming
      /\ (ctxDone => ctxDone') /\ ctxDone' \in BOOLEAN
      /\ sink' \in {"off", "on", "done"}
  <2>1. CASE Close
    BY <2>1 DEF Close, Streaming
  <2>2. CASE Sink
    <3>1. ~Streaming
      BY <2>2 DEF Sink, ReadInv
    <3>2. cpc \in {"close", "wait", "closed"} /\ ctxDone \in BOOLEAN
      BY <3>1 DEF TypeOK, Streaming
    <3>3. /\ UNCHANGED <<rangeVars, fetchVars, results, drainVars, cur, err, status, sent, trouble>>
          /\ cpc' = cpc /\ ctxDone' = ctxDone /\ sink' \in {"on", "done"}
      BY <2>2 DEF Sink
    <3> QED
      BY <3>1, <3>2, <3>3
  <2>3. CASE CloseReturns
    BY <2>3 DEF CloseReturns, Streaming, TypeOK
  <2> QED
    BY <2>1, <2>2, <2>3
<1>2. di' = di /\ closed' = closed /\ trouble' = trouble
  BY <1>1 DEF drainVars
<1>3. out' = out \/ (out # << >> /\ out' = Tail(out))
  BY DEF Close, Sink, CloseReturns
<1>4. out' \in Seq(Buffers) /\ Len(out') <= OutBuffers /\ ChanInv'
  <2>1. CASE out' = out
    <3>1. Bounds' = Bounds /\ Consumed' = Consumed
      BY <1>1, <1>2, <2>1, RangeSame DEF Consumed
    <3> QED
      BY <1>2, <2>1, <3>1 DEF ChanInv, TypeOK
  <2>2. CASE out # << >> /\ out' = Tail(out)
    BY <1>1, <1>2, <2>2, TakeFacts
  <2> QED
    BY <1>3, <2>1, <2>2
<1> QED
  BY <1>1, <1>4, ClosingKeeps

-----------------------------------------------------------------------------
(* The theorems. *)

LEMMA InitKeeps ==
  ASSUME Init
  PROVE  PInv
<1>1. /\ start \in 0..ObjSize /\ end \in start..ObjSize
      /\ chunkSize \in 1..StreamChunk /\ alignedStart \in 0..start
      /\ nChunks \in 0..ObjSize /\ Geometry
  BY InitGeometry
<1>2. /\ idx = 0 /\ wpc \in [Workers -> {"claim", "done"}]
      /\ wi = [w \in Workers |-> 0] /\ wbuf = [w \in Workers |-> None]
      /\ results = [i \in Indices |-> None]
      /\ dpc = (IF nChunks = 0 THEN "done" ELSE "recv")
      /\ di = 0 /\ dbuf = None /\ out = <<>>
      /\ ctxDone = FALSE /\ cpc = "prime" /\ cur = None /\ err = "nil"
      /\ status = "none" /\ sent = <<>> /\ sink = "off" /\ trouble = {}
  BY DEF Init
<1>3. ObjSize \in Nat /\ OutBuffers \in Nat \ {0} /\ nChunks \in Nat
  BY <1>1, ReaderAssumption
<1>4. Busy = {} /\ Received = 0 /\ Len(out) = 0 /\ Len(sent) = 0 /\ Consumed = 0 /\ Streaming
      /\ closed \in BOOLEAN /\ (closed <=> nChunks = 0)
  <2>1. Busy = {}
    BY <1>2 DEF Busy
  <2>2. closed \in BOOLEAN /\ (closed <=> nChunks = 0)
    BY Zenon DEF Init
  <2>3. dpc # "deliver"
    BY <1>2
  <2>4. Received = 0 /\ Streaming
    BY <1>2, <2>3 DEF Received, Streaming
  <2>5. Len(out) = 0 /\ Len(sent) = 0
    BY <1>2
  <2>6. Consumed = 0
    <3>1. Consumed = di - Len(out)
      BY DEF Consumed
    <3>2. di = 0
      BY <1>2
    <3> QED
      BY <2>5, <3>1, <3>2
  <2> QED
    BY <2>1, <2>2, <2>4, <2>5, <2>6
<1>5. TypeOK
  <2>1. idx \in 0..nChunks + Cardinality(Workers)
    BY <1>2, <1>3, IdleFacts
  <2>2. /\ wpc \in [Workers -> {"claim", "check", "fetch", "send", "done"}]
        /\ wi \in [Workers -> Indices \cup {0}]
        /\ wbuf \in [Workers -> Buffers \cup {None}]
        /\ results \in [Indices -> Buffers \cup {None}]
    BY <1>2
  <2>3. /\ dpc \in {"recv", "deliver", "done"} /\ di \in 0..nChunks
        /\ out \in Seq(Buffers) /\ Len(out) <= OutBuffers /\ {closed, ctxDone} \subseteq BOOLEAN
    <3>1. dpc \in {"recv", "deliver", "done"} /\ di \in 0..nChunks /\ out \in Seq(Buffers)
      BY <1>2, <1>3
    <3>2. Len(out) <= OutBuffers
      BY <1>3, <1>4
    <3>3. {closed, ctxDone} \subseteq BOOLEAN
      BY <1>2, <1>4, Zenon
    <3> QED
      BY <3>1, <3>2, <3>3
  <2> QED
    BY <1>1, <1>2, <2>1, <2>2, <2>3 DEF TypeOK
<1>6. sent \in Seq(Nat)
  BY <1>2
<1>7. WorkInv /\ SlotInv
  BY <1>2, <1>4 DEF WorkInv, SlotInv
<1>8. DrainInv
  BY <1>2, <1>3, <1>4 DEF DrainInv
<1>9. ChanInv
  BY <1>2, <1>4 DEF ChanInv
<1>10. ReadInv
  <2>1. Pos = start /\ start \in Nat
    BY <1>1, <1>2, <1>3, <1>4 DEF Pos, Geometry
  <2>2. closed => di = nChunks
    BY <1>2, <1>4
  <2>3. Len(sent) = Pos - start /\ \A k \in 1..Len(sent) : sent[k] < Pos
    BY <1>4, <2>1
  <2> QED
    BY <1>2, <2>2, <2>3 DEF ReadInv
<1>11. BytesInOrder
  <2>1. ~ \E k \in 1..Len(sent) : TRUE
    BY <1>4
  <2>2. ~ \E k \in 1..Len(sent) - 1 : TRUE
    BY <1>4
  <2> QED
    BY <2>1, <2>2 DEF BytesInOrder
<1>12. StatusInv
  BY <1>2, <1>4 DEF StatusInv
<1>13. FailInv /\ FirstInv /\ EofInv
  BY <1>2 DEF FailInv, FirstInv, EofInv
<1>14. CountInv
  BY <1>2, <1>3, IdleFacts DEF CountInv
<1> QED
  BY <1>1, <1>5, <1>6, <1>7, <1>8, <1>9, <1>10, <1>11, <1>12, <1>13, <1>14 DEF PInv

(* A step that changes nothing. *)
LEMMA StutterKeeps ==
  ASSUME PInv, UNCHANGED vars
  PROVE  PInv'
<1> USE DEF PInv
<1>1. /\ UNCHANGED <<rangeVars, fetchVars, results, drainVars>>
      /\ UNCHANGED <<rangeVars, di, closed, out, ctxDone, readVars>>
      /\ UNCHANGED <<rangeVars, ctxDone, readVars, trouble>>
      /\ Broken' = Broken /\ trouble' = trouble
      /\ out' = out /\ ctxDone' = ctxDone /\ cpc' = cpc
      /\ cur' = cur /\ err' = err /\ status' = status /\ sent' = sent /\ sink' = sink
      /\ idx' = idx /\ wpc' = wpc /\ wi' = wi /\ wbuf' = wbuf /\ results' = results
      /\ dpc' = dpc /\ di' = di /\ dbuf' = dbuf /\ closed' = closed
  BY DEF vars, fetchVars, drainVars, readVars, Broken
<1>2. /\ start' = start /\ end' = end /\ nChunks' = nChunks /\ Indices' = Indices
      /\ Received' = Received /\ Streaming' = Streaming
  BY <1>1, RangeSame DEF Received, Streaming
<1>3. Geometry' /\ WorkInv' /\ SlotInv' /\ DrainInv' /\ CountInv'
  BY <1>1, FetchStill
<1>4. ChanInv' /\ ReadInv' /\ BytesInOrder' /\ StatusInv'
  BY <1>1, ReadStill
<1>5. FailInv' /\ FirstInv'
  <2>1. \A i : FailAt(i) => FailAt(i)'
    BY <1>1, TakeFails
  <2> QED
    BY <1>1, <2>1, FailuresStay
<1>6. EofInv'
  BY <1>1, <1>2 DEF EofInv
<1>7. TypeOK'
  BY <1>1, <1>2 DEF TypeOK, rangeVars
<1> QED
  BY <1>1, <1>3, <1>4, <1>5, <1>6, <1>7

LEMMA NextKeeps ==
  ASSUME PInv, Next
  PROVE  PInv'
<1>1. CASE \E w \in Workers : WorkerStep(w)
  <2>1. PICK w \in Workers : WorkerStep(w)
    BY <1>1
  <2> QED
    BY <2>1, ClaimKeeps, CheckCtxKeeps, PublishKeeps, AbandonKeeps, FetchKeeps DEF WorkerStep
<1>2. CASE DrainStep
  BY <1>2, DrainRecvKeeps, DeliverKeeps, DrainCancelledKeeps DEF DrainStep
<1>3. CASE Prime \/ ReadNext \/ ReadSome \/ WriteFails \/ Cancel
  BY <1>3, PrimeKeeps, ReadNextKeeps, ReadSomeKeeps, WriteFailsKeeps, CancelKeeps
<1>4. CASE Close \/ Sink \/ CloseReturns
  BY <1>4, CloseKeeps
<1> QED
  BY <1>1, <1>2, <1>3, <1>4 DEF Next

(* The invariant holds in every reachable state: every claimed window is with
   one worker, in its slot, with the drainer, in the channel or with the
   consumer, in order, and a failure is on its way until it is seen. *)
THEOREM Invariance == Spec => []PInv
<1>1. Init => PInv
  BY InitKeeps
<1>2. PInv /\ [Next]_vars => PInv'
  BY NextKeeps, StutterKeeps
<1> QED
  BY <1>1, <1>2, PTL DEF Spec

(* Type correctness of the reader: the index counter passes the number of
   windows at most once per worker, and the channel keeps its capacity. *)
THEOREM TypeCorrect == Spec => []TypeOK
<1>1. PInv => TypeOK
  BY DEF PInv
<1> QED
  BY <1>1, Invariance, PTL

(* Read hands the bytes of the range on strictly in order, without a gap
   unless a window came back short, whatever order the workers fetch in. *)
THEOREM DeliveredInOrder == Spec => []BytesInOrder
<1>1. PInv => BytesInOrder
  BY DEF PInv
<1> QED
  BY <1>1, Invariance, PTL

(* A stream that Read ends with io.EOF is the whole range. *)
THEOREM EofComplete == Spec => []EofMeansComplete
<1>1. PInv => EofMeansComplete
  BY DEF PInv, EofInv, EofMeansComplete
<1> QED
  BY <1>1, Invariance, PTL

(* Prime reports a failure of window 0 before streamObject commits the status
   line, and nothing was sent when it answers 502. *)
THEOREM FirstFailureSeen == Spec => []FirstFailureBeforeHeaders
<1>1. PInv => FirstFailureBeforeHeaders
  BY DEF PInv, FirstInv, StatusInv, FirstFailureBeforeHeaders
<1> QED
  BY <1>1, Invariance, PTL
=============================================================================
