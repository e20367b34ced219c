-------------------------- MODULE BlynkFifoProofs --------------------------
(***************************************************************************)
(* The ring buffer keeps its promise for every size, every length of a     *)
(* call and every number of bytes.                                         *)
(***************************************************************************)
EXTENDS BlynkFifo, TLAPS

(* What the calls have found out about their lengths. *)
Lengths ==
  /\ wpc \in {"space", "look", "copy", "publish"} => 1 <= wc
  /\ rpc \in {"data", "look", "copy", "publish"} => 1 <= rc
  /\ wpc \in {"copy", "publish"} => 1 <= wf /\ wf <= wc
  /\ rpc \in {"copy", "publish"} => 1 <= rf /\ rf <= rc
  /\ wpc = "publish" => w + wf <= N
  /\ rpc = "publish" => r + rf <= N

NoOverlap == ~broken => ~Overlap(rpc, wpc) /\ ~Overlap(wpc, rpc)

Safe == TypeOK /\ Lengths
-----------------------------------------------------------------------------
LEMMA Incremented ==
  ASSUME NEW i \in Index, NEW n \in 0..N
  PROVE  /\ _inc(i, n) \in Index
         /\ _inc(i, n) = IF i + n < N THEN i + n ELSE i + n - N
BY FifoAssumption DEF _inc, Index

LEMMA Spaces ==
  ASSUME TypeOK, NEW s \in Index
  PROVE  /\ free(s) \in 0..(N - 1) /\ size(s) \in 0..(N - 1)
         /\ free(_r) = N - 1 - size(_w)
BY FifoAssumption DEF free, size, Index, TypeOK

LEMMA Minimum ==
  ASSUME NEW m \in Nat, NEW n \in Nat
  PROVE  /\ Smaller(m, n) \in Nat /\ Smaller(m, n) <= m /\ Smaller(m, n) <= n
         /\ m >= 1 /\ n >= 1 => Smaller(m, n) >= 1
BY DEF Smaller
-----------------------------------------------------------------------------
(* The indices and lengths are in range whether or not clears overlap. *)
LEMMA SafeInit == Init => Safe
<1> SUFFICES ASSUME Init PROVE Safe
  OBVIOUS
<1>1. N \in Nat /\ N > 0
  BY FifoAssumption
<1>2. 0 \in Index
  BY <1>1 DEF Index
<1>3. TypeOK
  <2>1. _b \in [Index -> Nat]
    BY DEF Init
  <2>2. broken \in BOOLEAN
    BY DEF Init
  <2>3. QED
    BY <1>2, <2>1, <2>2 DEF Init, TypeOK, Busy
<1>4. Lengths
  BY DEF Init, Lengths
<1>5. QED
  BY <1>3, <1>4 DEF Safe

LEMMA SafeNext == Safe /\ [Next]_vars => Safe'
<1> SUFFICES ASSUME Safe, [Next]_vars PROVE Safe'
  OBVIOUS
<1> USE DEF Safe
<1>n. N \in Nat /\ N > 0 /\ Sizes \subseteq Nat \ {0}
  BY FifoAssumption
<1>0. 0 \in Index
  BY <1>n DEF Index
<1>1. ASSUME NEW n \in Sizes, Put(n) PROVE Safe'
  BY <1>n, <1>1 DEF Put, TypeOK, Lengths, ringVars, readerVars, Busy
<1>2. CASE PutLook
  BY <1>2 DEF PutLook, TypeOK, Lengths, ringVars, readerVars, Busy, Overlap
<1>3. CASE PutFull
  BY <1>0, <1>3 DEF PutFull, TypeOK, Lengths, ringVars, readerVars, Busy
<1>4. CASE PutSpace
  <2>1. free(ws) \in 0..(N - 1)
    BY Spaces DEF TypeOK
  <2>2. free(ws) \in Nat /\ free(ws) >= 1
    BY <1>n, <1>4, <2>1 DEF PutSpace
  <2>3. wf' \in Nat /\ 1 <= wf' /\ wf' <= wc
    BY <1>4, <2>2, Minimum DEF PutSpace, TypeOK, Lengths
  <2>4. QED
    BY <1>0, <1>4, <2>3 DEF PutSpace, TypeOK, Lengths, ringVars, readerVars, Busy
<1>5. CASE PutCopy
  <2>1. N - _w \in Nat /\ N - _w >= 1
    BY <1>n DEF TypeOK, Index
  <2>2. wf' \in Nat /\ 1 <= wf' /\ wf' <= wc /\ wf' <= N - _w
    BY <1>5, <2>1, Minimum DEF PutCopy, TypeOK, Lengths
  <2>3. w' \in Index /\ w' + wf' <= N
    BY <1>n, <1>5, <2>2 DEF PutCopy, TypeOK, Index
  <2>4. _b' \in [Index -> Nat]
    <3>1. \A n \in Index : n \in _w..(_w + wf' - 1) => sent + n - _w \in Nat
      BY <1>n, <2>2 DEF TypeOK, Index
    <3>2. \A n \in Index : _b[n] \in Nat
      BY DEF TypeOK
    <3>3. QED
      BY <1>5, <3>1, <3>2 DEF PutCopy
  <2>5. QED
    BY <1>5, <2>2, <2>3, <2>4 DEF PutCopy, TypeOK, Lengths, readerVars, Busy
<1>6. CASE PutPublish
  <2>1. _w' \in Index
    <3>1. wf \in 0..N
      BY <1>n, <1>6 DEF PutPublish, TypeOK, Lengths, Index
    <3>2. QED
      BY <1>6, <3>1, Incremented DEF PutPublish, TypeOK
  <2>2. wc' \in Nat /\ (wc' # 0 => 1 <= wc')
    BY <1>6 DEF PutPublish, TypeOK, Lengths
  <2>3. sent' \in Nat \ {0}
    BY <1>6 DEF PutPublish, TypeOK
  <2>4. QED
    BY <1>0, <1>6, <2>1, <2>2, <2>3 DEF PutPublish, TypeOK, Lengths, readerVars, Busy
<1>7. ASSUME NEW n \in Sizes, Get(n) PROVE Safe'
  BY <1>n, <1>7 DEF Get, TypeOK, Lengths, ringVars, writerVars, Busy
<1>8. CASE GetLook
  BY <1>8 DEF GetLook, TypeOK, Lengths, ringVars, writerVars, Busy, Overlap
<1>9. CASE GetEmpty
  BY <1>0, <1>9 DEF GetEmpty, TypeOK, Lengths, ringVars, writerVars, Busy
<1>10. CASE GetData
  <2>1. size(rs) \in 0..(N - 1)
    BY Spaces DEF TypeOK
  <2>2. size(rs) \in Nat /\ size(rs) >= 1
    BY <1>n, <1>10, <2>1 DEF GetData
  <2>3. rf' \in Nat /\ 1 <= rf' /\ rf' <= rc
    BY <1>10, <2>2, Minimum DEF GetData, TypeOK, Lengths
  <2>4. QED
    BY <1>0, <1>10, <2>3 DEF GetData, TypeOK, Lengths, ringVars, writerVars, Busy
<1>11. CASE GetCopy
  <2>1. N - _r \in Nat /\ N - _r >= 1
    BY <1>n DEF TypeOK, Index
  <2>2. rf' \in Nat /\ 1 <= rf' /\ rf' <= rc /\ rf' <= N - _r
    BY <1>11, <2>1, Minimum DEF GetCopy, TypeOK, Lengths
  <2>3. r' \in Index /\ r' + rf' <= N
    BY <1>n, <1>11, <2>2 DEF GetCopy, TypeOK, Index
  <2>4. QED
    BY <1>11, <2>2, <2>3 DEF GetCopy, TypeOK, Lengths, ringVars, writerVars, Busy
<1>12. CASE GetPublish
  <2>1. _r' \in Index
    <3>1. rf \in 0..N
      BY <1>n, <1>12 DEF GetPublish, TypeOK, Lengths, Index
    <3>2. QED
      BY <1>12, <3>1, Incremented DEF GetPublish, TypeOK
  <2>2. rc' \in Nat /\ (rc' # 0 => 1 <= rc')
    BY <1>12 DEF GetPublish, TypeOK, Lengths
  <2>3. got' \in Nat \ {0}
    BY <1>12 DEF GetPublish, TypeOK
  <2>4. QED
    BY <1>0, <1>12, <2>1, <2>2, <2>3 DEF GetPublish, TypeOK, Lengths, writerVars, Busy
<1>13. CASE WriterClears
  BY <1>0, <1>13 DEF WriterClears, Forget, Overlap, TypeOK, Lengths, readerVars, Busy
<1>14. CASE ReaderClears
  BY <1>0, <1>14 DEF ReaderClears, Forget, Overlap, TypeOK, Lengths, writerVars, Busy
<1>15. CASE WriterCleared
  BY <1>0, <1>15 DEF WriterCleared, TypeOK, Lengths, readerVars, Busy
<1>16. CASE ReaderCleared
  BY <1>0, <1>16 DEF ReaderCleared, TypeOK, Lengths, writerVars, Busy
<1>17. CASE UNCHANGED vars
  BY <1>17 DEF vars, ringVars, writerVars, readerVars, TypeOK, Lengths
<1>18. QED
  BY <1>1, <1>2, <1>3, <1>4, <1>5, <1>6, <1>7, <1>8, <1>9, <1>10, <1>11, <1>12,
     <1>13, <1>14, <1>15, <1>16, <1>17 DEF Next, Writer, Reader

(* The indices stay inside the buffer. *)
THEOREM TypesHold == Spec => []TypeOK
<1>1. Safe => TypeOK
  BY DEF Safe
<1>2. QED
  BY <1>1, SafeInit, SafeNext, PTL DEF Spec

(* No memcpy leaves the buffer or the caller's bytes, even when clears    *)
(* overlap.                                                               *)
THEOREM CopiesHold == Spec => []CopiesInBounds
<1>1. Safe => CopiesInBounds
  BY FifoAssumption DEF Safe, TypeOK, Lengths, CopiesInBounds, Writing, Reading, Index
<1>2. QED
  BY <1>1, SafeInit, SafeNext, PTL DEF Spec
-----------------------------------------------------------------------------
(* Unless a clear overlaps, the ring holds the rest of the stream. *)
Ring == NoOverlap /\ Consecutive /\ Conservative

LEMMA TwoIncrements ==
  ASSUME NEW i \in Index, NEW m \in 0..N, NEW n \in 0..N, m + n <= N
  PROVE  _inc(_inc(i, m), n) = _inc(i, m + n)
<1>n. N \in Nat /\ N > 0
  BY FifoAssumption
<1>1. m + n \in 0..N
  BY <1>n
<1>2. /\ _inc(i, m) = IF i + m < N THEN i + m ELSE i + m - N
      /\ _inc(i, m) \in Index
  BY Incremented
<1>3. _inc(_inc(i, m), n) = IF _inc(i, m) + n < N THEN _inc(i, m) + n ELSE _inc(i, m) + n - N
  BY <1>2, Incremented
<1>4. _inc(i, m + n) = IF i + (m + n) < N THEN i + (m + n) ELSE i + (m + n) - N
  BY <1>1, Incremented
<1>5. QED
  BY <1>n, <1>2, <1>3, <1>4 DEF Index

LEMMA WriteIndex ==
  ASSUME TypeOK
  PROVE  _w = _inc(_r, size(_w))
<1>n. N \in Nat /\ N > 0
  BY FifoAssumption
<1>1. size(_w) \in 0..N
  BY <1>n, Spaces DEF TypeOK
<1>2. _inc(_r, size(_w)) = IF _r + size(_w) < N THEN _r + size(_w) ELSE _r + size(_w) - N
  BY <1>1, Incremented DEF TypeOK
<1>3. QED
  BY <1>n, <1>2 DEF TypeOK, size, Index

(* While both sides are at work or idle, the stream's length is the ring's. *)
LEMMA Level ==
  ASSUME Safe, Consecutive, ~broken, wpc # "cleared", rpc # "cleared"
  PROVE  /\ sent - got = size(_w) /\ sent - got \in 0..(N - 1)
         /\ free(_r) = N - 1 - (sent - got)
         /\ \A n \in 0..(sent - got - 1) : _b[_inc(_r, n)] = got + n
<1>1. /\ sent - got = size(_w)
      /\ \A n \in 0..(sent - got - 1) : _b[_inc(_r, n)] = got + n
  BY DEF Consecutive
<1>2. size(_w) \in 0..(N - 1) /\ free(_r) = N - 1 - size(_w)
  BY Spaces DEF Safe, TypeOK
<1>3. QED
  BY <1>1, <1>2

LEMMA PutCopyKeepsRing ==
  ASSUME Safe, Safe', Ring, PutCopy
  PROVE  Ring'
<1>n. N \in Nat /\ N > 0
  BY FifoAssumption
<1>1. NoOverlap'
  BY DEF PutCopy, Ring, NoOverlap, Overlap, Busy, readerVars
<1> SUFFICES ASSUME ~broken PROVE Consecutive' /\ Conservative'
  BY <1>1 DEF Ring, Consecutive, Conservative, PutCopy
<1>2. wpc # "cleared" /\ rpc # "cleared" /\ wpc' = "publish" /\ rpc' = rpc
  BY DEF PutCopy, Ring, NoOverlap, Overlap, Busy, readerVars
<1>3. UNCHANGED <<_w, _r, sent, got, broken, rs, rf, r>>
  BY DEF PutCopy, readerVars
<1>4. /\ sent - got = size(_w) /\ sent - got \in 0..(N - 1)
      /\ \A n \in 0..(sent - got - 1) : _b[_inc(_r, n)] = got + n
  BY <1>2, Level DEF Ring
<1>t. /\ _w \in Nat /\ _w < N /\ _r \in Nat /\ _r < N
      /\ sent \in Nat /\ got \in Nat
  BY <1>n DEF Safe, TypeOK, Index
<1>5. /\ wf' \in Nat /\ wf' <= N - 1 - (sent - got) /\ _w + wf' <= N /\ w' = _w
  <2>1. wf <= N - 1 - (sent - got)
    BY DEF PutCopy, Ring, Conservative
  <2>2. N - _w \in Nat /\ wf \in Nat
    BY <1>n DEF Safe, TypeOK, Index
  <2>3. wf' = Smaller(wf, N - _w) /\ w' = _w
    BY DEF PutCopy
  <2>4. wf' \in Nat /\ wf' <= wf /\ wf' <= N - _w
    BY <2>2, <2>3, Minimum
  <2>5. QED
    BY <1>n, <1>t, <1>4, <2>1, <2>2, <2>3, <2>4
<1>6. _b' = [n \in Index |-> IF n \in _w..(_w + wf' - 1) THEN sent + n - _w ELSE _b[n]]
  BY DEF PutCopy
<1>7. \A n \in 0..(sent - got - 1) : _b'[_inc(_r, n)] = got + n
  <2> TAKE n \in 0..(sent - got - 1)
  <2>1. n \in 0..N /\ _r \in Index /\ _w \in Index
    BY <1>n, <1>4 DEF Safe, TypeOK
  <2>2. /\ _inc(_r, n) \in Index
        /\ _inc(_r, n) = IF _r + n < N THEN _r + n ELSE _r + n - N
    BY <2>1, Incremented
  <2>3. _inc(_r, n) \notin _w..(_w + wf' - 1)
    <3>1. size(_w) = IF _w - _r < 0 THEN (_w - _r) + N ELSE _w - _r
      BY DEF size
    <3>2. PICK m \in Nat : m = wf'
      BY <1>5
    <3>3. m <= N - 1 - (sent - got) /\ n < sent - got /\ n \in Nat
      BY <1>4, <1>5, <2>1, <3>2
    <3>4. _inc(_r, n) \notin _w..(_w + m - 1)
      BY <1>n, <1>t, <1>4, <2>2, <3>1, <3>3
    <3>5. QED
      BY <3>2, <3>4
  <2>4. QED
    BY <1>4, <1>6, <2>2, <2>3
<1>8. Consecutive'
  BY <1>2, <1>3, <1>4, <1>7 DEF Consecutive, size, _inc, Safe, TypeOK
<1>9. \A n \in 0..(wf' - 1) : _b'[w' + n] = sent + n
  <2> TAKE n \in 0..(wf' - 1)
  <2>1. _w + n \in Index /\ _w + n \in _w..(_w + wf' - 1)
    <3>1. PICK m \in Nat : m = wf'
      BY <1>5
    <3>2. n \in 0..(m - 1) /\ _w + m <= N
      BY <1>5, <3>1
    <3>3. _w + n \in 0..(N - 1) /\ _w + n \in _w..(_w + m - 1)
      BY <1>n, <1>t, <3>2
    <3>4. QED
      BY <3>1, <3>3 DEF Index
  <2>2. sent + (_w + n) - _w = sent + n
    BY <1>n DEF Safe, TypeOK, Index
  <2>3. QED
    BY <1>5, <1>6, <2>1, <2>2
<1>10. Conservative'
  BY <1>2, <1>3, <1>5, <1>9 DEF Ring, Conservative, size
<1>11. QED
  BY <1>8, <1>10

LEMMA PutPublishKeepsRing ==
  ASSUME Safe, Safe', Ring, PutPublish
  PROVE  Ring'
<1>n. N \in Nat /\ N > 0
  BY FifoAssumption
<1>1. NoOverlap'
  BY DEF PutPublish, Ring, NoOverlap, Overlap, Busy, readerVars
<1> SUFFICES ASSUME ~broken PROVE Consecutive' /\ Conservative'
  BY <1>1 DEF Ring, Consecutive, Conservative, PutPublish
<1>2. /\ wpc # "cleared" /\ rpc # "cleared" /\ wpc = "publish" /\ rpc' = rpc
      /\ wpc' \in {"idle", "space"}
  BY DEF PutPublish, Ring, NoOverlap, Overlap, Busy, readerVars
<1>3. UNCHANGED <<_b, _r, got, broken, rs, rf, r>>
  BY DEF PutPublish, readerVars
<1>4. /\ sent - got = size(_w) /\ sent - got \in 0..(N - 1)
      /\ \A n \in 0..(sent - got - 1) : _b[_inc(_r, n)] = got + n
  BY <1>2, Level DEF Ring
<1>t. /\ _w \in Nat /\ _w < N /\ _r \in Nat /\ _r < N
      /\ sent \in Nat /\ got \in Nat /\ wf \in Nat
      /\ _w \in Index /\ _r \in Index
  BY <1>n DEF Safe, TypeOK, Index
<1>5. /\ w = _w /\ w + wf <= N /\ wf <= N - 1 - (sent - got)
      /\ \A n \in 0..(wf - 1) : _b[_w + n] = sent + n
  BY <1>2 DEF Ring, Conservative, Safe, Lengths
<1>6. /\ _w' = _inc(_w, wf) /\ sent' = sent + wf
      /\ _inc(_w, wf) = IF _w + wf < N THEN _w + wf ELSE _w + wf - N
  <2>1. wf \in 0..N
    BY <1>n, <1>t, <1>5
  <2>2. QED
    BY <1>t, <1>5, <2>1, Incremented DEF PutPublish
<1>7. size(_w)' = sent' - got'
  <2>1. size(_w) = IF _w - _r < 0 THEN (_w - _r) + N ELSE _w - _r
    BY DEF size
  <2>2. size(_w)' = IF _w' - _r < 0 THEN (_w' - _r) + N ELSE _w' - _r
    BY <1>3 DEF size
  <2>3. sent' - got' = (sent + wf) - got
    BY <1>3, <1>6
  <2>4. QED
    BY <1>n, <1>t, <1>4, <1>5, <1>6, <2>1, <2>2, <2>3
<1>8. \A n \in 0..(sent' - got' - 1) : _b[_inc(_r, n)] = got + n
  <2> TAKE n \in 0..(sent' - got' - 1)
  <2>1. n \in Nat /\ n < (sent + wf) - got
    BY <1>3, <1>6, <1>t
  <2>2. CASE n < sent - got
    BY <1>4, <1>t, <2>1, <2>2
  <2>3. CASE ~(n < sent - got)
    <3>1. PICK m \in 0..(wf - 1) : n = (sent - got) + m
      <4>1. n - (sent - got) \in 0..(wf - 1)
        BY <1>t, <2>1, <2>3
      <4>2. n = (sent - got) + (n - (sent - got))
        BY <1>t, <2>1
      <4>3. QED
        BY <4>1, <4>2
    <3>2. sent - got \in 0..N /\ m \in 0..N /\ (sent - got) + m <= N
      BY <1>n, <1>t, <1>4, <1>5
    <3>3. _inc(_r, n) = _inc(_w, m)
      <4>1. _inc(_inc(_r, sent - got), m) = _inc(_r, (sent - got) + m)
        BY <1>t, <3>2, TwoIncrements
      <4>2. _w = _inc(_r, sent - got)
        BY <1>4, WriteIndex DEF Safe
      <4>3. QED
        BY <3>1, <4>1, <4>2
    <3>4. _inc(_w, m) = IF _w + m < N THEN _w + m ELSE _w + m - N
      BY <1>t, <3>2, Incremented
    <3>5. _w + m < N
      BY <1>n, <1>t, <1>5, <3>2
    <3>6. _b[_inc(_r, n)] = sent + m
      BY <1>5, <3>3, <3>4, <3>5
    <3>7. QED
      BY <1>t, <3>1, <3>6
  <2>4. QED
    BY <2>2, <2>3
<1>9. Consecutive'
  <2>1. sent' >= got'
    BY <1>3, <1>4, <1>6, <1>t
  <2>2. _inc(_r, 0)' = _inc(_r, 0) /\ \A n : _inc(_r, n)' = _inc(_r, n)
    BY <1>3 DEF _inc
  <2>3. "cleared" \notin {wpc', rpc'}
    BY <1>2
  <2>4. sent' - got' = size(_w)'
    BY <1>7
  <2>5. \A n \in 0..(sent' - got' - 1) : _b'[_inc(_r, n)'] = got' + n
    BY <1>3, <1>8, <2>2
  <2>6. QED
    BY <2>1, <2>3, <2>4, <2>5 DEF Consecutive
<1>10. Conservative'
  <2>1. sent - got <= sent' - got'
    BY <1>3, <1>6, <1>t
  <2>2. rpc = "look" => size(rs) <= sent' - got'
    <3>1. size(rs) \in Int
      BY <1>n, Spaces DEF Safe, TypeOK
    <3>2. rpc = "look" => size(rs) <= sent - got
      BY DEF Ring, Conservative
    <3>3. QED
      BY <1>t, <1>3, <1>6, <2>1, <3>1, <3>2
  <2>3. rpc \in {"copy", "publish"} => rf <= sent' - got'
    <3>1. rf \in Nat /\ (rpc \in {"copy", "publish"} => rf <= sent - got)
      BY DEF Ring, Conservative, Safe, TypeOK
    <3>2. QED
      BY <1>t, <1>3, <1>6, <2>1, <3>1
  <2>4. rpc = "publish" => r = _r
    BY DEF Ring, Conservative
  <2>5. size(rs)' = size(rs)
    BY <1>3 DEF size
  <2>6. QED
    BY <1>2, <1>3, <2>2, <2>3, <2>4, <2>5 DEF Conservative
<1>11. QED
  BY <1>9, <1>10

LEMMA GetPublishKeepsRing ==
  ASSUME Safe, Safe', Ring, GetPublish
  PROVE  Ring'
<1>n. N \in Nat /\ N > 0
  BY FifoAssumption
<1>1. NoOverlap'
  BY DEF GetPublish, Ring, NoOverlap, Overlap, Busy, writerVars
<1> SUFFICES ASSUME ~broken PROVE Consecutive' /\ Conservative'
  BY <1>1 DEF Ring, Consecutive, Conservative, GetPublish
<1>2. /\ wpc # "cleared" /\ rpc # "cleared" /\ rpc = "publish" /\ wpc' = wpc
      /\ rpc' \in {"idle", "data"}
  BY DEF GetPublish, Ring, NoOverlap, Overlap, Busy, writerVars
<1>3. UNCHANGED <<_b, _w, sent, broken, ws, wf, w>>
  BY DEF GetPublish, writerVars
<1>4. /\ sent - got = size(_w) /\ sent - got \in 0..(N - 1)
      /\ \A n \in 0..(sent - got - 1) : _b[_inc(_r, n)] = got + n
  BY <1>2, Level DEF Ring
<1>t. /\ _w \in Nat /\ _w < N /\ _r \in Nat /\ _r < N
      /\ sent \in Nat /\ got \in Nat /\ rf \in Nat
      /\ _w \in Index /\ _r \in Index
  BY <1>n DEF Safe, TypeOK, Index
<1>5. r = _r /\ r + rf <= N /\ rf <= sent - got
  BY <1>2 DEF Ring, Conservative, Safe, Lengths
<1>6. /\ _r' = _inc(_r, rf) /\ got' = got + rf
      /\ _inc(_r, rf) = IF _r + rf < N THEN _r + rf ELSE _r + rf - N
  <2>1. rf \in 0..N
    BY <1>n, <1>t, <1>5
  <2>2. QED
    BY <1>t, <1>5, <2>1, Incremented DEF GetPublish
<1>7. size(_w)' = sent' - got'
  <2>1. size(_w) = IF _w - _r < 0 THEN (_w - _r) + N ELSE _w - _r
    BY DEF size
  <2>2. size(_w)' = IF _w - _r' < 0 THEN (_w - _r') + N ELSE _w - _r'
    BY <1>3 DEF size
  <2>3. sent' - got' = sent - (got + rf)
    BY <1>3, <1>6
  <2>4. QED
    BY <1>n, <1>t, <1>4, <1>5, <1>6, <2>1, <2>2, <2>3
<1>8. \A n \in 0..(sent' - got' - 1) : _b[_inc(_r, n)'] = got' + n
  <2> TAKE n \in 0..(sent' - got' - 1)
  <2>1. n \in Nat /\ n < sent - (got + rf)
    BY <1>3, <1>6, <1>t
  <2>2. rf + n \in 0..(sent - got - 1) /\ n \in 0..N /\ rf \in 0..N /\ rf + n <= N
    BY <1>n, <1>t, <1>4, <2>1
  <2>3. _inc(_r, n)' = _inc(_r', n)
    BY DEF _inc
  <2>4. _inc(_r, n)' = _inc(_r, rf + n)
    BY <1>t, <1>6, <2>2, <2>3, TwoIncrements
  <2>5. _b[_inc(_r, n)'] = got + (rf + n)
    BY <1>4, <2>2, <2>4
  <2>6. QED
    BY <1>6, <1>t, <2>1, <2>5
<1>9. Consecutive'
  <2>1. sent' >= got'
    BY <1>3, <1>4, <1>5, <1>6, <1>t
  <2>2. "cleared" \notin {wpc', rpc'}
    BY <1>2
  <2>3. \A n \in 0..(sent' - got' - 1) : _b'[_inc(_r, n)'] = got' + n
    BY <1>3, <1>8
  <2>4. QED
    BY <1>7, <2>1, <2>2, <2>3 DEF Consecutive
<1>10. Conservative'
  <2>1. N - 1 - (sent - got) <= N - 1 - (sent' - got')
    BY <1>n, <1>3, <1>6, <1>t
  <2>2. wpc = "look" => free(ws) <= N - 1 - (sent' - got')
    <3>1. free(ws) \in Int
      BY <1>n, Spaces DEF Safe, TypeOK
    <3>2. wpc = "look" => free(ws) <= N - 1 - (sent - got)
      BY DEF Ring, Conservative
    <3>3. QED
      BY <1>n, <1>t, <1>3, <1>6, <2>1, <3>1, <3>2
  <2>3. wpc \in {"copy", "publish"} => wf <= N - 1 - (sent' - got')
    <3>1. wf \in Nat /\ (wpc \in {"copy", "publish"} => wf <= N - 1 - (sent - got))
      BY DEF Ring, Conservative, Safe, TypeOK
    <3>2. QED
      BY <1>n, <1>t, <1>3, <1>6, <2>1, <3>1
  <2>4. wpc = "publish" => w = _w /\ \A n \in 0..(wf - 1) : _b[w + n] = sent + n
    BY DEF Ring, Conservative
  <2>5. free(ws)' = free(ws)
    BY <1>3 DEF free
  <2>6. QED
    BY <1>2, <1>3, <2>2, <2>3, <2>4, <2>5 DEF Conservative
<1>11. QED
  BY <1>9, <1>10

(* The looks at the indices find no more than there is. *)
LEMMA LooksKeepRing ==
  ASSUME Safe, Safe', Ring, PutLook \/ GetLook
  PROVE  Ring'
<1>1. NoOverlap'
  BY DEF PutLook, GetLook, Ring, NoOverlap, Overlap, Busy, readerVars, writerVars
<1> SUFFICES ASSUME ~broken, ~broken' PROVE Consecutive' /\ Conservative'
  BY <1>1 DEF Ring, Consecutive, Conservative, PutLook, GetLook
<1>2. UNCHANGED <<_b, _w, _r, sent, got, wc, wf, w, rc, rf, r>>
  BY DEF PutLook, GetLook, ringVars, readerVars, writerVars
<1>3. "cleared" \notin {wpc, rpc} /\ "cleared" \notin {wpc', rpc'}
  BY DEF PutLook, GetLook, Overlap, Busy, readerVars, writerVars
<1>4. /\ sent - got = size(_w) /\ free(_r) = N - 1 - (sent - got)
      /\ sent - got \in 0..(N - 1)
  BY <1>3, Level DEF Ring
<1>5. Consecutive'
  BY <1>2, <1>3 DEF Ring, Consecutive, size, _inc
<1>6. CASE PutLook
  <2>1. wpc' = "look" /\ ws' = _r /\ rpc' = rpc /\ rs' = rs
    BY <1>6 DEF PutLook, readerVars
  <2>2. free(ws)' = free(_r)
    BY <1>2, <2>1 DEF free
  <2>3. free(_r) <= N - 1 - (sent - got)
    BY <1>4, FifoAssumption
  <2>4. size(rs)' = size(rs)
    BY <1>2, <2>1 DEF size
  <2>5. QED
    BY <1>2, <1>5, <2>1, <2>2, <2>3, <2>4 DEF Ring, Conservative
<1>7. CASE GetLook
  <2>1. rpc' = "look" /\ rs' = _w /\ wpc' = wpc /\ ws' = ws
    BY <1>7 DEF GetLook, writerVars
  <2>2. size(rs)' = size(_w)
    BY <1>2, <2>1 DEF size
  <2>3. size(_w) <= sent - got
    BY <1>4, FifoAssumption
  <2>4. free(ws)' = free(ws)
    BY <1>2, <2>1 DEF free
  <2>5. QED
    BY <1>2, <1>5, <2>1, <2>2, <2>3, <2>4 DEF Ring, Conservative
<1>8. QED
  BY <1>5, <1>6, <1>7

LEMMA GuardsKeepRing ==
  ASSUME Safe, Safe', Ring,
         \/ \E n \in Sizes : Put(n) \/ Get(n)
         \/ PutFull \/ PutSpace \/ GetEmpty \/ GetData \/ GetCopy
  PROVE  Ring'
<1>1. /\ UNCHANGED <<_b, _w, _r, sent, got, broken, w>>
      /\ wpc = "cleared" <=> wpc' = "cleared"
      /\ rpc = "cleared" <=> rpc' = "cleared"
      /\ wpc' \in Busy => wpc \in Busy
      /\ rpc' \in Busy => rpc \in Busy
  BY DEF Put, Get, PutFull, PutSpace, GetEmpty, GetData, GetCopy,
         ringVars, readerVars, writerVars, Busy
<1>2. NoOverlap'
  BY <1>1 DEF Ring, NoOverlap, Overlap
<1>3. Consecutive'
  BY <1>1 DEF Ring, Consecutive, size, _inc
<1> SUFFICES ASSUME ~broken PROVE Conservative'
  BY <1>1, <1>2, <1>3 DEF Ring, Conservative
<1>4. free(ws) \in Nat /\ size(rs) \in Nat
  BY FifoAssumption, Spaces DEF Safe, TypeOK
<1>5. wpc' = "look" => wpc = "look" /\ ws' = ws
  BY DEF Put, Get, PutFull, PutSpace, GetEmpty, GetData, GetCopy, writerVars
<1>6. rpc' = "look" => rpc = "look" /\ rs' = rs
  BY DEF Put, Get, PutFull, PutSpace, GetEmpty, GetData, GetCopy, readerVars
<1>7. wpc' \in {"copy", "publish"} => wf' <= N - 1 - (sent - got)
  <2>1. CASE PutSpace
    <3>1. wf' <= free(ws) /\ wf' \in Nat
      BY <1>4, <2>1, Minimum DEF PutSpace, Safe, TypeOK
    <3>2. free(ws) <= N - 1 - (sent - got)
      BY <2>1 DEF PutSpace, Ring, Conservative
    <3>3. N - 1 - (sent - got) \in Int
      BY FifoAssumption DEF Safe, TypeOK
    <3>4. QED
      BY <1>4, <3>1, <3>2, <3>3
  <2>2. CASE ~PutSpace
    <3>1. wpc' \in {"copy", "publish"} => wpc' = wpc /\ wf' = wf
      BY <2>2 DEF Put, Get, PutFull, GetEmpty, GetData, GetCopy, writerVars
    <3>2. QED
      BY <3>1 DEF Ring, Conservative
  <2>3. QED
    BY <2>1, <2>2
<1>8. rpc' \in {"copy", "publish"} => rf' <= sent - got
  <2>1. CASE GetData \/ GetCopy
    <3>1. PICK m \in Nat : m <= sent - got /\ rf' <= m /\ rf' \in Nat
      <4>1. CASE GetData
        <5>1. rf' <= size(rs) /\ rf' \in Nat
          BY <1>4, <4>1, Minimum DEF GetData, Safe, TypeOK
        <5>2. QED
          BY <1>4, <4>1, <5>1 DEF GetData, Ring, Conservative
      <4>2. CASE GetCopy
        <5>1. N - _r \in Nat /\ rf \in Nat
          BY FifoAssumption DEF Safe, TypeOK, Index
        <5>2. rf' <= rf /\ rf' \in Nat
          BY <4>2, <5>1, Minimum DEF GetCopy
        <5>3. QED
          BY <4>2, <5>1, <5>2 DEF GetCopy, Ring, Conservative
      <4>3. QED
        BY <2>1, <4>1, <4>2
    <3>2. sent - got \in Int
      BY DEF Safe, TypeOK
    <3>3. QED
      BY <3>1, <3>2
  <2>2. CASE ~(GetData \/ GetCopy)
    <3>1. rpc' \in {"copy", "publish"} => rpc' = rpc /\ rf' = rf
      BY <2>2 DEF Put, Get, PutFull, PutSpace, GetEmpty, readerVars
    <3>2. QED
      BY <3>1 DEF Ring, Conservative
  <2>3. QED
    BY <2>1, <2>2
<1>9. wpc' = "publish" => wpc = "publish" /\ wf' = wf
  BY DEF Put, Get, PutFull, PutSpace, GetEmpty, GetData, GetCopy, writerVars
<1>10. rpc' = "publish" => r' = _r
  <2>1. CASE GetCopy
    BY <2>1 DEF GetCopy
  <2>2. CASE ~GetCopy
    <3>1. rpc' = "publish" => rpc = "publish" /\ r' = r
      BY <2>2 DEF Put, Get, PutFull, PutSpace, GetEmpty, GetData, readerVars
    <3>2. QED
      BY <3>1 DEF Ring, Conservative
  <2>3. QED
    BY <2>1, <2>2
<1>11. wpc' = "look" => free(ws)' <= N - 1 - (sent - got)
  <2>1. wpc' = "look" => free(ws)' = free(ws)
    BY <1>1, <1>5 DEF free
  <2>2. QED
    BY <1>5, <2>1 DEF Ring, Conservative
<1>12. rpc' = "look" => size(rs)' <= sent - got
  <2>1. rpc' = "look" => size(rs)' = size(rs)
    BY <1>1, <1>6 DEF size
  <2>2. QED
    BY <1>6, <2>1 DEF Ring, Conservative
<1>13. wpc' = "publish" => w' = _w /\ \A n \in 0..(wf' - 1) : _b[w' + n] = sent + n
  BY <1>1, <1>9 DEF Ring, Conservative
<1>14. QED
  BY <1>1, <1>7, <1>8, <1>10, <1>11, <1>12, <1>13 DEF Conservative

LEMMA ClearsKeepRing ==
  ASSUME Safe, Safe', Ring,
         WriterClears \/ ReaderClears \/ WriterCleared \/ ReaderCleared
  PROVE  Ring'
<1>n. N \in Nat /\ N > 0
  BY FifoAssumption
<1>t. sent \in Nat /\ got \in Nat
  BY DEF Safe, TypeOK
<1>1. CASE WriterClears \/ ReaderClears
  <2>1. NoOverlap'
    BY <1>1 DEF WriterClears, ReaderClears, Forget, NoOverlap, Overlap, Busy, readerVars, writerVars
  <2> SUFFICES ASSUME ~broken' PROVE Consecutive' /\ Conservative'
    BY <2>1 DEF Ring, Consecutive, Conservative
  <2>2. /\ got' = sent /\ sent' = sent /\ _r' = 0
        /\ "cleared" \in {wpc', rpc'}
        /\ wpc' \notin Busy /\ rpc' \notin Busy
    BY <1>1 DEF WriterClears, ReaderClears, Forget, Overlap, Busy, readerVars, writerVars
  <2>3. QED
    BY <1>t, <2>2 DEF Consecutive, Conservative, Busy
<1>2. CASE WriterCleared \/ ReaderCleared
  <2>1. NoOverlap'
    BY <1>2 DEF WriterCleared, ReaderCleared, Ring, NoOverlap, Overlap, Busy, readerVars, writerVars
  <2> SUFFICES ASSUME ~broken' PROVE Consecutive' /\ Conservative'
    BY <2>1 DEF Ring, Consecutive, Conservative
  <2>2. ~broken /\ sent' = sent /\ got' = got /\ _r' = _r /\ _w' = 0 /\ _b' = _b
    BY <1>2 DEF WriterCleared, ReaderCleared
  <2>3. got = sent /\ _r = 0
    BY <1>2, <2>2 DEF WriterCleared, ReaderCleared, Ring, Consecutive
  <2>4. wpc' \notin Busy /\ rpc' \notin Busy
    BY <1>2, <2>2 DEF WriterCleared, ReaderCleared, Ring, NoOverlap, Overlap, Busy, readerVars, writerVars
  <2>5. size(_w)' = 0 /\ sent - got = 0 /\ 0..(sent - got - 1) = {}
    BY <1>n, <1>t, <2>2, <2>3 DEF size
  <2>6. QED
    BY <1>t, <2>2, <2>3, <2>4, <2>5 DEF Consecutive, Conservative, Busy
<1>3. QED
  BY <1>1, <1>2

LEMMA RingNext == Safe /\ Safe' /\ Ring /\ [Next]_vars => Ring'
<1> SUFFICES ASSUME Safe, Safe', Ring, [Next]_vars PROVE Ring'
  OBVIOUS
<1>1. CASE PutCopy
  BY <1>1, PutCopyKeepsRing
<1>2. CASE PutPublish
  BY <1>2, PutPublishKeepsRing
<1>3. CASE GetPublish
  BY <1>3, GetPublishKeepsRing
<1>4. CASE PutLook \/ GetLook
  BY <1>4, LooksKeepRing
<1>5. CASE \/ \E n \in Sizes : Put(n) \/ Get(n)
           \/ PutFull \/ PutSpace \/ GetEmpty \/ GetData \/ GetCopy
  BY <1>5, GuardsKeepRing
<1>6. CASE WriterClears \/ ReaderClears \/ WriterCleared \/ ReaderCleared
  BY <1>6, ClearsKeepRing
<1>7. CASE UNCHANGED vars
  BY <1>7 DEF vars, ringVars, writerVars, readerVars, Ring, NoOverlap, Overlap,
     Consecutive, Conservative, size, free, _inc
<1>8. QED
  BY <1>1, <1>2, <1>3, <1>4, <1>5, <1>6, <1>7 DEF Next, Writer, Reader

LEMMA InvariantInit == Init => Safe /\ Ring
<1> SUFFICES ASSUME Init PROVE Safe /\ Ring
  OBVIOUS
<1>1. Safe
  BY SafeInit
<1>2. NoOverlap /\ Conservative
  BY DEF Init, NoOverlap, Overlap, Conservative
<1>3. Consecutive
  <2>1. size(_w) = 0
    BY FifoAssumption DEF Init, size
  <2>2. sent - got = 0 /\ sent >= got /\ 0..(sent - got - 1) = {}
    BY DEF Init
  <2>3. "cleared" \notin {wpc, rpc}
    BY DEF Init
  <2>4. QED
    BY <2>1, <2>2, <2>3 DEF Consecutive
<1>4. QED
  BY <1>1, <1>2, <1>3 DEF Ring

LEMMA InvariantHolds == Spec => [](Safe /\ Ring)
BY InvariantInit, SafeNext, RingNext, PTL DEF Spec

(* The ring holds exactly what was accepted and not yet read. *)
THEOREM RestIsConsecutive == Spec => []Consecutive
<1>1. Safe /\ Ring => Consecutive
  BY DEF Ring
<1>2. QED
  BY <1>1, InvariantHolds, PTL

(* An old look at the other side's index is never too generous. *)
THEOREM LooksAreConservative == Spec => []Conservative
<1>1. Safe /\ Ring => Conservative
  BY DEF Ring
<1>2. QED
  BY <1>1, InvariantHolds, PTL

(* The two memcpys never meet. *)
THEOREM CopiesAreDisjoint == Spec => []DisjointCopies
<1>1. Safe /\ Ring => DisjointCopies
  <2> SUFFICES ASSUME Safe, Ring, ~broken, wpc = "publish", rpc = "publish",
                      NEW n \in Writing, n \in Reading
               PROVE  FALSE
    BY DEF DisjointCopies
  <2>1. /\ sent - got = size(_w) /\ sent - got \in 0..(N - 1)
        /\ w = _w /\ r = _r /\ w + wf <= N /\ r + rf <= N
        /\ wf <= N - 1 - (sent - got) /\ rf <= sent - got
    BY Level DEF Ring, Conservative, Safe, Lengths
  <2>2. size(_w) = IF _w - _r < 0 THEN (_w - _r) + N ELSE _w - _r
    BY DEF size
  <2>3. /\ N \in Nat /\ _w \in Nat /\ _r \in Nat /\ wf \in Nat /\ rf \in Nat
        /\ sent \in Nat /\ got \in Nat
    BY FifoAssumption DEF Safe, TypeOK, Index
  <2>4. n \in Int /\ w <= n /\ n < w + wf /\ r <= n /\ n < r + rf
    BY <2>1, <2>3 DEF Writing, Reading
  <2>5. QED
    BY <2>1, <2>2, <2>3, <2>4
<1>2. QED
  BY <1>1, InvariantHolds, PTL

(* The reader gets the stream's bytes, in order. *)
THEOREM ReadsAreInOrder == Spec => ReadsInOrder
<1> DEFINE Step == ~broken /\ GetCopy => \A n \in Reading' : _b[n] = got + n - r'
<1>1. Safe /\ Ring /\ Safe' /\ [Next]_vars => Step
  <2> SUFFICES ASSUME Safe, Ring, Safe', ~broken, GetCopy, NEW n, n \in Reading'
               PROVE  _b[n] = got + n - r'
    OBVIOUS
  <2>n. /\ N \in Nat /\ N > 0 /\ _r \in Index /\ _r \in Nat /\ _r < N
        /\ sent \in Nat /\ got \in Nat /\ rf \in Nat
    BY FifoAssumption DEF Safe, TypeOK, Index
  <2>1. wpc # "cleared" /\ rpc # "cleared"
    BY DEF GetCopy, Ring, NoOverlap, Overlap, Busy
  <2>2. /\ sent - got \in 0..(N - 1)
        /\ \A m \in 0..(sent - got - 1) : _b[_inc(_r, m)] = got + m
    BY <2>1, Level DEF Ring
  <2>3. r' = _r /\ rf <= sent - got /\ rf' = Smaller(rf, N - _r)
    BY DEF GetCopy, Ring, Conservative
  <2>4. rf' \in Nat /\ rf' <= rf /\ rf' <= N - _r
    BY <2>n, <2>3, Minimum
  <2>5. n \in _r..(_r + rf' - 1)
    BY <2>3 DEF Reading
  <2>6. PICK m \in 0..(rf - 1) : n = _r + m /\ n < N
    <3>1. PICK l \in Nat : l = rf'
      BY <2>4
    <3>2. n \in _r..(_r + l - 1) /\ l <= rf /\ l <= N - _r
      BY <2>4, <2>5, <3>1
    <3>3. n \in Int /\ n - _r \in 0..(rf - 1) /\ n < N
      <4>1. _r \in Nat /\ l \in Nat
        BY <2>n, <3>1
      <4>2. n \in Int
        BY <3>2, <4>1
      <4>3. _r <= n
        BY <3>2, <4>1
      <4>4. n <= _r + l - 1
        BY <3>2, <4>1
      <4>5. QED
        BY <2>n, <3>2, <4>1, <4>2, <4>3, <4>4
    <3>4. PICK m \in 0..(rf - 1) : m = n - _r
      BY <3>3
    <3>5. n = _r + m
      BY <2>n, <3>3, <3>4
    <3>6. QED
      BY <3>3, <3>5
  <2>7. m \in 0..(sent - got - 1) /\ m \in 0..N /\ _r + m < N
    BY <2>n, <2>2, <2>3, <2>6
  <2>8. _inc(_r, m) = n
    BY <2>n, <2>6, <2>7, Incremented
  <2>9. _b[n] = got + m
    BY <2>2, <2>7, <2>8
  <2>10. QED
    BY <2>n, <2>3, <2>6, <2>9
<1>2. QED
  BY <1>1, InvariantHolds, PTL DEF Spec, ReadsInOrder

(* The ring implements the bounded stream. *)
THEOREM RingIsStream == Spec => KeepsStream
<1>1. Init => Stream!Init
  BY DEF Init, Stream!Init
<1>2. Safe /\ Ring /\ Safe' /\ [Next]_vars => [Stream!Next]_Stream!streamVars
  <2> SUFFICES ASSUME Safe, Ring, Safe', Next PROVE [Stream!Next]_Stream!streamVars
    BY DEF vars, Stream!streamVars
  <2> USE DEF Stream!streamVars, Stream!Next, Stream!Put, Stream!Get, Stream!Clear, Stream!Overlap
  <2>n. /\ N \in Nat /\ N > 0 /\ sent \in Nat /\ got \in Nat /\ wf \in Nat /\ rf \in Nat
        /\ broken \in BOOLEAN /\ sent' \in Nat /\ got' \in Nat
    BY FifoAssumption DEF Safe, TypeOK
  <2>1. CASE PutPublish
    <3>1. 1 <= wf /\ sent' = sent + wf /\ got' = got /\ broken' = broken
      BY <2>1 DEF PutPublish, Safe, Lengths
    <3>2. ~broken => wf <= N - 1 - (sent - got)
      BY <2>1 DEF PutPublish, Ring, Conservative
    <3>3. ~broken => sent' \in (sent + 1)..(got + (N - 1))
      BY <2>n, <3>1, <3>2
    <3>4. sent' >= sent
      BY <2>n, <3>1
    <3>5. QED
      BY <3>1, <3>3, <3>4
  <2>2. CASE GetPublish
    <3>1. 1 <= rf /\ got' = (IF broken THEN got ELSE got + rf) /\ sent' = sent /\ broken' = broken
      BY <2>2 DEF GetPublish, Safe, Lengths
    <3>2. ~broken => rf <= sent - got
      BY <2>2 DEF GetPublish, Ring, Conservative
    <3>3. ~broken => got' \in (got + 1)..sent
      BY <2>n, <3>1, <3>2
    <3>4. QED
      BY <3>1, <3>3
  <2>3. CASE WriterClears \/ ReaderClears
    <3>1. sent' = sent /\ (broken' => got' = got) /\ (~broken' => got' = sent) /\ broken' \in BOOLEAN
      BY <2>3 DEF WriterClears, ReaderClears, Forget, Overlap
    <3>2. sent' >= sent
      BY <2>n, <3>1
    <3>3. QED
      BY <3>1, <3>2
  <2>4. CASE PutLook \/ GetLook
    <3>1. sent' = sent /\ got' = got /\ (broken => broken') /\ broken' \in BOOLEAN
      BY <2>4, <2>n DEF PutLook, GetLook, Overlap
    <3>2. sent' >= sent
      BY <2>n, <3>1
    <3>3. QED
      BY <2>n, <3>1, <3>2
  <2>5. CASE UNCHANGED <<sent, got, broken>>
    BY <2>5
  <2>6. QED
    BY <2>1, <2>2, <2>3, <2>4, <2>5
    DEF Next, Writer, Reader, Put, Get, PutFull, PutSpace, PutCopy, GetEmpty, GetData,
        GetCopy, WriterCleared, ReaderCleared
<1>3. QED
  BY <1>1, <1>2, InvariantHolds, PTL DEF Spec, KeepsStream, Stream!Spec
=============================================================================
