----------------------------- MODULE BlynkFifo ------------------------------
(***************************************************************************)
(* The receive buffer of the Blynk link (BlynkFifo.h): a ring of N bytes   *)
(* with two indices and no lock.  The Bluetooth task writes to it in       *)
(* onWrite, the main task reads from it in read, and both clear it when    *)
(* they believe that a connection begins (BlynkSimpleEsp32_BLE.h).         *)
(*                                                                         *)
(* A step reads or writes at most one index that the other side stores:    *)
(* free and size read the other side's first, as they are written.  A byte *)
(* is its number in the order of acceptance; 0 is what a place holds that  *)
(* was never written.                                                      *)
(***************************************************************************)
EXTENDS Integers

CONSTANTS
  N,        (* the buffer's size: 2 * BLYNK_MAX_READBYTES                   *)
  Sizes,    (* how many bytes a call may put or get                         *)
  MaxSent   (* bound: bytes accepted                                        *)

ASSUME FifoAssumption ==
  /\ N \in Nat \ {0} /\ Sizes \subseteq Nat \ {0} /\ MaxSent \in Nat

VARIABLES
  _b, _w, _r,       (* the buffer and its indices, shared                   *)
  wpc, wc, ws, wf, w, (* the writer and its locals c, s, f, w in put       *)
  rpc, rc, rs, rf, r, (* the reader and its locals c, s, f, r in get       *)
  sent, got,        (* history: the numbers of the next byte in and out     *)
  broken            (* history: did a clear overlap a put or get since the  *)
                    (* last one that did not?                               *)

ringVars == <<_b, _w, _r>>
writerVars == <<wpc, wc, ws, wf, w>>
readerVars == <<rpc, rc, rs, rf, r>>
vars == <<ringVars, writerVars, readerVars, sent, got, broken>>

Index == 0..(N - 1)
Smaller(m, n) == IF m <= n THEN m ELSE n

_inc(i, n) == (i + n) % N

(* Mutant: all N places are used. *)
freeAll(s) == IF s - _w <= 0 THEN s - _w + N ELSE s - _w

free(s) == (IF s - _w <= 0 THEN s - _w + N ELSE s - _w) - 1
size(s) == IF s - _r < 0 THEN s - _r + N ELSE s - _r

Init ==
  /\ _b = [n \in Index |-> 0] /\ _w = 0 /\ _r = 0
  /\ wpc = "idle" /\ wc = 0 /\ ws = 0 /\ wf = 0 /\ w = 0
  /\ rpc = "idle" /\ rc = 0 /\ rs = 0 /\ rf = 0 /\ r = 0
  /\ sent = 1 /\ got = 1 /\ broken = FALSE

(* A clear is half done on one side while the other one is between its     *)
(* look at the indices and its own store.                                  *)
Busy == {"look", "copy", "publish"}
Overlap(one, other) == one = "cleared" /\ other \in Busy
-----------------------------------------------------------------------------
(* put(p, n), not blocking. *)
Put(n) ==
  /\ wpc = "idle" /\ sent + n <= MaxSent
  /\ wpc' = "space" /\ wc' = n
  /\ UNCHANGED <<ringVars, ws, wf, w, readerVars, sent, got, broken>>

PutLook ==
  /\ wpc = "space" /\ wpc' = "look" /\ ws' = _r
  /\ broken' = (broken \/ Overlap(rpc, "look"))
  /\ UNCHANGED <<ringVars, wc, wf, w, readerVars, sent, got>>

(* "no more space and not blocking": the rest is dropped, and onWrite does *)
(* not look at how much that was.                                          *)
PutFull ==
  /\ wpc = "look" /\ free(ws) = 0
  /\ wpc' = "idle" /\ wc' = 0 /\ ws' = 0
  /\ UNCHANGED <<ringVars, wf, w, readerVars, sent, got, broken>>

(* Mutant: the index is stored before the bytes are. *)
PutSpaceAndPublish ==
  /\ wpc = "look" /\ free(ws) # 0
  /\ wpc' = "copy" /\ wf' = Smaller(wc, free(ws)) /\ ws' = 0
  /\ _w' = _inc(_w, wf')
  /\ UNCHANGED <<_b, _r, wc, w, readerVars, sent, got, broken>>

PutSpace ==
  /\ wpc = "look" /\ free(ws) # 0
  /\ wpc' = "copy" /\ wf' = Smaller(wc, free(ws)) /\ ws' = 0
  /\ UNCHANGED <<ringVars, wc, w, readerVars, sent, got, broken>>

(* Mutant: "check wrap" is left out. *)
PutCopyUnwrapped ==
  /\ wpc = "copy" /\ wpc' = "publish"
  /\ w' = _w /\ wf' = wf
  /\ _b' = [n \in Index |-> IF n \in _w..(_w + wf' - 1) THEN sent + n - _w ELSE _b[n]]
  /\ UNCHANGED <<_w, _r, wc, ws, readerVars, sent, got, broken>>

(* From here to PutPublish, memcpy is writing. *)
PutCopy ==
  /\ wpc = "copy" /\ wpc' = "publish"
  /\ w' = _w /\ wf' = Smaller(wf, N - _w)
  /\ _b' = [n \in Index |-> IF n \in _w..(_w + wf' - 1) THEN sent + n - _w ELSE _b[n]]
  /\ UNCHANGED <<_w, _r, wc, ws, readerVars, sent, got, broken>>

PutPublish ==
  /\ wpc = "publish"
  /\ _w' = _inc(w, wf) /\ sent' = sent + wf
  /\ wc' = wc - wf /\ wpc' = IF wc' = 0 THEN "idle" ELSE "space"
  /\ wf' = 0 /\ w' = 0
  /\ UNCHANGED <<_b, _r, ws, readerVars, got, broken>>
-----------------------------------------------------------------------------
(* get(p, n), not blocking, after read has waited for n bytes or for its   *)
(* timeout.                                                                *)
Get(n) ==
  /\ rpc = "idle"
  /\ rpc' = "data" /\ rc' = n
  /\ UNCHANGED <<ringVars, writerVars, rs, rf, r, sent, got, broken>>

GetLook ==
  /\ rpc = "data" /\ rpc' = "look" /\ rs' = _w
  /\ broken' = (broken \/ Overlap(wpc, "look"))
  /\ UNCHANGED <<ringVars, writerVars, rc, rf, r, sent, got>>

GetEmpty ==
  /\ rpc = "look" /\ size(rs) = 0
  /\ rpc' = "idle" /\ rc' = 0 /\ rs' = 0
  /\ UNCHANGED <<ringVars, writerVars, rf, r, sent, got, broken>>

(* Mutant: the place is given back before it is copied. *)
GetDataAndRelease ==
  /\ rpc = "look" /\ size(rs) # 0
  /\ rpc' = "copy" /\ rf' = Smaller(rc, size(rs)) /\ rs' = 0
  /\ _r' = _inc(_r, rf')
  /\ UNCHANGED <<_b, _w, writerVars, rc, r, sent, got, broken>>

GetData ==
  /\ rpc = "look" /\ size(rs) # 0
  /\ rpc' = "copy" /\ rf' = Smaller(rc, size(rs)) /\ rs' = 0
  /\ UNCHANGED <<ringVars, writerVars, rc, r, sent, got, broken>>

(* From here to GetPublish, memcpy is reading. *)
GetCopy ==
  /\ rpc = "copy" /\ rpc' = "publish"
  /\ r' = _r /\ rf' = Smaller(rf, N - _r)
  /\ UNCHANGED <<ringVars, writerVars, rc, rs, sent, got, broken>>

GetPublish ==
  /\ rpc = "publish"
  /\ _r' = _inc(r, rf) /\ got' = IF broken THEN got ELSE got + rf
  /\ rc' = rc - rf /\ rpc' = IF rc' = 0 THEN "idle" ELSE "data"
  /\ rf' = 0 /\ r' = 0
  /\ UNCHANGED <<_b, _w, writerVars, rs, sent, broken>>
-----------------------------------------------------------------------------
(* clear() is two stores, and neither side's is ordered with the other's   *)
(* calls: the reader's when run() finds no connection while it wants one,  *)
(* the writer's in onConnect.                                              *)
Forget(other) ==
  /\ _r' = 0 /\ UNCHANGED <<_b, _w>>
  /\ broken' = Overlap("cleared", other)
  /\ got' = IF broken' THEN got ELSE sent
  /\ UNCHANGED sent

ReaderClears ==
  /\ rpc = "idle" /\ rpc' = "cleared" /\ Forget(wpc)
  /\ UNCHANGED <<writerVars, rc, rs, rf, r>>

WriterClears ==
  /\ wpc = "idle" /\ wpc' = "cleared" /\ Forget(rpc)
  /\ UNCHANGED <<readerVars, wc, ws, wf, w>>

ReaderCleared ==
  /\ rpc = "cleared" /\ rpc' = "idle" /\ _w' = 0
  /\ UNCHANGED <<_b, _r, writerVars, rc, rs, rf, r, sent, got, broken>>

WriterCleared ==
  /\ wpc = "cleared" /\ wpc' = "idle" /\ _w' = 0
  /\ UNCHANGED <<_b, _r, readerVars, wc, ws, wf, w, sent, got, broken>>

Writer ==
  \/ (\E n \in Sizes : Put(n)) \/ PutLook \/ PutFull \/ PutSpace \/ PutCopy \/ PutPublish
  \/ WriterClears \/ WriterCleared

Reader ==
  \/ (\E n \in Sizes : Get(n)) \/ GetLook \/ GetEmpty \/ GetData \/ GetCopy \/ GetPublish
  \/ ReaderClears \/ ReaderCleared

Next == Writer \/ Reader

Spec == Init /\ [][Next]_vars
-----------------------------------------------------------------------------
TypeOK ==
  /\ _b \in [Index -> Nat] /\ _w \in Index /\ _r \in Index
  /\ wpc \in Busy \cup {"idle", "space", "cleared"}
  /\ rpc \in Busy \cup {"idle", "data", "cleared"}
  /\ wc \in Nat /\ ws \in Index /\ wf \in Nat /\ w \in Index
  /\ rc \in Nat /\ rs \in Index /\ rf \in Nat /\ r \in Index
  /\ sent \in Nat \ {0} /\ got \in Nat \ {0} /\ broken \in BOOLEAN

(* Whatever a clear on the other side does to the indices between the look *)
(* and the copy, memcpy stays inside the buffer and inside the caller's    *)
(* bytes (put and get, BlynkFifo.h).                                       *)
Writing == w..(w + wf - 1)
Reading == r..(r + rf - 1)

CopiesInBounds ==
  /\ wpc = "publish" => Writing \subseteq Index /\ 1 <= wf /\ wf <= wc
  /\ rpc = "publish" => Reading \subseteq Index /\ 1 <= rf /\ rf <= rc

(* Unless a clear overlapped, the two tasks never copy to and from one     *)
(* place at a time, although each has only seen an old value of the        *)
(* other's index (put and get, BlynkFifo.h).                               *)
DisjointCopies ==
  ~broken /\ wpc = "publish" /\ rpc = "publish" => Writing \cap Reading = {}

(* Unless a clear overlapped, get hands out the bytes that put accepted,   *)
(* in their order, each once (put and get, BlynkFifo.h).                   *)
ReadsInOrder ==
  [][~broken /\ GetCopy => \A n \in Reading' : _b[n] = got + n - r']_vars

Stream == INSTANCE ByteStream WITH Capacity <- N - 1

(* The ring is a bounded stream of N - 1 bytes: put and get only move its  *)
(* ends, whichever of their steps the other side's steps fall between, and *)
(* only a clear forgets bytes (BlynkFifo.h).                               *)
KeepsStream == Stream!Spec
-----------------------------------------------------------------------------
(* Unless a clear overlapped, the places from _r to _w hold exactly the    *)
(* bytes accepted and not yet read; a clear half done has left none (clear,*)
(* put and get, BlynkFifo.h).                                              *)
Consecutive ==
  ~broken =>
    /\ sent >= got
    /\ IF "cleared" \in {wpc, rpc}
       THEN got = sent /\ _r = 0
       ELSE /\ sent - got = size(_w)
            /\ \A n \in 0..(sent - got - 1) : _b[_inc(_r, n)] = got + n

(* What a side found in its look is never more than there is, however far  *)
(* the other one has got since (free and size, BlynkFifo.h).               *)
Conservative ==
  ~broken =>
    /\ wpc = "look" => free(ws) <= N - 1 - (sent - got)
    /\ rpc = "look" => size(rs) <= sent - got
    /\ wpc \in {"copy", "publish"} => wf <= N - 1 - (sent - got)
    /\ rpc \in {"copy", "publish"} => rf <= sent - got
    /\ wpc = "publish" => w = _w /\ \A n \in 0..(wf - 1) : _b[w + n] = sent + n
    /\ rpc = "publish" => r = _r
=============================================================================
