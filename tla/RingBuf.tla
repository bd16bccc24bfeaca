------------------------------ MODULE RingBuf ------------------------------
(***************************************************************************)
(* The ring buffer of k_ringbuf.c, as functions of its state: a record of  *)
(* the bytes buf[0 .. size - 1] and of head, tail and freesize.  head and  *)
(* tail may be size, the end of the buffer.  A byte is that of a message   *)
(* or of a length and knows its place in it.  Bytes that were read are     *)
(* forgotten, for nothing reads them again.                                *)
(***************************************************************************)
EXTENDS Integers, Sequences

CONSTANTS
  Msg,            \* the messages
  MsgLen,         \* their lengths
  RING_BUF_LEN,   \* the bytes of a length: sizeof(size_t)
  RingSize        \* the bytes of the buffer

ASSUME RingAssumption ==
  /\ {RING_BUF_LEN, RingSize} \subseteq Nat \ {0}
  /\ MsgLen \in [Msg -> 1 .. RingSize]

Byte(what, of, at) == [what |-> what, of |-> of, at |-> at]
MsgBytes(m) == [k \in 1 .. MsgLen[m] |-> Byte("msg", m, k)]
LenBytes(n) == [k \in 1 .. RING_BUF_LEN |-> Byte("len", n, k)]
Garbage == Byte("none", 0, 0)

(* What a receiver makes of the bytes it gets. *)
LenOf(bytes) == IF \E n \in 1 .. RingSize : bytes = LenBytes(n)
                THEN CHOOSE n \in 1 .. RingSize : bytes = LenBytes(n) ELSE 0
MsgOf(bytes) == IF \E m \in Msg : bytes = MsgBytes(m)
                THEN CHOOSE m \in Msg : bytes = MsgBytes(m) ELSE Garbage

ringbuf_reset == [buf |-> [p \in 0 .. RingSize - 1 |-> Garbage], head |-> 0, tail |-> 0,
                  freesize |-> RingSize]
ringbuf_init == ringbuf_reset
ringbuf_is_empty(r) == r.freesize = RingSize

WrapTail(r) == IF r.tail = RingSize THEN [r EXCEPT !.tail = 0] ELSE r
WrapHead(r) == IF r.head = RingSize THEN [r EXCEPT !.head = 0] ELSE r

(* memcpy to the tail, and from the head. *)
Write(r, bytes) ==
  [r EXCEPT !.buf = [p \in DOMAIN @ |-> IF p \in r.tail .. r.tail + Len(bytes) - 1
                                        THEN bytes[p - r.tail + 1] ELSE @[p]],
            !.tail = @ + Len(bytes),
            !.freesize = @ - Len(bytes)]
Read(r, n) ==
  [k \in 1 .. n |-> IF r.head + k - 1 < RingSize THEN r.buf[r.head + k - 1] ELSE Garbage]
Skip(r, n) ==
  [r EXCEPT !.buf = [p \in DOMAIN @ |-> IF p \in r.head .. r.head + n - 1 THEN Garbage ELSE @[p]],
            !.head = @ + n,
            !.freesize = @ + n]

(* Faulty: bytes that do not fit before the end are written past it. *)
PutStraight(r, bytes) == Write(WrapTail(r), bytes)

(* A piece of ringbuf_push, the length or the data: broken at the end of the buffer. *)
Put(r, bytes) ==
  LET w     == WrapTail(r)
      split == RingSize - w.tail
  IN  IF w.tail >= w.head /\ split < Len(bytes) /\ split > 0
      THEN Write([Write(w, SubSeq(bytes, 1, split)) EXCEPT !.tail = 0],
                 SubSeq(bytes, split + 1, Len(bytes)))
      ELSE Write(w, bytes)

(* A piece of ringbuf_pop: the ring without it, and its bytes. *)
Got(r, bytes) == [ring |-> r, bytes |-> bytes]
TakeBroken(w, n) ==
  LET split == RingSize - w.head
      r     == [Skip(w, split) EXCEPT !.head = 0]
  IN  Got(Skip(r, n - split), Read(w, split) \o Read(r, n - split))
TakeLen(r) ==
  LET w == WrapHead(r)
  IN  IF RingSize - w.head < RING_BUF_LEN THEN TakeBroken(w, RING_BUF_LEN)
      ELSE Got(Skip(w, RING_BUF_LEN), Read(w, RING_BUF_LEN))
TakeData(r, n) ==
  LET w == WrapHead(r)
  IN  IF w.head > w.tail /\ RingSize - w.head < n THEN TakeBroken(w, n)
      ELSE Got(Skip(w, n), Read(w, n))

(* RINGBUF_TYPE_FIX: messages of one size. *)
FixFull(r, m)  == r.freesize < MsgLen[m]
FixPush(r, m)  == Write(WrapTail(r), MsgBytes(m))
FixPop(r, n) == LET w == WrapHead(r) IN Got(Skip(w, n), Read(w, n))

(* RINGBUF_TYPE_DYN: a message follows its length.  DynFull is where ringbuf_push
   answers RHINO_RINGBUF_FULL. *)
DynFull(r, m) == r.freesize < RING_BUF_LEN + MsgLen[m]
DynPush(r, m) == Put(Put(r, LenBytes(MsgLen[m])), MsgBytes(m))
DynPop(r)     == LET l == TakeLen(r) IN TakeData(l.ring, LenOf(l.bytes))

-----------------------------------------------------------------------------
(* The reference: the n bytes before the tail, one by one around the ring. *)
Before(r, n) ==
  [k \in 1 .. n |-> r.buf[(r.tail - n + k - 1 + RingSize) % RingSize]]

(* The messages they hold, first the oldest. *)
DynContents(r) ==
  LET msgs[n \in 0 .. RingSize] ==
        LET bytes == Before(r, n)
            len   == LenOf(SubSeq(bytes, 1, RING_BUF_LEN))
        IN  CASE n = 0 -> <<>>
              [] n \in 1 .. RING_BUF_LEN -> <<Garbage>>
              [] OTHER -> IF len = 0 \/ RING_BUF_LEN + len > n THEN <<Garbage>>
                          ELSE <<MsgOf(SubSeq(bytes, RING_BUF_LEN + 1, RING_BUF_LEN + len))>>
                                 \o msgs[n - RING_BUF_LEN - len]
  IN  msgs[RingSize - r.freesize]

FixContents(r, size) ==
  LET used  == RingSize - r.freesize
      bytes == Before(r, used)
  IN  [i \in 1 .. used \div size |-> MsgOf(SubSeq(bytes, (i - 1) * size + 1, i * size))]
=============================================================================
