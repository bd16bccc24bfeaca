---------------------------- MODULE KvStoreProofs ----------------------------
(***************************************************************************)
(* The invariants of the key-value store and its refinement of KvMap, for  *)
(* all tasks, keys, values, sizes and bounds.                              *)
(***************************************************************************)
EXTENDS KvStore, TLAPS, FiniteSetTheorems, WellFoundedInduction

-----------------------------------------------------------------------------
(* Least and greatest elements. *)

(* Every nonempty set of naturals has a least element. *)
LEMMA LeastNumber ==
  ASSUME NEW S \in SUBSET Nat, S # {}
  PROVE  \E n \in S : \A m \in S : n <= m
<1> DEFINE R == OpToRel(<, Nat)
<1>1. IsWellFoundedOn(R, Nat)
  BY NatLessThanWellFounded
<1>2. \A x, y \in Nat : x < y => <<x, y>> \in R
  BY DEF OpToRel
<1> HIDE DEF R
<1>3. PICK x \in S : \A y \in S : ~ (<<y, x>> \in R)
  BY <1>1, WFMin
<1>4. ASSUME NEW y \in S PROVE x <= y
  <2>1. x \in Nat /\ y \in Nat
    OBVIOUS
  <2>2. <<y, x>> \notin R
    BY <1>3
  <2> QED BY <1>2, <2>1, <2>2
<1> QED BY <1>4

(* Max of a bounded set. *)
LEMMA MaxIs ==
  ASSUME NEW n \in Nat, NEW S, S \subseteq 0 .. n, S # {}
  PROVE  Max(S) \in S /\ \A y \in S : y <= Max(S)
<1> DEFINE T == {n - x : x \in S}
<1>1. T \in SUBSET Nat /\ T # {}
  <2>1. ASSUME NEW x \in S PROVE n - x \in Nat
    <3>1. x \in 0 .. n
      OBVIOUS
    <3> QED BY <3>1
  <2>2. T # {}
    OBVIOUS
  <2> QED BY <2>1, <2>2
<1>2. PICK m \in T : \A y \in T : m <= y
  BY <1>1, LeastNumber
<1>3. PICK x \in S : m = n - x
  OBVIOUS
<1>4. ASSUME NEW y \in S PROVE x >= y
  <2>1. n - y \in T
    OBVIOUS
  <2>2. n - x <= n - y
    BY <2>1, <1>2, <1>3
  <2>3. x \in 0 .. n /\ y \in 0 .. n
    OBVIOUS
  <2> QED BY <2>2, <2>3
<1> DEFINE P(z) == \A y \in S : z >= y
<1>5. \E z \in S : P(z)
  BY <1>4
<1>6. Max(S) = CHOOSE z \in S : P(z)
  BY DEF Max
<1> HIDE DEF P
<1>7. Max(S) \in S /\ P(Max(S))
  BY <1>5, <1>6
<1> USE DEF P
<1>8. ASSUME NEW y \in S PROVE y <= Max(S)
  <2>1. Max(S) >= y
    BY <1>7
  <2>2. Max(S) \in 0 .. n /\ y \in 0 .. n
    BY <1>7
  <2> QED BY <2>1, <2>2
<1> QED BY <1>7, <1>8

(* The first item of a set. *)
LEMMA FirstIs ==
  ASSUME NEW its, its \subseteq ItemType, its # {}
  PROVE  First(its) \in its /\ \A j \in its : First(its).pos <= j.pos
<1> DEFINE S == {i.pos : i \in its}
<1>1. S \in SUBSET Nat /\ S # {}
  BY DEF ItemType
<1>2. PICK n \in S : \A m \in S : n <= m
  BY <1>1, LeastNumber
<1>3. PICK i \in its : i.pos = n
  OBVIOUS
<1>4. \A j \in its : i.pos <= j.pos
  BY <1>2, <1>3
<1> DEFINE P(z) == \A j \in its : z.pos <= j.pos
<1>5. \E z \in its : P(z)
  BY <1>4
<1>6. First(its) = CHOOSE z \in its : P(z)
  BY DEF First
<1> HIDE DEF P
<1>7. First(its) \in its /\ P(First(its))
  BY <1>5, <1>6
<1> USE DEF P
<1> QED BY <1>7

-----------------------------------------------------------------------------
(* Blocks and positions. *)

(* The sizes, and the two blocks. *)
LEMMA Sizes ==
  /\ BLK_NUMS = 2 /\ Blocks = {0, 1}
  /\ BLK_SIZE \in Nat /\ BLK_HDR_SIZE \in Nat /\ ITEM_HDR_SIZE \in Nat /\ ITEM_MAX_LEN \in Nat
  /\ BLK_HDR_SIZE > 0 /\ ITEM_HDR_SIZE > 0
  /\ ITEM_MAX_LEN + BLK_HDR_SIZE < BLK_SIZE
  /\ Start(0) = 0 /\ Start(1) = BLK_SIZE
  /\ \A v \in Values : ItemLen[v] \in Nat /\ ITEM_HDR_SIZE < ItemLen[v] /\ ItemLen[v] <= ITEM_MAX_LEN
<1>1. BLK_NUMS = 2
  BY KvAssumption DEF KV_GC_RESERVED
<1>2. Blocks = {0, 1}
  BY <1>1 DEF Blocks
<1>3. /\ BLK_SIZE \in Nat /\ BLK_HDR_SIZE \in Nat /\ ITEM_HDR_SIZE \in Nat /\ ITEM_MAX_LEN \in Nat
      /\ BLK_HDR_SIZE > 0 /\ ITEM_HDR_SIZE > 0
      /\ ITEM_MAX_LEN + BLK_HDR_SIZE < BLK_SIZE
  BY KvAssumption
<1>4. Start(0) = 0 /\ Start(1) = BLK_SIZE
  BY <1>3 DEF Start
<1>5. \A v \in Values : ItemLen[v] \in (ITEM_HDR_SIZE + 1) .. ITEM_MAX_LEN
  BY KvAssumption
<1>6. \A v \in Values : ItemLen[v] \in Nat /\ ITEM_HDR_SIZE < ItemLen[v] /\ ItemLen[v] <= ITEM_MAX_LEN
  BY <1>3, <1>5
<1> QED BY <1>1, <1>2, <1>3, <1>4, <1>6

(* Division by the size of a block. *)
LEMMA DivIs ==
  ASSUME NEW n \in Nat, n > 0, NEW p \in Nat
  PROVE  /\ p \div n \in Nat
         /\ p \div n = 0 <=> p < n
         /\ p \div n = 1 <=> (n <= p /\ p < n + n)
<1>1. p \div n \in Int /\ p % n \in 0 .. n - 1 /\ p = n * (p \div n) + (p % n)
  BY Z3
<1> DEFINE q == p \div n
<1>2. q \in Int /\ n * q <= p /\ p < n * q + n
  BY <1>1, Z3
<1> HIDE DEF q
<1>3. CASE q < 0
  <2>1. n * q <= -n
    BY <1>2, <1>3, Z3
  <2> QED BY <1>2, <2>1, Z3
<1>4. CASE q = 0
  BY <1>2, <1>4 DEF q
<1>5. CASE q = 1
  BY <1>2, <1>5 DEF q
<1>6. CASE q > 1
  <2>1. n * q >= n + n
    BY <1>2, <1>6, Z3
  <2> QED BY <1>2, <1>6, <2>1 DEF q
<1> QED BY <1>2, <1>3, <1>4, <1>5, <1>6

(* A position is in the block whose bounds it lies between. *)
LEMMA BlkIs ==
  ASSUME NEW p \in Nat, NEW b \in Blocks
  PROVE  Blk(p) = b <=> (Start(b) <= p /\ p < Start(b) + BLK_SIZE)
<1>1. BLK_SIZE > 0
  BY Sizes
<1>2. /\ Blk(p) = 0 <=> p < BLK_SIZE
      /\ Blk(p) = 1 <=> (BLK_SIZE <= p /\ p < BLK_SIZE + BLK_SIZE)
  BY <1>1, DivIs, Sizes DEF Blk
<1> QED BY <1>2, Sizes

(* Where blocks start. *)
LEMMA StartIs ==
  ASSUME NEW b \in Blocks
  PROVE  /\ Start(b) \in Nat /\ b \in Nat
         /\ \A c \in Blocks : c # b => b = 1 - c
  BY Sizes

-----------------------------------------------------------------------------
(* Items, and what appending, deleting and erasing does to a flash. *)

(* The fields of an item. *)
LEMMA ItemFields ==
  ASSUME NEW its, its \subseteq ItemType, NEW i \in its
  PROVE  /\ i.pos \in Nat /\ i.len \in Nat /\ i.origin \in Nat
         /\ i.state \in {"NORMAL", "DELETE", "HOLE", "TORN"}
         /\ i.key \in Keys \cup {None} /\ i.val \in Values \cup {None}
<1>1. i \in ItemType
  OBVIOUS
<1> QED BY <1>1 DEF ItemType, Garbage

(* What ItemsLaid says of one item. *)
LEMMA LaidItem ==
  ASSUME NEW its, ItemsLaid(its), NEW i \in its
  PROVE  /\ i \in ItemType
         /\ i.pos \in Nat /\ i.len \in Nat /\ i.origin \in Nat
         /\ i.state \in {"NORMAL", "DELETE", "HOLE", "TORN"}
         /\ i.key \in Keys \cup {None} /\ i.val \in Values \cup {None}
         /\ Blk(i.pos) \in Blocks /\ i.len > 0
         /\ Start(Blk(i.pos)) \in Nat
         /\ Start(Blk(i.pos)) + BLK_HDR_SIZE <= i.pos
         /\ i.pos + i.len < Start(Blk(i.pos)) + BLK_SIZE
         /\ i.state = "NORMAL" => i.key \in Keys /\ i.val \in Values /\ i.len = ItemLen[i.val]
<1>1. its \subseteq ItemType
  BY DEF ItemsLaid
<1>2. Blk(i.pos) \in Blocks
  BY DEF ItemsLaid
<1>3. Start(Blk(i.pos)) \in Nat
  BY <1>2, StartIs
<1>4. /\ i.len > 0
      /\ Start(Blk(i.pos)) + BLK_HDR_SIZE <= i.pos
      /\ i.pos + i.len < Start(Blk(i.pos)) + BLK_SIZE
      /\ i.state = "NORMAL" => i.key \in Keys /\ i.val \in Values /\ i.len = ItemLen[i.val]
  BY DEF ItemsLaid
<1> QED BY <1>1, <1>2, <1>3, <1>4, ItemFields

(* Where kv_item_traverse stops. *)
LEMMA FreePosIs ==
  ASSUME NEW its, ItemsLaid(its), NEW b \in Blocks
  PROVE  /\ FreePos(its, b) \in Nat
         /\ Start(b) + BLK_HDR_SIZE <= FreePos(its, b)
         /\ FreePos(its, b) < Start(b) + BLK_SIZE
         /\ Blk(FreePos(its, b)) = b
         /\ \A i \in its : Blk(i.pos) = b => i.pos + i.len <= FreePos(its, b)
         /\ \/ FreePos(its, b) = Start(b) + BLK_HDR_SIZE
            \/ \E i \in its : Blk(i.pos) = b /\ FreePos(its, b) = i.pos + i.len
<1> DEFINE S == {Start(b) + BLK_HDR_SIZE} \cup {i.pos + i.len : i \in InBlock(its, b)}
           n == Start(b) + BLK_SIZE
<1>1. Start(b) \in Nat /\ n \in Nat
  BY StartIs, Sizes
<1>2. S \subseteq 0 .. n
  <2>1. Start(b) + BLK_HDR_SIZE \in 0 .. n
    BY <1>1, Sizes
  <2>2. ASSUME NEW i \in InBlock(its, b) PROVE i.pos + i.len \in 0 .. n
    <3>1. i \in its /\ Blk(i.pos) = b
      BY DEF InBlock
    <3>2. i.pos \in Nat /\ i.len \in Nat /\ i.pos + i.len < n
      BY <3>1, LaidItem
    <3> QED BY <3>2, <1>1
  <2> QED BY <2>1, <2>2
<1>3. FreePos(its, b) = Max(S)
  BY DEF FreePos
<1>4. Max(S) \in S /\ \A y \in S : y <= Max(S)
  <2> HIDE DEF n
  <2>1. S # {}
    OBVIOUS
  <2> HIDE DEF S
  <2> QED BY <1>1, <1>2, <2>1, MaxIs
<1>5. \A i \in its : Blk(i.pos) = b => i \in InBlock(its, b)
  BY DEF InBlock
<1>6. \A i \in its : Blk(i.pos) = b => i.pos + i.len <= FreePos(its, b)
  BY <1>3, <1>4, <1>5
<1>7. \/ FreePos(its, b) = Start(b) + BLK_HDR_SIZE
      \/ \E i \in its : Blk(i.pos) = b /\ FreePos(its, b) = i.pos + i.len
  BY <1>3, <1>4 DEF InBlock
<1>8. FreePos(its, b) \in Nat /\ Start(b) + BLK_HDR_SIZE <= FreePos(its, b)
  BY <1>1, <1>2, <1>3, <1>4
<1>9. FreePos(its, b) < Start(b) + BLK_SIZE
  <2>1. CASE FreePos(its, b) = Start(b) + BLK_HDR_SIZE
    BY <2>1, <1>1, Sizes
  <2>2. ASSUME NEW i \in its, Blk(i.pos) = b, FreePos(its, b) = i.pos + i.len
        PROVE  FreePos(its, b) < Start(b) + BLK_SIZE
    BY <2>2, LaidItem
  <2> QED BY <1>7, <2>1, <2>2
<1>10. Blk(FreePos(its, b)) = b
  BY <1>1, <1>8, <1>9, BlkIs, Sizes
<1> QED BY <1>6, <1>7, <1>8, <1>9, <1>10

(* There is one such place. *)
LEMMA FreePosUnique ==
  ASSUME NEW its, ItemsLaid(its), NEW b \in Blocks, NEW p \in Nat,
         Start(b) + BLK_HDR_SIZE <= p,
         \A i \in its : Blk(i.pos) = b => i.pos + i.len <= p,
         \/ p = Start(b) + BLK_HDR_SIZE
         \/ \E i \in its : Blk(i.pos) = b /\ p = i.pos + i.len
  PROVE  FreePos(its, b) = p
<1> DEFINE f == FreePos(its, b)
<1>1. /\ f \in Nat /\ Start(b) + BLK_HDR_SIZE <= f
      /\ \A i \in its : Blk(i.pos) = b => i.pos + i.len <= f
      /\ \/ f = Start(b) + BLK_HDR_SIZE
         \/ \E i \in its : Blk(i.pos) = b /\ f = i.pos + i.len
  BY FreePosIs
<1> HIDE DEF f
<1>2. f <= p
  BY <1>1
<1>3. p <= f
  BY <1>1
<1>4. f = p
  BY <1>1, <1>2, <1>3
<1> QED BY <1>4 DEF f

(* The room behind the last item. *)
LEMMA SpaceIs ==
  ASSUME NEW its, ItemsLaid(its), NEW b \in Blocks
  PROVE  /\ SpaceOf(its, b) = Start(b) + BLK_SIZE - FreePos(its, b)
         /\ SpaceOf(its, b) \in 1 .. BLK_SIZE
         /\ InBlock(its, b) = {} <=> SpaceOf(its, b) = BLK_SIZE - BLK_HDR_SIZE
         /\ InBlock(its, b) = {} => FreePos(its, b) = Start(b) + BLK_HDR_SIZE
<1> DEFINE f == FreePos(its, b)
<1>1. /\ f \in Nat /\ Start(b) + BLK_HDR_SIZE <= f /\ f < Start(b) + BLK_SIZE
      /\ \A i \in its : Blk(i.pos) = b => i.pos + i.len <= f
      /\ \/ f = Start(b) + BLK_HDR_SIZE
         \/ \E i \in its : Blk(i.pos) = b /\ f = i.pos + i.len
  BY FreePosIs
<1>2. Start(b) \in Nat
  BY StartIs
<1>3. SpaceOf(its, b) = Start(b) + BLK_SIZE - f
  <2>1. Start(b) + BLK_SIZE > f
    BY <1>1, <1>2, Sizes
  <2> QED BY <2>1, <1>1, <1>2, Sizes DEF SpaceOf
<1> HIDE DEF f
<1>4. SpaceOf(its, b) \in 1 .. BLK_SIZE
  BY <1>1, <1>2, <1>3, Sizes
<1>5. InBlock(its, b) = {} => f = Start(b) + BLK_HDR_SIZE
  BY <1>1 DEF InBlock
<1>6. InBlock(its, b) # {} => f # Start(b) + BLK_HDR_SIZE
  <2> SUFFICES ASSUME NEW i \in its, Blk(i.pos) = b
               PROVE  f # Start(b) + BLK_HDR_SIZE
    BY DEF InBlock
  <2>1. /\ i.pos \in Nat /\ i.len \in Nat /\ i.len > 0 /\ Start(b) + BLK_HDR_SIZE <= i.pos
    BY LaidItem
  <2>2. i.pos + i.len <= f
    BY <1>1
  <2> QED BY <1>1, <1>2, <2>1, <2>2, Sizes
<1>7. InBlock(its, b) = {} <=> SpaceOf(its, b) = BLK_SIZE - BLK_HDR_SIZE
  BY <1>1, <1>2, <1>3, <1>5, <1>6, Sizes
<1> QED BY <1>3, <1>4, <1>5, <1>7 DEF f

(* An item written at the end of a block. *)
LEMMA Appended ==
  ASSUME NEW its, ItemsLaid(its), NEW b \in Blocks, NEW i \in ItemType,
         i.pos = FreePos(its, b), i.len > 0, i.pos + i.len < Start(b) + BLK_SIZE,
         i.state = "NORMAL" => i.key \in Keys /\ i.val \in Values /\ i.len = ItemLen[i.val]
  PROVE  /\ ItemsLaid(its \cup {i})
         /\ Blk(i.pos) = b
         /\ \A j \in its : j.pos # i.pos /\ (Blk(j.pos) = b => j.pos < i.pos)
         /\ FreePos(its \cup {i}, b) = i.pos + i.len
         /\ SpaceOf(its \cup {i}, b) = SpaceOf(its, b) - i.len
         /\ \A c \in Blocks : c # b => /\ FreePos(its \cup {i}, c) = FreePos(its, c)
                                       /\ SpaceOf(its \cup {i}, c) = SpaceOf(its, c)
                                       /\ InBlock(its \cup {i}, c) = InBlock(its, c)
<1> DEFINE new == its \cup {i}
<1>1. /\ i.pos \in Nat /\ i.len \in Nat
      /\ Start(b) + BLK_HDR_SIZE <= i.pos
      /\ Blk(i.pos) = b
      /\ \A j \in its : Blk(j.pos) = b => j.pos + j.len <= i.pos
  <2>1. i.pos \in Nat /\ i.len \in Nat
    BY DEF ItemType
  <2> QED BY <2>1, FreePosIs
<1>2. Start(b) \in Nat
  BY StartIs
<1>3. ASSUME NEW j \in its
      PROVE  /\ j.pos # i.pos /\ (Blk(j.pos) = b => j.pos < i.pos)
             /\ j.pos < i.pos => j.pos + j.len <= i.pos
             /\ i.pos < j.pos => i.pos + i.len <= j.pos
  <2>1. /\ j.pos \in Nat /\ j.len \in Nat /\ j.len > 0 /\ Blk(j.pos) \in Blocks
        /\ Start(Blk(j.pos)) + BLK_HDR_SIZE <= j.pos
        /\ j.pos + j.len < Start(Blk(j.pos)) + BLK_SIZE
    BY LaidItem
  <2>2. CASE Blk(j.pos) = b
    <3>1. j.pos + j.len <= i.pos
      BY <2>2, <1>1
    <3> QED BY <3>1, <2>1, <1>1
  <2>3. CASE Blk(j.pos) # b
    BY <2>1, <2>3, <1>1, Sizes
  <2> QED BY <2>2, <2>3
<1>4. ItemsLaid(new)
  <2>1. new \subseteq ItemType
    BY DEF ItemsLaid
  <2>2. ASSUME NEW j \in new
        PROVE  /\ Blk(j.pos) \in Blocks /\ j.len > 0
               /\ Start(Blk(j.pos)) + BLK_HDR_SIZE <= j.pos
               /\ j.pos + j.len < Start(Blk(j.pos)) + BLK_SIZE
               /\ j.state = "NORMAL" => j.key \in Keys /\ j.val \in Values /\ j.len = ItemLen[j.val]
    BY <1>1, LaidItem
  <2>3. ASSUME NEW j \in new, NEW l \in new, j.pos < l.pos PROVE j.pos + j.len <= l.pos
    <3>1. CASE j \in its /\ l \in its
      BY <2>3, <3>1 DEF ItemsLaid
    <3>2. CASE j = i /\ l = i
      BY <2>3, <3>2, <1>1
    <3>3. CASE j = i /\ l \in its
      BY <2>3, <3>3, <1>3
    <3>4. CASE j \in its /\ l = i
      BY <2>3, <3>4, <1>3
    <3> QED BY <3>1, <3>2, <3>3, <3>4
  <2>4. ASSUME NEW j \in new, NEW l \in new, j.pos = l.pos PROVE j = l
    <3>1. CASE j \in its /\ l \in its
      BY <2>4, <3>1 DEF ItemsLaid
    <3> QED BY <2>4, <3>1, <1>3
  <2> HIDE DEF new
  <2> QED BY <2>1, <2>2, <2>3, <2>4 DEF ItemsLaid
<1>5. FreePos(new, b) = i.pos + i.len
  <2> DEFINE p == i.pos + i.len
  <2>1. p \in Nat /\ Start(b) + BLK_HDR_SIZE <= p
    BY <1>1, <1>2, Sizes
  <2>2. ASSUME NEW j \in new, Blk(j.pos) = b PROVE j.pos + j.len <= p
    <3>1. CASE j = i
      BY <3>1, <1>1
    <3>2. CASE j \in its
      <4>1. j.pos + j.len <= i.pos /\ j.pos \in Nat /\ j.len \in Nat
        BY <3>2, <2>2, <1>1, LaidItem
      <4> QED BY <4>1, <1>1
    <3> QED BY <3>1, <3>2
  <2>3. \E j \in new : Blk(j.pos) = b /\ p = j.pos + j.len
    BY <1>1
  <2> HIDE DEF p, new
  <2>4. FreePos(new, b) = p
    BY <1>4, <2>1, <2>2, <2>3, FreePosUnique
  <2> QED BY <2>4 DEF p
<1>6. ASSUME NEW c \in Blocks, c # b PROVE InBlock(new, c) = InBlock(its, c)
  BY <1>1, <1>6 DEF InBlock
<1>7. ASSUME NEW c \in Blocks, c # b
      PROVE FreePos(new, c) = FreePos(its, c) /\ SpaceOf(new, c) = SpaceOf(its, c)
  BY <1>6, <1>7 DEF FreePos, SpaceOf
<1>8. SpaceOf(new, b) = SpaceOf(its, b) - i.len
  <2> HIDE DEF new
  <2>1. SpaceOf(new, b) = Start(b) + BLK_SIZE - FreePos(new, b)
    BY <1>4, SpaceIs
  <2>2. SpaceOf(its, b) = Start(b) + BLK_SIZE - FreePos(its, b)
    BY SpaceIs
  <2> QED BY <2>1, <2>2, <1>1, <1>2, <1>5, Sizes
<1> HIDE DEF new
<1>9. /\ ItemsLaid(new) /\ Blk(i.pos) = b
      /\ \A j \in its : j.pos # i.pos /\ (Blk(j.pos) = b => j.pos < i.pos)
  BY <1>1, <1>3, <1>4
<1> QED BY <1>5, <1>6, <1>7, <1>8, <1>9 DEF new

(* kv_item_del: an item becomes garbage of the same length. *)
Deleted(its, i) == (its \ {i}) \cup {Rest("DELETE", i.pos, i.len)}

LEMMA DeletedIs ==
  ASSUME NEW its, ItemsLaid(its), NEW i \in its
  PROVE  /\ ItemsLaid(Deleted(its, i))
         /\ \A b \in Blocks : /\ FreePos(Deleted(its, i), b) = FreePos(its, b)
                              /\ SpaceOf(Deleted(its, i), b) = SpaceOf(its, b)
                              /\ InBlock(Deleted(its, i), b) = {} <=> InBlock(its, b) = {}
         /\ \A b \in Blocks : Blk(i.pos) # b => InBlock(Deleted(its, i), b) = InBlock(its, b)
         /\ \A j \in Deleted(its, i) :
              \/ j \in its /\ j # i
              \/ j.state = "DELETE" /\ j.pos = i.pos
         /\ \A j \in its : j # i => j \in Deleted(its, i)
         /\ \A j \in its : j.pos = i.pos => j = i
<1> DEFINE d == Rest("DELETE", i.pos, i.len)
           new == Deleted(its, i)
<1>1. /\ i.pos \in Nat /\ i.len \in Nat
      /\ Blk(i.pos) \in Blocks /\ i.len > 0
      /\ Start(Blk(i.pos)) + BLK_HDR_SIZE <= i.pos
      /\ i.pos + i.len < Start(Blk(i.pos)) + BLK_SIZE
  BY LaidItem
<1>2. d \in ItemType /\ d.pos = i.pos /\ d.len = i.len /\ d.state = "DELETE"
  BY <1>1 DEF Rest, ItemType, Garbage
<1> HIDE DEF d
<1>3. \A j \in its : j.pos = i.pos => j = i
  BY DEF ItemsLaid
<1>4. new = (its \ {i}) \cup {d}
  BY DEF Deleted, d
<1> HIDE DEF new
<1>5. ItemsLaid(new)
  <2>1. new \subseteq ItemType
    BY <1>2, <1>4 DEF ItemsLaid
  <2>2. ASSUME NEW j \in new
        PROVE  /\ Blk(j.pos) \in Blocks /\ j.len > 0
               /\ Start(Blk(j.pos)) + BLK_HDR_SIZE <= j.pos
               /\ j.pos + j.len < Start(Blk(j.pos)) + BLK_SIZE
               /\ j.state = "NORMAL" => j.key \in Keys /\ j.val \in Values /\ j.len = ItemLen[j.val]
    BY <1>1, <1>2, <1>4, LaidItem
  <2>5. ASSUME NEW j \in new
        PROVE  \E x \in its : x.pos = j.pos /\ x.len = j.len /\ (x # j => x = i /\ j = d)
    BY <1>2, <1>4
  <2>3. ASSUME NEW j \in new, NEW l \in new, j.pos < l.pos PROVE j.pos + j.len <= l.pos
    <3>1. PICK x \in its : x.pos = j.pos /\ x.len = j.len
      BY <2>5
    <3>2. PICK y \in its : y.pos = l.pos /\ y.len = l.len
      BY <2>5
    <3>3. x.pos < y.pos
      BY <2>3, <3>1, <3>2
    <3>4. x.pos + x.len <= y.pos
      BY <3>3 DEF ItemsLaid
    <3> QED BY <3>1, <3>2, <3>4
  <2>4. ASSUME NEW j \in new, NEW l \in new, j.pos = l.pos PROVE j = l
    <3>1. \A x, y \in its : x.pos = y.pos => x = y
      BY DEF ItemsLaid
    <3>2. CASE j = d
      BY <3>1, <3>2, <2>4, <1>2, <1>3, <1>4
    <3>3. CASE l = d
      BY <3>1, <3>3, <2>4, <1>2, <1>3, <1>4
    <3>4. CASE j \in its /\ l \in its
      BY <3>1, <3>4, <2>4
    <3> QED BY <3>2, <3>3, <3>4, <1>4
  <2> QED BY <2>1, <2>2, <2>3, <2>4 DEF ItemsLaid
<1>6. ASSUME NEW b \in Blocks
      PROVE  {x.pos + x.len : x \in InBlock(new, b)} = {x.pos + x.len : x \in InBlock(its, b)}
  <2>1. ASSUME NEW x \in InBlock(new, b)
        PROVE  \E y \in InBlock(its, b) : x.pos + x.len = y.pos + y.len
    BY <1>2, <1>4 DEF InBlock
  <2>2. ASSUME NEW x \in InBlock(its, b)
        PROVE  \E y \in InBlock(new, b) : x.pos + x.len = y.pos + y.len
    BY <1>2, <1>4 DEF InBlock
  <2> QED BY <2>1, <2>2
<1>7. ASSUME NEW b \in Blocks
      PROVE  FreePos(new, b) = FreePos(its, b) /\ SpaceOf(new, b) = SpaceOf(its, b)
  <2>1. FreePos(new, b) = FreePos(its, b)
    BY <1>6 DEF FreePos
  <2> QED BY <2>1 DEF SpaceOf
<1>8. ASSUME NEW b \in Blocks PROVE InBlock(new, b) = {} <=> InBlock(its, b) = {}
  BY <1>2, <1>4 DEF InBlock
<1>9. ASSUME NEW b \in Blocks, Blk(i.pos) # b PROVE InBlock(new, b) = InBlock(its, b)
  BY <1>2, <1>4, <1>9 DEF InBlock
<1>10. \A j \in new : \/ j \in its /\ j # i
                      \/ j.state = "DELETE" /\ j.pos = i.pos
  BY <1>2, <1>4
<1>11. \A j \in its : j # i => j \in new
  BY <1>4
<1> QED BY <1>3, <1>5, <1>7, <1>8, <1>9, <1>10, <1>11 DEF new

(* kv_item_del finds the item by its position. *)
LEMMA AtPos ==
  ASSUME NEW its, ItemsLaid(its), NEW i \in its
  PROVE  (CHOOSE x \in its : x.pos = i.pos) = i
<1>1. \A x \in its : x.pos = i.pos => x = i
  BY DEF ItemsLaid
<1> QED BY <1>1

(* kv_block_format. *)
LEMMA Erased ==
  ASSUME NEW its, ItemsLaid(its), NEW b \in Blocks
  PROVE  /\ ItemsLaid(its \ InBlock(its, b))
         /\ InBlock(its \ InBlock(its, b), b) = {}
         /\ SpaceOf(its \ InBlock(its, b), b) = BLK_SIZE - BLK_HDR_SIZE
         /\ \A c \in Blocks : c # b =>
              /\ InBlock(its \ InBlock(its, b), c) = InBlock(its, c)
              /\ FreePos(its \ InBlock(its, b), c) = FreePos(its, c)
              /\ SpaceOf(its \ InBlock(its, b), c) = SpaceOf(its, c)
<1> DEFINE new == its \ InBlock(its, b)
<1>1. ItemsLaid(new)
  BY DEF ItemsLaid
<1>2. InBlock(new, b) = {}
  BY DEF InBlock
<1>3. ASSUME NEW c \in Blocks, c # b PROVE InBlock(new, c) = InBlock(its, c)
  BY <1>3 DEF InBlock
<1>4. ASSUME NEW c \in Blocks, c # b
      PROVE  FreePos(new, c) = FreePos(its, c) /\ SpaceOf(new, c) = SpaceOf(its, c)
  BY <1>3, <1>4 DEF FreePos, SpaceOf
<1>5. SpaceOf(new, b) = BLK_SIZE - BLK_HDR_SIZE
  <2> HIDE DEF new
  <2> QED BY <1>1, <1>2, SpaceIs
<1> QED BY <1>1, <1>2, <1>3, <1>4, <1>5

(* The other block after an erase. *)
LEMMA ErasedOther ==
  ASSUME NEW its, ItemsLaid(its), NEW b \in Blocks, NEW c \in Blocks, c # b,
         NEW new, new = its \ InBlock(its, b)
  PROVE  /\ InBlock(new, b) = {} /\ InBlock(new, c) = InBlock(its, c)
         /\ FreePos(new, c) = FreePos(its, c) /\ SpaceOf(new, c) = SpaceOf(its, c)
<1>1. InBlock(new, b) = {} /\ InBlock(new, c) = InBlock(its, c)
  BY DEF InBlock
<1> QED BY <1>1 DEF FreePos, SpaceOf

-----------------------------------------------------------------------------
(* What a write does to FlashInv. *)

(* A new item at the end of a block. *)
LEMMA FlashAppend ==
  ASSUME FlashInv, NEW b \in Blocks, NEW i \in ItemType,
         i.pos = FreePos(items, b), i.len > 0, i.pos + i.len < Start(b) + BLK_SIZE,
         i.state = "NORMAL" => i.key \in Keys /\ i.val \in Values /\ i.len = ItemLen[i.val],
         \A j \in items : Twins(j, i) /\ Blk(j.pos) = b => i.origin = j.pos,
         hdr[b] # "BAD",
         \A c \in Blocks : hdr[b] = "CLEAN" /\ c # b => hdr[c] = "DIRTY",
         \A j \in items : Blk(j.pos) # b => hdr[Blk(j.pos)] # "CLEAN",
         items' = items \cup {i}, hdr' = hdr
  PROVE  FlashInv'
<1>1. /\ ItemsLaid(items')
      /\ Blk(i.pos) = b
      /\ \A j \in items : j.pos # i.pos /\ (Blk(j.pos) = b => j.pos < i.pos)
      /\ \A c \in Blocks : c # b => InBlock(items', c) = InBlock(items, c)
  <2>1. ItemsLaid(items)
    BY DEF FlashInv
  <2> QED BY <2>1, Appended
<1>2. ASSUME NEW j \in items', NEW l \in items', Twins(j, l), Blk(j.pos) = Blk(l.pos)
      PROVE  l.origin = j.pos
  <2>1. CASE j \in items /\ l \in items
    BY <1>2, <2>1 DEF FlashInv
  <2>2. CASE l = i
    <3>1. j # i
      <4>1. i.pos \in Nat
        BY DEF ItemType
      <4> QED BY <4>1, <1>2, <2>2 DEF Twins
    <3> QED BY <3>1, <2>2, <1>1, <1>2
  <2>3. CASE j = i /\ l \in items
    <3>1. l.pos < i.pos /\ i.pos < l.pos
      BY <1>1, <1>2, <2>3 DEF Twins
    <3>2. i.pos \in Nat /\ l.pos \in Nat
      BY <2>3 DEF ItemType, FlashInv, ItemsLaid
    <3> QED BY <3>1, <3>2
  <2> QED BY <2>1, <2>2, <2>3
<1>3. \A j \in items' : hdr'[Blk(j.pos)] # "BAD"
  BY <1>1 DEF FlashInv
<1>4. \A c, d \in Blocks : hdr'[c] \in {"USED", "DIRTY"} /\ hdr'[d] \in {"USED", "DIRTY"} => c = d
  BY DEF FlashInv
<1>5. ASSUME NEW j \in items', NEW c \in Blocks, hdr'[Blk(j.pos)] = "CLEAN", c # Blk(j.pos)
      PROVE  hdr'[c] = "DIRTY" \/ (hdr'[c] \in {"BAD", "CLEAN"} /\ InBlock(items', c) = {})
  <2>1. CASE j = i
    BY <1>1, <1>5, <2>1
  <2>2. CASE j \in items
    BY <1>1, <1>5, <2>2 DEF FlashInv
  <2> QED BY <2>1, <2>2
<1> QED BY <1>1, <1>2, <1>3, <1>4, <1>5 DEF FlashInv

(* An item becomes garbage. *)
LEMMA FlashDelete ==
  ASSUME FlashInv, NEW i \in items, items' = Deleted(items, i), hdr' = hdr
  PROVE  FlashInv'
<1>1. ItemsLaid(items)
  BY DEF FlashInv
<1>2. /\ ItemsLaid(items')
      /\ \A b \in Blocks : InBlock(items', b) = {} <=> InBlock(items, b) = {}
      /\ \A j \in items' : j \in items \/ (j.state = "DELETE" /\ j.pos = i.pos)
  BY <1>1, DeletedIs
<1>3. ASSUME NEW j \in items', NEW l \in items', Twins(j, l), Blk(j.pos) = Blk(l.pos)
      PROVE  l.origin = j.pos
  <2>1. j \in items /\ l \in items
    BY <1>2, <1>3 DEF Twins
  <2> QED BY <1>3, <2>1 DEF FlashInv
<1>4. \A j \in items' : \E l \in items : Blk(j.pos) = Blk(l.pos)
  BY <1>2
<1>5. \A j \in items' : hdr'[Blk(j.pos)] # "BAD"
  BY <1>4 DEF FlashInv
<1>6. \A c, d \in Blocks : hdr'[c] \in {"USED", "DIRTY"} /\ hdr'[d] \in {"USED", "DIRTY"} => c = d
  BY DEF FlashInv
<1>7. ASSUME NEW j \in items', NEW c \in Blocks, hdr'[Blk(j.pos)] = "CLEAN", c # Blk(j.pos)
      PROVE  hdr'[c] = "DIRTY" \/ (hdr'[c] \in {"BAD", "CLEAN"} /\ InBlock(items', c) = {})
  BY <1>2, <1>4, <1>7 DEF FlashInv
<1> QED BY <1>2, <1>3, <1>5, <1>6, <1>7 DEF FlashInv

(* A block is erased. *)
LEMMA FlashErase ==
  ASSUME TypeOK, FlashInv, NEW b \in Blocks, Erase(b)
  PROVE  FlashInv'
<1>1. ItemsLaid(items)
  BY DEF FlashInv
<1>2. items' = items \ InBlock(items, b) /\ hdr' = [hdr EXCEPT ![b] = "BAD"]
  BY DEF Erase
<1>3. /\ ItemsLaid(items')
      /\ InBlock(items', b) = {}
      /\ \A c \in Blocks : c # b => InBlock(items', c) = InBlock(items, c)
  BY <1>1, <1>2, Erased
<1>4. \A j \in items' : j \in items /\ Blk(j.pos) # b /\ Blk(j.pos) \in Blocks
  BY <1>1, <1>2, LaidItem DEF InBlock
<1>5. hdr'[b] = "BAD" /\ \A c \in Blocks : c # b => hdr'[c] = hdr[c]
  BY <1>2 DEF TypeOK
<1>6. ASSUME NEW j \in items', NEW l \in items', Twins(j, l), Blk(j.pos) = Blk(l.pos)
      PROVE  l.origin = j.pos
  BY <1>4, <1>6 DEF FlashInv
<1>7. \A j \in items' : hdr'[Blk(j.pos)] # "BAD"
  BY <1>4, <1>5 DEF FlashInv
<1>8. ASSUME NEW c \in Blocks, NEW d \in Blocks,
             hdr'[c] \in {"USED", "DIRTY"}, hdr'[d] \in {"USED", "DIRTY"}
      PROVE  c = d
  <2>1. c # b /\ d # b
    BY <1>5, <1>8
  <2> QED BY <1>5, <1>8, <2>1 DEF FlashInv
<1>9. ASSUME NEW j \in items', NEW c \in Blocks, hdr'[Blk(j.pos)] = "CLEAN", c # Blk(j.pos)
      PROVE  hdr'[c] = "DIRTY" \/ (hdr'[c] \in {"BAD", "CLEAN"} /\ InBlock(items', c) = {})
  <2>1. CASE c = b
    BY <1>3, <1>5, <2>1
  <2>2. CASE c # b
    BY <1>3, <1>4, <1>5, <1>9, <2>2 DEF FlashInv
  <2> QED BY <2>1, <2>2
<1> QED BY <1>3, <1>6, <1>7, <1>8, <1>9 DEF FlashInv

(* A block without a header holds no item. *)
LEMMA BadEmpty ==
  ASSUME FlashInv, NEW b \in Blocks, hdr[b] = "BAD"
  PROVE  InBlock(items, b) = {}
  BY DEF FlashInv, InBlock

(* An erased block gets its header. *)
LEMMA FlashFormat ==
  ASSUME TypeOK, FlashInv, NEW b \in Blocks, hdr[b] = "BAD",
         hdr' = [hdr EXCEPT ![b] = "CLEAN"], items' = items
  PROVE  FlashInv'
<1>1. hdr'[b] = "CLEAN" /\ \A c \in Blocks : c # b => hdr'[c] = hdr[c]
  BY DEF TypeOK
<1>2. InBlock(items', b) = {}
  BY BadEmpty
<1>3. \A j \in items' : Blk(j.pos) # b /\ Blk(j.pos) \in Blocks
  BY <1>2, LaidItem DEF InBlock, FlashInv
<1>4. \A j \in items' : hdr'[Blk(j.pos)] # "BAD"
  BY <1>1, <1>3 DEF FlashInv
<1>5. ASSUME NEW c \in Blocks, NEW d \in Blocks,
             hdr'[c] \in {"USED", "DIRTY"}, hdr'[d] \in {"USED", "DIRTY"}
      PROVE  c = d
  <2>1. c # b /\ d # b
    BY <1>1, <1>5
  <2> QED BY <1>1, <1>5, <2>1 DEF FlashInv
<1>6. ASSUME NEW j \in items', NEW c \in Blocks, hdr'[Blk(j.pos)] = "CLEAN", c # Blk(j.pos)
      PROVE  hdr'[c] = "DIRTY" \/ (hdr'[c] \in {"BAD", "CLEAN"} /\ InBlock(items', c) = {})
  <2>1. CASE c = b
    BY <1>1, <1>2, <2>1
  <2>2. CASE c # b
    BY <1>1, <1>3, <1>6, <2>2 DEF FlashInv
  <2> QED BY <2>1, <2>2
<1>7. /\ ItemsLaid(items')
      /\ \A i, j \in items' : Twins(i, j) /\ Blk(i.pos) = Blk(j.pos) => j.origin = i.pos
  BY DEF FlashInv
<1> QED BY <1>4, <1>5, <1>6, <1>7 DEF FlashInv

(* A block in use is marked DIRTY, or a clean one put to use beside an empty one. *)
LEMMA FlashMark ==
  ASSUME TypeOK, FlashInv, NEW b \in Blocks, NEW s \in {"USED", "DIRTY"},
         hdr' = [hdr EXCEPT ![b] = s], items' = items,
         \/ hdr[b] \in {"USED", "DIRTY"} /\ s = "DIRTY"
         \/ \A c \in Blocks : c # b => hdr[c] = "CLEAN" /\ InBlock(items, c) = {}
  PROVE  FlashInv'
<1>1. hdr'[b] = s /\ \A c \in Blocks : c # b => hdr'[c] = hdr[c]
  BY DEF TypeOK
<1>2. \A j \in items : Blk(j.pos) \in Blocks
  BY LaidItem DEF FlashInv
<1>3. \A j \in items' : hdr'[Blk(j.pos)] # "BAD"
  BY <1>1, <1>2 DEF FlashInv
<1>4. /\ ItemsLaid(items')
      /\ \A i, j \in items' : Twins(i, j) /\ Blk(i.pos) = Blk(j.pos) => j.origin = i.pos
  BY DEF FlashInv
<1>5. CASE hdr[b] \in {"USED", "DIRTY"} /\ s = "DIRTY"
  <2>1. \A c, d \in Blocks : hdr'[c] \in {"USED", "DIRTY"} /\ hdr'[d] \in {"USED", "DIRTY"} => c = d
    BY <1>1, <1>5 DEF FlashInv
  <2>2. ASSUME NEW j \in items', NEW c \in Blocks, hdr'[Blk(j.pos)] = "CLEAN", c # Blk(j.pos)
        PROVE  hdr'[c] = "DIRTY" \/ (hdr'[c] \in {"BAD", "CLEAN"} /\ InBlock(items', c) = {})
    BY <1>1, <1>2, <1>5, <2>2 DEF FlashInv
  <2> QED BY <1>3, <1>4, <2>1, <2>2 DEF FlashInv
<1>6. CASE \A c \in Blocks : c # b => hdr[c] = "CLEAN" /\ InBlock(items, c) = {}
  <2>1. \A c, d \in Blocks : hdr'[c] \in {"USED", "DIRTY"} /\ hdr'[d] \in {"USED", "DIRTY"} => c = d
    BY <1>1, <1>6
  <2>2. \A j \in items' : Blk(j.pos) = b
    BY <1>2, <1>6 DEF InBlock
  <2>3. ASSUME NEW j \in items', NEW c \in Blocks, hdr'[Blk(j.pos)] = "CLEAN", c # Blk(j.pos)
        PROVE  hdr'[c] = "DIRTY" \/ (hdr'[c] \in {"BAD", "CLEAN"} /\ InBlock(items', c) = {})
    BY <1>1, <2>2, <2>3
  <2> QED BY <1>3, <1>4, <2>1, <2>3 DEF FlashInv
<1> QED BY <1>5, <1>6

-----------------------------------------------------------------------------
(* Facts every action needs. *)

(* The owners of the mutex are told apart. *)
LEMMA Owners ==
  /\ None \notin Task /\ "gc" \notin Task /\ "boot" \notin Task
  /\ None # "gc" /\ None # "boot"
  /\ \A k \in Keys : k # None
  /\ \A v \in Values : v # None
  /\ Free.by = None /\ Free.step = "free"
<1>1. None \notin Task \cup Keys \cup Values \cup {"gc", "boot"} /\ "gc" \notin Task /\ "boot" \notin Task
  BY KvAssumption
<1> QED BY <1>1 DEF Free, Job

(* The calls. *)
LEMMA RequestIs ==
  ASSUME NEW c \in Requests
  PROVE  /\ c.op \in {"set", "get", "del", "prefix"} /\ c # NoCall /\ c.keys \subseteq Keys
         /\ c.op # "prefix" => \E k \in Keys : c.keys = {k}
         /\ IF c.op = "set" THEN c.val \in Values ELSE c.val = None
<1>1. \/ c \in [op : {"set"}, keys : {{k} : k \in Keys}, val : Values]
      \/ c \in [op : {"get", "del"}, keys : {{k} : k \in Keys}, val : {None}]
      \/ c \in [op : {"prefix"}, keys : SUBSET Keys, val : {None}]
  BY KvAssumption
<1>2. /\ c.op \in {"set", "get", "del", "prefix"} /\ c.keys \subseteq Keys
      /\ c.op # "prefix" => \E k \in Keys : c.keys = {k}
      /\ IF c.op = "set" THEN c.val \in Values ELSE c.val = None
  BY <1>1
<1>3. NoCall.op = "none"
  BY DEF NoCall
<1> QED BY <1>2, <1>3

(* A task that is not idle has a call. *)
LEMMA CallIs ==
  ASSUME TypeOK, ControlInv, NEW t \in Task, pc[t] # "idle"
  PROVE  call[t] \in Requests
<1>1. call[t] \in Requests \cup {NoCall} /\ call[t] # NoCall
  BY DEF TypeOK, ControlInv
<1> QED BY <1>1

(* The key of a call. *)
LEMMA KeyIs ==
  ASSUME TypeOK, ControlInv, NEW t \in Task, pc[t] # "idle", call[t].op # "prefix"
  PROVE  KeyOf(t) \in Keys /\ call[t].keys = {KeyOf(t)}
<1>1. PICK k \in Keys : call[t].keys = {k}
  BY CallIs, RequestIs
<1>2. KeyOf(t) = k
  BY <1>1 DEF KeyOf
<1> QED BY <1>1, <1>2

(* FlashInv, and each phase, when nothing it speaks of changes. *)
LEMMA FlashFrame ==
  ASSUME FlashInv, UNCHANGED flash
  PROVE  FlashInv'
<1>1. items' = items /\ hdr' = hdr
  BY DEF flash
<1> QED BY <1>1 DEF FlashInv

(* The store is up and a step touches nothing of it. *)
LEMMA UpFrame ==
  ASSUME UpInv, UNCHANGED <<flash, info, clean_blk_nums, write_pos, job>>,
         job.step = "delete" => call'[job.by] = call[job.by]
  PROVE  UpInv'
<1>1. items' = items /\ hdr' = hdr
  BY DEF flash
<1> QED BY <1>1 DEF UpInv

(* The collector is at work and a step touches nothing of it. *)
LEMMA GcFrame ==
  ASSUME GcInv, UNCHANGED <<flash, info, clean_blk_nums, write_pos, job>>
  PROVE  GcInv'
<1>1. items' = items /\ hdr' = hdr
  BY DEF flash
<1> QED BY <1>1 DEF GcInv

(* kv_init is at work and a step touches nothing of it. *)
LEMMA BootFrame ==
  ASSUME BootInv, UNCHANGED <<flash, info, clean_blk_nums, job>>
  PROVE  BootInv'
<1>1. items' = items /\ hdr' = hdr
  BY DEF flash
<1>2. Done' = Done
  BY DEF Done
<1>3. \A b \in Done : Scanned(b)' <=> Scanned(b)
  BY <1>1 DEF Scanned, Original
<1>4. \A b \in Done' : Scanned(b)'
  BY <1>2, <1>3 DEF BootInv
<1> QED BY <1>1, <1>2, <1>4 DEF BootInv

(* The steps of a call before it has the mutex, and of a collector after it. *)
LEMMA OutsideStep ==
  ASSUME KvInv, GcSignal \/ \E t \in Task : Invoke(t) \/ CountWaiter(t) \/ TakeGcSem(t)
  PROVE  KvInv'
<1>0. PICK t : GcSignal \/ (t \in Task /\ (Invoke(t) \/ CountWaiter(t) \/ TakeGcSem(t)))
  OBVIOUS
<1>1. TypeOK /\ FlashInv /\ ControlInv
  BY DEF KvInv
<1>2. UNCHANGED <<flash, info, clean_blk_nums, write_pos, job>>
  BY <1>0 DEF Invoke, CountWaiter, TakeGcSem, GcSignal
<1>3. FlashInv'
  BY <1>1, <1>2, FlashFrame
<1>4. /\ gc_trigger' \in BOOLEAN /\ gc_waiter' \in BOOLEAN /\ gc_sem' \in Nat /\ ending' \in Nat
      /\ pc' \in [Task -> {"idle", "count", "take", "blocked", "lock"}]
      /\ call' \in [Task -> Requests \cup {NoCall}]
  <2>1. CASE t \in Task /\ Invoke(t)
    BY <1>1, <2>1 DEF TypeOK, Invoke, gcVars
  <2>2. CASE t \in Task /\ CountWaiter(t)
    BY <1>1, <2>2 DEF TypeOK, CountWaiter
  <2>3. CASE t \in Task /\ TakeGcSem(t)
    BY <1>1, <2>3 DEF TypeOK, TakeGcSem
  <2>4. CASE GcSignal
    <3>1. pc' \in [Task -> {"idle", "count", "take", "blocked", "lock"}]
      BY <1>1, <2>4 DEF TypeOK, GcSignal
    <3>2. gc_sem' \in Nat /\ ending' \in Nat
      BY <1>1, <2>4 DEF TypeOK, GcSignal
    <3> QED BY <1>1, <2>4, <3>1, <3>2 DEF TypeOK, GcSignal
  <2> QED BY <1>0, <2>1, <2>2, <2>3, <2>4
<1>5. TypeOK'
  <2>1. items' = items /\ hdr' = hdr
    BY <1>2 DEF flash
  <2> QED BY <1>1, <1>2, <1>4, <2>1 DEF TypeOK
<1>6. ASSUME NEW u \in Task
      PROVE  /\ pc'[u] = "idle" <=> call'[u] = NoCall
             /\ pc[u] = "lock" => pc'[u] = "lock" /\ call'[u] = call[u]
             /\ job.by = "boot" => pc'[u] = "idle"
  <2>0. /\ pc \in [Task -> {"idle", "count", "take", "blocked", "lock"}]
        /\ call \in [Task -> Requests \cup {NoCall}]
        /\ pc[u] = "idle" <=> call[u] = NoCall
        /\ job.by = "boot" => \A x \in Task : pc[x] = "idle"
    BY <1>1 DEF TypeOK, ControlInv
  <2>1. CASE t \in Task /\ Invoke(t)
    <3>1. /\ job.by # "boot" /\ pc[t] = "idle"
          /\ \E c \in Requests : call' = [call EXCEPT ![t] = c]
          /\ \E s \in {"count", "lock"} : pc' = [pc EXCEPT ![t] = s]
      BY <2>1 DEF Invoke, Up
    <3> QED BY <2>0, <3>1, RequestIs
  <2>2. CASE t \in Task /\ CountWaiter(t)
    BY <2>0, <2>2 DEF CountWaiter
  <2>3. CASE t \in Task /\ TakeGcSem(t)
    BY <2>0, <2>3 DEF TakeGcSem
  <2>4. CASE GcSignal
    BY <2>0, <2>4 DEF GcSignal
  <2> QED BY <1>0, <2>1, <2>2, <2>3, <2>4
<1>7. ControlInv'
  BY <1>1, <1>2, <1>6 DEF ControlInv
<1>8. job.by \in Task \cup {None} => UpInv'
  <2> SUFFICES ASSUME job.by \in Task \cup {None} PROVE UpInv'
    OBVIOUS
  <2>1. job.step = "delete" => call'[job.by] = call[job.by]
    <3>1. job.step = "delete" => job.by \in Task
      BY <1>1, Owners DEF ControlInv
    <3>2. job.by \in Task => pc[job.by] = "lock"
      BY <1>1 DEF ControlInv
    <3> QED BY <3>1, <3>2, <1>6
  <2> QED BY <1>2, <2>1, UpFrame DEF KvInv
<1>9. job.by = "gc" => GcInv'
  BY <1>2, GcFrame DEF KvInv
<1>10. job.by = "boot" => BootInv'
  BY <1>2, BootFrame DEF KvInv
<1> QED BY <1>2, <1>3, <1>5, <1>7, <1>8, <1>9, <1>10 DEF KvInv

-----------------------------------------------------------------------------
(* Calls that answer. *)

(* block_info is already what a traversal notes. *)
LEMMA InfoSame ==
  ASSUME TypeOK, UpInv
  PROVE  /\ \A k : InfoAfterGet(k) = info
         /\ [b \in Blocks |-> [info[b] EXCEPT !.space = SpaceOf(items, b)]] = info
<1>1. info \in [Blocks -> [state : {"NONE", "CLEAN", "USED", "DIRTY"}, space : 0 .. BLK_SIZE]]
  BY DEF TypeOK
<1>2. \A b \in Blocks : info[b] = [state |-> hdr[b], space |-> SpaceOf(items, b)]
  BY DEF UpInv
<1>3. ASSUME NEW b \in Blocks PROVE [info[b] EXCEPT !.space = SpaceOf(items, b)] = info[b]
  <2>1. \A a, s : [[state |-> a, space |-> s] EXCEPT !.space = s] = [state |-> a, space |-> s]
    OBVIOUS
  <2>2. info[b] = [state |-> hdr[b], space |-> SpaceOf(items, b)]
    BY <1>2
  <2> QED BY <2>1, <2>2
<1>4. info = [b \in Blocks |-> info[b]]
  BY <1>1
<1>5. ASSUME NEW k PROVE InfoAfterGet(k) = info
  <2>1. InfoAfterGet(k) = [b \in Blocks |-> info[b]]
    BY <1>3 DEF InfoAfterGet
  <2> QED BY <2>1, <1>4
<1>6. [b \in Blocks |-> [info[b] EXCEPT !.space = SpaceOf(items, b)]] = [b \in Blocks |-> info[b]]
  BY <1>3
<1> QED BY <1>4, <1>5, <1>6

(* A task takes the mutex. *)
LEMMA LockIs ==
  ASSUME KvInv, NEW t \in Task, NEW op, Locks(t, op)
  PROVE  /\ TypeOK /\ FlashInv /\ ControlInv /\ UpInv
         /\ job = Free /\ job.by = None /\ job.step = "free"
         /\ pc[t] = "lock" /\ call[t].op = op /\ call[t] \in Requests
<1>1. job = Free /\ pc[t] = "lock" /\ call[t].op = op
  BY DEF Locks
<1>2. job.by = None /\ job.step = "free"
  BY <1>1, Owners
<1>3. TypeOK /\ FlashInv /\ ControlInv /\ UpInv
  BY <1>2 DEF KvInv
<1> QED BY <1>1, <1>2, <1>3, CallIs

(* The owner of the mutex is a task. *)
LEMMA OwnerIs ==
  ASSUME KvInv, NEW t \in Task, job.by = t
  PROVE  /\ TypeOK /\ FlashInv /\ ControlInv /\ UpInv
         /\ pc[t] = "lock" /\ call[t] \in Requests
<1>1. TypeOK /\ FlashInv /\ ControlInv /\ UpInv
  BY DEF KvInv
<1>2. pc[t] = "lock"
  BY <1>1 DEF ControlInv
<1> QED BY <1>1, <1>2, CallIs

(* The end of a call leaves the store as it is. *)
LEMMA FinishKeeps ==
  ASSUME KvInv, NEW t \in Task, NEW res, Finish(t, res),
         job.by \in {t, None}, job.step \notin {"mark", "delete"},
         UNCHANGED <<flash, info, clean_blk_nums, write_pos>>,
         gc_trigger' \in BOOLEAN, gc_waiter' \in BOOLEAN, UNCHANGED <<gc_sem, ending>>
  PROVE  KvInv'
<1>1. TypeOK /\ FlashInv /\ ControlInv /\ UpInv
  BY DEF KvInv
<1>2. items' = items /\ hdr' = hdr
  BY DEF flash
<1>3. /\ job' = Free /\ pc' = [pc EXCEPT ![t] = "idle"] /\ call' = [call EXCEPT ![t] = NoCall]
  BY DEF Finish
<1>4. job'.by = None /\ job'.step = "free"
  BY <1>3, Owners
<1>5. TypeOK'
  BY <1>1, <1>2, <1>3, <1>4 DEF TypeOK
<1>6. FlashInv'
  BY <1>1, FlashFrame
<1>7. ControlInv'
  <2>1. job' \in [by : Task \cup {None, "gc", "boot"}, step : Steps, pos : Nat, blk : Blocks,
                  mark : Blocks, unclean : SUBSET Blocks]
    BY <1>3, Sizes DEF Free, Job, Steps
  <2>2. \A u \in Task : pc'[u] = "idle" <=> call'[u] = NoCall
    BY <1>1, <1>3 DEF ControlInv, TypeOK
  <2> QED BY <2>1, <2>2, <1>3, <1>4, Owners DEF ControlInv
<1>8. UpInv'
  BY <1>1, <1>2, <1>4 DEF UpInv
<1> QED BY <1>4, <1>5, <1>6, <1>7, <1>8, Owners DEF KvInv

(* TriggerGc sets a flag and may clear another. *)
LEMMA TriggerIs ==
  ASSUME TypeOK, NEW cond \in BOOLEAN, TriggerGc(cond)
  PROVE  gc_trigger' \in BOOLEAN /\ gc_waiter' \in BOOLEAN /\ UNCHANGED <<gc_sem, ending>>
  BY DEF TriggerGc, TypeOK

(* The calls that write nothing. *)
LEMMA AnswerStep ==
  ASSUME KvInv, NEW t \in Task, Return(t) \/ Get(t) \/ SetSame(t) \/ SetFull(t)
  PROVE  KvInv'
<1>1. CASE Return(t)
  <2>1. TypeOK
    BY DEF KvInv
  <2>2. /\ Finish(t, "RES_OK") /\ job.by = t /\ job.step = "return"
        /\ UNCHANGED <<flash, info, clean_blk_nums, write_pos>>
        /\ UNCHANGED <<gc_trigger, gc_waiter, gc_sem, ending>>
    BY <1>1 DEF Return, gcVars
  <2> QED BY <2>1, <2>2, FinishKeeps DEF TypeOK
<1>2. CASE Get(t)
  <2>1. TypeOK /\ UpInv /\ job.by = None /\ job.step = "free"
    BY <1>2, LockIs DEF Get
  <2>2. PICK res : Finish(t, res)
    BY <1>2 DEF Get
  <2>3. /\ UNCHANGED <<flash, info, clean_blk_nums, write_pos>>
        /\ UNCHANGED <<gc_trigger, gc_waiter, gc_sem, ending>>
    BY <1>2, <2>1, InfoSame DEF Get, gcVars
  <2> QED BY <2>1, <2>2, <2>3, FinishKeeps DEF TypeOK
<1>3. CASE SetSame(t)
  <2>1. TypeOK /\ UpInv /\ job.by = None /\ job.step = "free"
    BY <1>3, LockIs DEF SetSame
  <2>2. /\ Finish(t, "RES_OK")
        /\ UNCHANGED <<flash, info, clean_blk_nums, write_pos>>
        /\ UNCHANGED <<gc_trigger, gc_waiter, gc_sem, ending>>
    BY <1>3, <2>1, InfoSame DEF SetSame, gcVars
  <2> QED BY <2>1, <2>2, FinishKeeps DEF TypeOK
<1>4. CASE SetFull(t)
  <2>1. TypeOK /\ UpInv /\ job.by = None /\ job.step = "free"
    BY <1>4, LockIs DEF SetFull
  <2>2. /\ Finish(t, "RES_NO_SPACE")
        /\ UNCHANGED <<flash, info, clean_blk_nums, write_pos>>
        /\ TriggerGc(TRUE)
    BY <1>4, <2>1, InfoSame DEF SetFull
  <2>3. gc_trigger' \in BOOLEAN /\ gc_waiter' \in BOOLEAN /\ UNCHANGED <<gc_sem, ending>>
    BY <2>1, <2>2, TriggerIs
  <2> QED BY <2>1, <2>2, <2>3, FinishKeeps
<1> QED BY <1>1, <1>2, <1>3, <1>4

-----------------------------------------------------------------------------
(* Calls that write. *)

(* kv_item_get finds the one item of the key. *)
LEMMA CandidatesIs ==
  ASSUME TypeOK, FlashInv, UpInv, job.step # "delete", NEW k
  PROVE  /\ Candidates(k) = {i \in items : i.state = "NORMAL" /\ i.key = k}
         /\ \A i \in Candidates(k) : First(Candidates(k)) = i
         /\ Candidates(k) # {} => First(Candidates(k)) \in Candidates(k)
<1>1. \A i \in items : info[Blk(i.pos)].state # "CLEAN"
  <2>1. ASSUME NEW i \in items PROVE info[Blk(i.pos)].state # "CLEAN"
    <3>1. Blk(i.pos) = Blk(write_pos) /\ Blk(i.pos) \in Blocks
      BY DEF UpInv
    <3>2. info[Blk(i.pos)] = [state |-> hdr[Blk(i.pos)], space |-> SpaceOf(items, Blk(i.pos))]
      BY <3>1 DEF UpInv
    <3>3. info[Blk(i.pos)].state = hdr[Blk(i.pos)]
      BY <3>2
    <3> QED BY <3>1, <3>3 DEF UpInv
  <2> QED BY <2>1
<1>2. Candidates(k) = {i \in items : i.state = "NORMAL" /\ i.key = k}
  BY <1>1 DEF Candidates, Normal
<1>3. ASSUME NEW i \in Candidates(k), NEW j \in Candidates(k) PROVE i = j
  <2>1. i \in items /\ j \in items /\ i.state = "NORMAL" /\ j.state = "NORMAL" /\ i.key = j.key
    BY <1>2
  <2>2. ~ Twins(i, j) /\ ~ Twins(j, i)
    BY <2>1 DEF UpInv
  <2>3. i.pos \in Nat /\ j.pos \in Nat
    BY <2>1, LaidItem DEF FlashInv
  <2>4. i.pos = j.pos
    BY <2>1, <2>2, <2>3 DEF Twins
  <2> QED BY <2>1, <2>4 DEF FlashInv, ItemsLaid
<1>4. Candidates(k) # {} => First(Candidates(k)) \in Candidates(k)
  <2>1. Candidates(k) \subseteq ItemType
    BY <1>2 DEF FlashInv, ItemsLaid
  <2> QED BY <2>1, FirstIs
<1> QED BY <1>2, <1>3, <1>4

(* The item aos_kv_set writes. *)
LEMMA ItemIs ==
  ASSUME NEW p \in Nat, NEW k \in Keys, NEW v \in Values, NEW o \in Nat
  PROVE  /\ Item(p, k, v, o) \in ItemType
         /\ Item(p, k, v, o).pos = p /\ Item(p, k, v, o).state = "NORMAL"
         /\ Item(p, k, v, o).key = k /\ Item(p, k, v, o).val = v
         /\ Item(p, k, v, o).origin = o /\ Item(p, k, v, o).len = ItemLen[v]
<1>1. ItemLen[v] \in Nat
  BY Sizes
<1> QED BY <1>1 DEF Item, ItemType, Garbage

(* The block in use, its room and its first free place. *)
LEMMA RoomIs ==
  ASSUME TypeOK, FlashInv, UpInv, NEW len \in Nat, len > 0, info[Blk(write_pos)].space > len
  PROVE  /\ Blk(write_pos) \in Blocks /\ write_pos \in Nat
         /\ write_pos = FreePos(items, Blk(write_pos))
         /\ info[Blk(write_pos)].space = SpaceOf(items, Blk(write_pos))
         /\ write_pos + len < Start(Blk(write_pos)) + BLK_SIZE
         /\ Blk(write_pos + len) = Blk(write_pos)
         /\ write_pos + len \in 0 .. BLK_NUMS * BLK_SIZE - 1
<1> DEFINE u == Blk(write_pos)
<1>1. u \in Blocks /\ write_pos = FreePos(items, u)
  BY DEF UpInv
<1>2. info[u] = [state |-> hdr[u], space |-> SpaceOf(items, u)]
  BY <1>1 DEF UpInv
<1>3. ItemsLaid(items)
  BY DEF FlashInv
<1>4. write_pos \in Nat
  BY <1>1, <1>3, FreePosIs
<1> HIDE DEF u
<1>5. SpaceOf(items, u) = Start(u) + BLK_SIZE - write_pos
  BY <1>1, <1>3, SpaceIs
<1>6. Start(u) \in Nat /\ Start(u) <= write_pos
  BY <1>1, <1>3, StartIs, FreePosIs, Sizes
<1>7. info[u].space = SpaceOf(items, u)
  BY <1>2
<1>8. write_pos + len < Start(u) + BLK_SIZE
  BY <1>4, <1>5, <1>6, <1>7, Sizes DEF u
<1>9. Blk(write_pos + len) = u
  BY <1>1, <1>4, <1>6, <1>8, BlkIs, Sizes
<1>10. write_pos + len \in 0 .. BLK_NUMS * BLK_SIZE - 1
  <2>1. Start(u) + BLK_SIZE <= BLK_SIZE + BLK_SIZE
    BY <1>1, Sizes
  <2>2. BLK_NUMS * BLK_SIZE = BLK_SIZE + BLK_SIZE
    BY Sizes
  <2> QED BY <2>1, <2>2, <1>4, <1>6, <1>8, Sizes
<1> QED BY <1>1, <1>4, <1>7, <1>8, <1>9, <1>10 DEF u

(* aos_kv_set writes the new item. *)
LEMMA StoreStep ==
  ASSUME KvInv, NEW t \in Task, SetStore(t)
  PROVE  KvInv'
<1> DEFINE u == Blk(write_pos)
           k == KeyOf(t)
           v == call[t].val
           f == Candidates(k)
           old == IF f = {} THEN 0 ELSE First(f).pos
           i == Item(write_pos, k, v, old)
<1>1. /\ TypeOK /\ FlashInv /\ ControlInv /\ UpInv
      /\ job = Free /\ job.by = None /\ job.step = "free"
      /\ pc[t] = "lock" /\ call[t].op = "set" /\ call[t] \in Requests
  BY LockIs DEF SetStore
<1>2. k \in Keys /\ call[t].keys = {k}
  BY <1>1, KeyIs
<1>3. v \in Values
  BY <1>1, RequestIs
<1>4. SetLen(t) = ItemLen[v] /\ ItemLen[v] \in Nat /\ ItemLen[v] > 0
  <2>1. ItemLen[v] \in Nat /\ ITEM_HDR_SIZE < ItemLen[v]
    BY <1>3, Sizes
  <2> QED BY <2>1, Sizes DEF SetLen
<1>5. \A x : InfoAfterGet(x) = info
  BY <1>1, InfoSame
<1>6. info[u].space > ItemLen[v]
  BY <1>4, <1>5 DEF SetStore, SpaceFor
<1>7. /\ u \in Blocks /\ write_pos \in Nat /\ write_pos = FreePos(items, u)
      /\ info[u].space = SpaceOf(items, u)
      /\ write_pos + ItemLen[v] < Start(u) + BLK_SIZE
      /\ Blk(write_pos + ItemLen[v]) = u
      /\ write_pos + ItemLen[v] \in 0 .. BLK_NUMS * BLK_SIZE - 1
  BY <1>1, <1>4, <1>6, RoomIs
<1>8. /\ f = {x \in items : x.state = "NORMAL" /\ x.key = k}
      /\ \A x \in f : First(f) = x
      /\ f # {} => First(f) \in f
  BY <1>1, CandidatesIs
<1>9. ItemsLaid(items)
  BY <1>1 DEF FlashInv
<1>10. old \in Nat /\ \A x \in f : old = x.pos
  <2>1. \A x \in f : x.pos \in Nat
    BY <1>8, <1>9, LaidItem
  <2> QED BY <2>1, <1>8
<1>11. /\ items' = items \cup {i}
       /\ job' = Job(t, IF f = {} THEN "return" ELSE "delete", old, 0)
       /\ write_pos' = write_pos + ItemLen[v]
       /\ UNCHANGED <<hdr, clean_blk_nums, pc, call>>
  BY <1>4 DEF SetStore, WriteItem
<1>12. info' = [info EXCEPT ![u].space = @ - ItemLen[v]]
  <2>1. info' = [info EXCEPT ![Blk(write_pos')].space = @ - ItemLen[v]]
    BY <1>4, <1>5 DEF SetStore
  <2> QED BY <2>1, <1>7, <1>11
<1>13. /\ i \in ItemType /\ i.pos = write_pos /\ i.state = "NORMAL" /\ i.key = k
       /\ i.val = v /\ i.origin = old /\ i.len = ItemLen[v]
  BY <1>2, <1>3, <1>7, <1>10, ItemIs
<1> HIDE DEF i, old, f, k, v, u
<1>14. \A x \in items : Twins(x, i) => x \in f
  BY <1>8, <1>13 DEF Twins
<1>15. /\ \A b \in Blocks : b # u => hdr[b] = "CLEAN"
       /\ hdr[u] \in {"USED", "DIRTY"}
       /\ \A x \in items : Blk(x.pos) = u /\ x.state # "TORN" /\ (hdr[u] = "USED" => x.state = "NORMAL")
       /\ \A x, y \in items : ~ Twins(x, y)
       /\ \A b \in Blocks : info[b] = [state |-> hdr[b], space |-> SpaceOf(items, b)]
       /\ clean_blk_nums = 1
  BY <1>1 DEF UpInv, u
<1>16. FlashInv'
  <2>1. \A x \in items : Twins(x, i) /\ Blk(x.pos) = u => i.origin = x.pos
    BY <1>10, <1>13, <1>14
  <2> QED BY <1>1, <1>4, <1>7, <1>11, <1>13, <1>15, <2>1, <1>2, <1>3, FlashAppend
<1>17. /\ Blk(i.pos) = u
       /\ \A x \in items : Blk(x.pos) = u => x.pos < i.pos
       /\ FreePos(items', u) = i.pos + i.len
       /\ SpaceOf(items', u) = SpaceOf(items, u) - i.len
       /\ \A c \in Blocks : c # u => SpaceOf(items', c) = SpaceOf(items, c)
  <2>1. /\ i.pos = FreePos(items, u) /\ i.len > 0 /\ i.pos + i.len < Start(u) + BLK_SIZE
        /\ i.state = "NORMAL" => i.key \in Keys /\ i.val \in Values /\ i.len = ItemLen[i.val]
    BY <1>2, <1>3, <1>4, <1>7, <1>13
  <2>2. i \in ItemType /\ u \in Blocks
    BY <1>7, <1>13
  <2> QED BY <2>1, <2>2, <1>9, <1>11, Appended
<1>18. job'.by = t /\ job'.step = (IF f = {} THEN "return" ELSE "delete") /\ job'.pos = old
  BY <1>11 DEF Job
<1>19. ASSUME NEW b \in Blocks PROVE info'[b] = [state |-> hdr'[b], space |-> SpaceOf(items', b)]
  <2>1. info[b] = [state |-> hdr[b], space |-> SpaceOf(items, b)]
    BY <1>15
  <2>2. CASE b = u
    BY <2>1, <2>2, <1>1, <1>11, <1>12, <1>13, <1>17 DEF TypeOK
  <2>3. CASE b # u
    BY <2>1, <2>3, <1>1, <1>11, <1>12, <1>17 DEF TypeOK
  <2> QED BY <2>2, <2>3
<1>20. UpInv'
  <2>1. Blk(write_pos') = u /\ write_pos' = FreePos(items', u)
    BY <1>7, <1>11, <1>13, <1>17
  <2>2. \A x \in items' : Blk(x.pos) = u /\ x.state # "TORN" /\ (hdr'[u] = "USED" => x.state = "NORMAL")
    BY <1>11, <1>13, <1>15, <1>17
  <2>3. job'.step = "delete" =>
          \E x, y \in items' : /\ Twins(x, y) /\ x.pos = job'.pos
                               /\ x.key \in call'[job'.by].keys /\ y.val = call'[job'.by].val
    <3> SUFFICES ASSUME job'.step = "delete"
                 PROVE  \E x \in items' : /\ Twins(x, i) /\ x.pos = job'.pos
                                          /\ x.key \in call'[t].keys /\ i.val = call'[t].val
      BY <1>11, <1>18
    <3>1. f # {}
      BY <1>18
    <3>2. PICK x \in f : TRUE
      BY <3>1
    <3>3. x \in items /\ x.state = "NORMAL" /\ x.key = k
      BY <3>2, <1>8
    <3>4. Twins(x, i)
      BY <3>3, <1>13, <1>15, <1>17 DEF Twins
    <3> QED BY <3>2, <3>3, <3>4, <1>2, <1>10, <1>11, <1>13, <1>18 DEF v
  <2>4. ASSUME NEW x \in items', NEW y \in items', Twins(x, y)
        PROVE  job'.step = "delete" /\ x.pos = job'.pos
    <3>1. y = i /\ x \in items
      <4>1. i.pos \in Nat
        BY <1>7, <1>13
      <4>2. ~ Twins(i, i)
        BY <4>1 DEF Twins
      <4>3. \A z \in items : ~ Twins(i, z)
        <5>1. \A z \in items : z.pos < i.pos /\ z.pos \in Nat
          BY <1>9, <1>15, <1>17, LaidItem
        <5> QED BY <4>1, <5>1 DEF Twins
      <4> QED BY <4>2, <4>3, <2>4, <1>11, <1>15
    <3> QED BY <3>1, <2>4, <1>10, <1>14, <1>18
  <2>5. job'.step # "mark"
    BY <1>18
  <2> QED BY <2>1, <2>2, <2>3, <2>4, <2>5, <1>7, <1>11, <1>15, <1>19 DEF UpInv
<1>21. TypeOK'
  <2>1. items' \subseteq ItemType
    BY <1>11, <1>13, <1>1 DEF TypeOK
  <2>2. info' \in [Blocks -> [state : {"NONE", "CLEAN", "USED", "DIRTY"}, space : 0 .. BLK_SIZE]]
    <3>1. SpaceOf(items, u) \in 1 .. BLK_SIZE /\ SpaceOf(items', u) \in 1 .. BLK_SIZE
      BY <1>7, <1>9, <1>16, SpaceIs DEF FlashInv
    <3>2. SpaceOf(items, u) - ItemLen[v] \in 0 .. BLK_SIZE
      BY <3>1, <1>13, <1>17
    <3> QED BY <3>2, <1>1, <1>7, <1>12 DEF TypeOK
  <2>3. gc_trigger' \in BOOLEAN /\ gc_waiter' \in BOOLEAN /\ UNCHANGED <<gc_sem, ending>>
    BY <1>1, TriggerIs DEF SetStore
  <2> QED BY <2>1, <2>2, <2>3, <1>1, <1>7, <1>11, <1>18 DEF TypeOK
<1>22. ControlInv'
  <2>1. job' \in [by : Task \cup {None, "gc", "boot"}, step : Steps, pos : Nat, blk : Blocks,
                  mark : Blocks, unclean : SUBSET Blocks]
    BY <1>10, <1>11, Sizes DEF Job, Steps
  <2>2. \A x \in Task : job'.by = x => x = t
    BY <1>18
  <2>3. t # None /\ t # "boot"
    BY Owners
  <2> QED BY <2>1, <2>2, <2>3, <1>1, <1>11, <1>18 DEF ControlInv
<1>23. job'.by # "gc" /\ job'.by # "boot"
  BY <1>18, Owners
<1> QED BY <1>16, <1>20, <1>21, <1>22, <1>23 DEF KvInv

(* A task deletes the item of a key, or the older one of two. *)
LEMMA DeleteKeeps ==
  ASSUME KvInv, UpInv, NEW t \in Task, job.by \in {t, None}, job.step # "mark",
         NEW i \in items, i.state = "NORMAL",
         \A x, y \in items : Twins(x, y) => x = i,
         items' = Deleted(items, i),
         UNCHANGED <<hdr, info, clean_blk_nums, write_pos, gcVars, pc, call>>,
         pc[t] = "lock", NEW next,
         \/ next = "return" /\ call[t].op \in {"set", "del"}
         \/ next = "prefix" /\ call[t].op = "prefix",
         job' \in [by : {t}, step : Steps, pos : Nat, blk : Blocks, mark : Blocks,
                   unclean : SUBSET Blocks],
         IF info[Blk(i.pos)].state = "USED" THEN job'.step = "mark" /\ job'.mark = Blk(i.pos)
                                            ELSE job'.step = next
  PROVE  KvInv'
<1>1. TypeOK /\ FlashInv /\ ControlInv /\ ItemsLaid(items)
  BY DEF KvInv, FlashInv
<1>2. FlashInv'
  BY <1>1, FlashDelete
<1>3. /\ \A b \in Blocks : /\ FreePos(items', b) = FreePos(items, b)
                           /\ SpaceOf(items', b) = SpaceOf(items, b)
      /\ \A x \in items' : \/ x \in items /\ x # i
                           \/ x.state = "DELETE" /\ x.pos = i.pos
  BY <1>1, DeletedIs
<1>4. Blk(i.pos) = Blk(write_pos) /\ Blk(i.pos) \in Blocks
  BY DEF UpInv
<1>5. info[Blk(i.pos)].state = hdr[Blk(i.pos)]
  <2>1. info[Blk(i.pos)] = [state |-> hdr[Blk(i.pos)], space |-> SpaceOf(items, Blk(i.pos))]
    BY <1>4 DEF UpInv
  <2> QED BY <2>1
<1>6. job'.by = t /\ job'.step \in {"mark", "return", "prefix"}
  OBVIOUS
<1>7. UpInv'
  <2>1. \A b \in Blocks : info'[b] = [state |-> hdr'[b], space |-> SpaceOf(items', b)]
    BY <1>3 DEF UpInv
  <2>2. write_pos' = FreePos(items', Blk(write_pos'))
    BY <1>3 DEF UpInv
  <2>3. ASSUME NEW x \in items'
        PROVE  /\ Blk(x.pos) = Blk(write_pos) /\ x.state # "TORN"
               /\ hdr[Blk(write_pos)] = "USED" /\ job'.step # "mark" => x.state = "NORMAL"
    <3>1. CASE x \in items
      BY <3>1, <1>4, <1>5 DEF UpInv
    <3>2. CASE x.state = "DELETE" /\ x.pos = i.pos
      BY <3>2, <1>4, <1>5
    <3> QED BY <3>1, <3>2, <1>3
  <2>4. job'.step = "mark" => job'.mark = Blk(write_pos) /\ hdr[job'.mark] = "USED"
    BY <1>4, <1>5
  <2>5. \A x, y \in items' : ~ Twins(x, y)
    <3> SUFFICES ASSUME NEW x \in items', NEW y \in items', Twins(x, y) PROVE FALSE
      OBVIOUS
    <3>1. x \in items /\ y \in items /\ x # i
      BY <1>3 DEF Twins
    <3> QED BY <3>1
  <2>6. /\ hdr'[Blk(write_pos')] \in {"USED", "DIRTY"} /\ clean_blk_nums' = 1
        /\ Blk(write_pos') \in Blocks
        /\ \A b \in Blocks : b # Blk(write_pos') => hdr'[b] = "CLEAN"
    BY DEF UpInv
  <2>7. job'.step # "delete"
    BY <1>6
  <2> QED BY <2>1, <2>2, <2>3, <2>4, <2>5, <2>6, <2>7 DEF UpInv
<1>8. TypeOK'
  <2>1. items' \subseteq ItemType
    BY <1>2 DEF FlashInv, ItemsLaid
  <2> QED BY <2>1, <1>1, <1>6 DEF TypeOK, gcVars
<1>9. ControlInv'
  <2>1. \A x \in Task : job'.by = x => x = t
    BY <1>6
  <2>2. t # None /\ t # "boot"
    BY Owners
  <2>3. job' \in [by : Task \cup {None, "gc", "boot"}, step : Steps, pos : Nat, blk : Blocks,
                  mark : Blocks, unclean : SUBSET Blocks]
    OBVIOUS
  <2>4. \A x \in Task : pc'[x] = "idle" <=> call'[x] = NoCall
    BY <1>1 DEF ControlInv
  <2>5. \/ job'.step = "return" /\ call'[t].op \in {"set", "del"}
        \/ job'.step = "prefix" /\ call'[t].op = "prefix"
        \/ job'.step = "mark" /\ call'[t].op \in {"set", "del", "prefix"}
    OBVIOUS
  <2> QED BY <2>1, <2>2, <2>3, <2>4, <2>5, <1>6 DEF ControlInv
<1>10. job'.by # "gc" /\ job'.by # "boot"
  BY <1>6, Owners
<1> QED BY <1>2, <1>7, <1>8, <1>9, <1>10 DEF KvInv

(* The record of the owner after a deletion. *)
LEMMA JobAfterDelete ==
  ASSUME NEW j \in [by : Task, step : Steps, pos : Nat, blk : Blocks, mark : Blocks,
                    unclean : SUBSET Blocks],
         NEW used \in BOOLEAN, NEW b \in Blocks, NEW next \in {"return", "prefix"},
         job' = IF used THEN [j EXCEPT !.step = "mark", !.mark = b] ELSE [j EXCEPT !.step = next]
  PROVE  /\ job' \in [by : {j.by}, step : Steps, pos : Nat, blk : Blocks, mark : Blocks,
                      unclean : SUBSET Blocks]
         /\ IF used THEN job'.step = "mark" /\ job'.mark = b ELSE job'.step = next
<1>1. CASE used
  BY <1>1 DEF Steps
<1>2. CASE ~ used
  BY <1>2 DEF Steps
<1> QED BY <1>1, <1>2

(* aos_kv_set deletes the older item of its key. *)
LEMMA SetDeleteIs ==
  ASSUME KvInv, NEW t \in Task, SetDelete(t)
  PROVE  \E i, j \in items :
           /\ Twins(i, j) /\ i.key \in call[t].keys /\ j.val = call[t].val
           /\ \A x, y \in items : Twins(x, y) => x = i
           /\ items' = Deleted(items, i)
           /\ job' = IF info[Blk(i.pos)].state = "USED"
                     THEN [job EXCEPT !.step = "mark", !.mark = Blk(i.pos)]
                     ELSE [job EXCEPT !.step = "return"]
<1>1. TypeOK /\ FlashInv /\ ControlInv /\ UpInv /\ job.by = t /\ job.step = "delete"
  BY OwnerIs DEF SetDelete
<1>2. PICK i \in items, j \in items :
        Twins(i, j) /\ i.pos = job.pos /\ i.key \in call[t].keys /\ j.val = call[t].val
  BY <1>1 DEF UpInv
<1>3. ItemsLaid(items)
  BY <1>1 DEF FlashInv
<1>4. \A x, y \in items : Twins(x, y) => x = i
  BY <1>1, <1>2, <1>3 DEF UpInv, ItemsLaid
<1>5. DeleteItem(job.pos, info, job, "return")
  BY DEF SetDelete
<1>6. /\ items' = Deleted(items, i)
      /\ job' = IF info[Blk(i.pos)].state = "USED"
                THEN [job EXCEPT !.step = "mark", !.mark = Blk(i.pos)]
                ELSE [job EXCEPT !.step = "return"]
  <2>1. (CHOOSE x \in items : x.pos = job.pos) = i
    BY <1>2, <1>3, AtPos
  <2> QED BY <1>2, <1>5, <2>1 DEF DeleteItem, Deleted
<1> QED BY <1>2, <1>4, <1>6

(* SetDelete keeps the invariant. *)
LEMMA SetDeleteStep ==
  ASSUME KvInv, NEW t \in Task, SetDelete(t)
  PROVE  KvInv'
<1>1. /\ TypeOK /\ FlashInv /\ ControlInv /\ UpInv /\ job.by = t /\ job.step = "delete"
      /\ pc[t] = "lock"
  BY OwnerIs DEF SetDelete
<1>2. PICK i \in items, j \in items :
        /\ Twins(i, j)
        /\ \A x, y \in items : Twins(x, y) => x = i
        /\ items' = Deleted(items, i)
        /\ job' = IF info[Blk(i.pos)].state = "USED"
                  THEN [job EXCEPT !.step = "mark", !.mark = Blk(i.pos)]
                  ELSE [job EXCEPT !.step = "return"]
  BY SetDeleteIs
<1>3. Blk(i.pos) \in Blocks /\ i.state = "NORMAL"
  BY <1>1, <1>2 DEF UpInv, Twins
<1>4. job \in [by : Task, step : Steps, pos : Nat, blk : Blocks, mark : Blocks, unclean : SUBSET Blocks]
  BY <1>1 DEF ControlInv
<1>5. /\ job' \in [by : {t}, step : Steps, pos : Nat, blk : Blocks, mark : Blocks,
                   unclean : SUBSET Blocks]
      /\ IF info[Blk(i.pos)].state = "USED" THEN job'.step = "mark" /\ job'.mark = Blk(i.pos)
                                            ELSE job'.step = "return"
  <2> DEFINE used == info[Blk(i.pos)].state = "USED"
  <2>1. used \in BOOLEAN
    OBVIOUS
  <2>2. job' = IF used THEN [job EXCEPT !.step = "mark", !.mark = Blk(i.pos)]
                       ELSE [job EXCEPT !.step = "return"]
    BY <1>2
  <2> HIDE DEF used
  <2>3. /\ job' \in [by : {job.by}, step : Steps, pos : Nat, blk : Blocks, mark : Blocks,
                     unclean : SUBSET Blocks]
        /\ IF used THEN job'.step = "mark" /\ job'.mark = Blk(i.pos) ELSE job'.step = "return"
    BY <2>1, <2>2, <1>3, <1>4, JobAfterDelete
  <2> QED BY <2>3, <1>1 DEF used
<1>6. call[t].op = "set"
  BY <1>1 DEF ControlInv
<1>7. UNCHANGED <<hdr, info, clean_blk_nums, write_pos, gcVars, pc, call>>
  BY DEF SetDelete
<1> QED BY <1>1, <1>2, <1>3, <1>5, <1>6, <1>7, DeleteKeeps

(* aos_kv_del deletes the item of its key. *)
LEMMA DelIs ==
  ASSUME KvInv, NEW t \in Task, Del(t)
  PROVE  \/ /\ {i \in items : i.state = "NORMAL" /\ i.key = KeyOf(t)} = {}
            /\ Finish(t, "RES_ITEM_NOT_FOUND")
            /\ UNCHANGED <<flash, info, clean_blk_nums, write_pos, gcVars, counters>>
         \/ /\ UNCHANGED <<hdr, info, clean_blk_nums, write_pos, gcVars, pc, call, ans, counters>>
            /\ req' = [req EXCEPT ![t] = Unmade(@)]
            /\ \E i \in items :
                 /\ i.state = "NORMAL" /\ i.key = KeyOf(t)
                 /\ items' = Deleted(items, i)
                 /\ job' = IF info[Blk(i.pos)].state = "USED"
                           THEN [Job(t, "delete", 0, 0) EXCEPT !.step = "mark", !.mark = Blk(i.pos)]
                           ELSE [Job(t, "delete", 0, 0) EXCEPT !.step = "return"]
<1> DEFINE f == Candidates(KeyOf(t))
<1>1. TypeOK /\ FlashInv /\ ControlInv /\ UpInv /\ job.step = "free"
  BY LockIs DEF Del
<1>2. InfoAfterGet(KeyOf(t)) = info
  BY <1>1, InfoSame
<1>3. info' = info /\ UNCHANGED <<hdr, clean_blk_nums, write_pos, gcVars, counters>>
  BY <1>2 DEF Del
<1>4. /\ f = {i \in items : i.state = "NORMAL" /\ i.key = KeyOf(t)}
      /\ f # {} => First(f) \in f
  BY <1>1, CandidatesIs
<1>5. \/ f = {} /\ Finish(t, "RES_ITEM_NOT_FOUND") /\ items' = items
      \/ /\ f # {} /\ DeleteItem(First(f).pos, info', Job(t, "delete", 0, 0), "return")
         /\ req' = [req EXCEPT ![t] = Unmade(@)]
         /\ UNCHANGED <<pc, call, ans>>
  BY DEF Del
<1> HIDE DEF f
<1>6. CASE f = {} /\ Finish(t, "RES_ITEM_NOT_FOUND") /\ items' = items
  BY <1>3, <1>4, <1>6 DEF flash
<1>7. CASE /\ f # {} /\ DeleteItem(First(f).pos, info', Job(t, "delete", 0, 0), "return")
           /\ req' = [req EXCEPT ![t] = Unmade(@)]
           /\ UNCHANGED <<pc, call, ans>>
  <2>1. PICK i \in items : i = First(f) /\ i.state = "NORMAL" /\ i.key = KeyOf(t)
    BY <1>4, <1>7
  <2>2. DeleteItem(i.pos, info, Job(t, "delete", 0, 0), "return")
    BY <1>3, <1>7, <2>1
  <2>3. /\ items' = Deleted(items, i)
        /\ job' = IF info[Blk(i.pos)].state = "USED"
                  THEN [Job(t, "delete", 0, 0) EXCEPT !.step = "mark", !.mark = Blk(i.pos)]
                  ELSE [Job(t, "delete", 0, 0) EXCEPT !.step = "return"]
    <3>1. (CHOOSE x \in items : x.pos = i.pos) = i
      BY <1>1, AtPos DEF FlashInv
    <3> QED BY <2>2, <3>1 DEF DeleteItem, Deleted
  <2> QED BY <1>3, <1>7, <2>1, <2>3
<1> QED BY <1>5, <1>6, <1>7

(* Del keeps the invariant. *)
LEMMA DelStep ==
  ASSUME KvInv, NEW t \in Task, Del(t)
  PROVE  KvInv'
<1>1. /\ TypeOK /\ FlashInv /\ ControlInv /\ UpInv /\ job.by = None /\ job.step = "free"
      /\ pc[t] = "lock" /\ call[t].op = "del"
  BY LockIs DEF Del
<1>2. CASE /\ Finish(t, "RES_ITEM_NOT_FOUND")
           /\ UNCHANGED <<flash, info, clean_blk_nums, write_pos, gcVars, counters>>
  <2>1. gc_trigger' \in BOOLEAN /\ gc_waiter' \in BOOLEAN /\ UNCHANGED <<gc_sem, ending>>
    BY <1>1, <1>2 DEF gcVars, TypeOK
  <2> QED BY <1>1, <1>2, <2>1, FinishKeeps
<1>3. ASSUME UNCHANGED <<hdr, info, clean_blk_nums, write_pos, gcVars, pc, call, ans, counters>>,
             NEW i \in items, i.state = "NORMAL", items' = Deleted(items, i),
             job' = IF info[Blk(i.pos)].state = "USED"
                    THEN [Job(t, "delete", 0, 0) EXCEPT !.step = "mark", !.mark = Blk(i.pos)]
                    ELSE [Job(t, "delete", 0, 0) EXCEPT !.step = "return"]
      PROVE  KvInv'
  <2> DEFINE used == info[Blk(i.pos)].state = "USED"
             j == Job(t, "delete", 0, 0)
  <2>1. used \in BOOLEAN /\ Blk(i.pos) \in Blocks
    BY <1>1 DEF UpInv
  <2>2. j \in [by : Task, step : Steps, pos : Nat, blk : Blocks, mark : Blocks, unclean : SUBSET Blocks]
    BY Sizes DEF Job, Steps
  <2>3. j.by = t
    BY DEF Job
  <2>4. job' = IF used THEN [j EXCEPT !.step = "mark", !.mark = Blk(i.pos)]
                       ELSE [j EXCEPT !.step = "return"]
    BY <1>3
  <2> HIDE DEF used, j
  <2>5. /\ job' \in [by : {t}, step : Steps, pos : Nat, blk : Blocks, mark : Blocks,
                     unclean : SUBSET Blocks]
        /\ IF used THEN job'.step = "mark" /\ job'.mark = Blk(i.pos) ELSE job'.step = "return"
    BY <2>1, <2>2, <2>3, <2>4, JobAfterDelete
  <2>6. IF info[Blk(i.pos)].state = "USED" THEN job'.step = "mark" /\ job'.mark = Blk(i.pos)
                                           ELSE job'.step = "return"
    BY <2>5 DEF used
  <2>7. \A x, y \in items : Twins(x, y) => x = i
    BY <1>1 DEF UpInv
  <2> QED BY <1>1, <1>3, <2>5, <2>6, <2>7, DeleteKeeps
<1> QED BY <1>2, <1>3, DelIs

(* aos_kv_del_by_prefix deletes the first item with the prefix, or ends. *)
LEMMA PrefixIs ==
  ASSUME KvInv, NEW t \in Task, DelByPrefix(t)
  PROVE  /\ TypeOK /\ FlashInv /\ ControlInv /\ UpInv
         /\ job.by \in {t, None} /\ job.step \in {"free", "prefix"}
         /\ pc[t] = "lock" /\ call[t].op = "prefix" /\ call[t] \in Requests
         /\ \/ /\ WithPrefix(call[t].keys) = {}
               /\ Finish(t, "RES_OK")
               /\ UNCHANGED <<flash, info, clean_blk_nums, write_pos, gcVars, counters>>
            \/ /\ UNCHANGED <<hdr, info, clean_blk_nums, write_pos, gcVars, pc, call, ans, counters>>
               /\ req' = [req EXCEPT ![t] = Unmade(@)]
               /\ \E i \in items :
                    /\ i.state = "NORMAL" /\ i.key \in call[t].keys
                    /\ items' = Deleted(items, i)
                    /\ job' = IF info[Blk(i.pos)].state = "USED"
                              THEN [Job(t, "prefix", 0, 0) EXCEPT !.step = "mark", !.mark = Blk(i.pos)]
                              ELSE [Job(t, "prefix", 0, 0) EXCEPT !.step = "prefix"]
<1> DEFINE f == WithPrefix(call[t].keys)
<1>1. /\ TypeOK /\ FlashInv /\ ControlInv /\ UpInv
      /\ job.by \in {t, None} /\ job.step \in {"free", "prefix"}
      /\ pc[t] = "lock" /\ call[t].op = "prefix" /\ call[t] \in Requests
  <2>1. CASE Locks(t, "prefix")
    BY <2>1, LockIs
  <2>2. CASE job.by = t /\ job.step = "prefix"
    <3>1. TypeOK /\ FlashInv /\ ControlInv /\ UpInv /\ pc[t] = "lock" /\ call[t] \in Requests
      BY <2>2, OwnerIs
    <3>2. call[t].op = "prefix"
      BY <2>2, <3>1 DEF ControlInv
    <3> QED BY <2>2, <3>1, <3>2
  <2> QED BY <2>1, <2>2 DEF DelByPrefix
<1>2. [b \in Blocks |-> [info[b] EXCEPT !.space = SpaceOf(items, b)]] = info
  BY <1>1, InfoSame
<1>3. f \subseteq ItemType /\ \A i \in f : i \in items /\ i.state = "NORMAL" /\ i.key \in call[t].keys
  BY <1>1 DEF WithPrefix, Normal, FlashInv, ItemsLaid
<1>4. UNCHANGED <<hdr, clean_blk_nums, write_pos, gcVars, counters>>
  BY DEF DelByPrefix
<1>5. \/ /\ f = {} /\ Finish(t, "RES_OK") /\ items' = items
         /\ info' = [b \in Blocks |-> [info[b] EXCEPT !.space = SpaceOf(items, b)]]
      \/ /\ f # {} /\ DeleteItem(First(f).pos, info, Job(t, "prefix", 0, 0), "prefix")
         /\ req' = [req EXCEPT ![t] = Unmade(@)]
         /\ UNCHANGED <<info, pc, call, ans>>
  BY DEF DelByPrefix
<1> HIDE DEF f
<1>6. CASE /\ f = {} /\ Finish(t, "RES_OK") /\ items' = items
           /\ info' = [b \in Blocks |-> [info[b] EXCEPT !.space = SpaceOf(items, b)]]
  <2>1. info' = info
    BY <1>2, <1>6
  <2> QED BY <1>1, <1>4, <1>6, <2>1 DEF flash, f
<1>7. CASE /\ f # {} /\ DeleteItem(First(f).pos, info, Job(t, "prefix", 0, 0), "prefix")
           /\ req' = [req EXCEPT ![t] = Unmade(@)]
           /\ UNCHANGED <<info, pc, call, ans>>
  <2>1. First(f) \in f
    BY <1>3, <1>7, FirstIs
  <2>2. PICK i \in items : i = First(f) /\ i.state = "NORMAL" /\ i.key \in call[t].keys
    BY <1>3, <2>1
  <2>3. /\ items' = Deleted(items, i)
        /\ job' = IF info[Blk(i.pos)].state = "USED"
                  THEN [Job(t, "prefix", 0, 0) EXCEPT !.step = "mark", !.mark = Blk(i.pos)]
                  ELSE [Job(t, "prefix", 0, 0) EXCEPT !.step = "prefix"]
    <3>1. (CHOOSE x \in items : x.pos = i.pos) = i
      BY <1>1, AtPos DEF FlashInv
    <3>2. DeleteItem(i.pos, info, Job(t, "prefix", 0, 0), "prefix")
      BY <1>7, <2>2
    <3> QED BY <3>1, <3>2 DEF DeleteItem, Deleted
  <2> QED BY <1>1, <1>4, <1>7, <2>2, <2>3
<1> QED BY <1>5, <1>6, <1>7

(* DelByPrefix keeps the invariant. *)
LEMMA PrefixStep ==
  ASSUME KvInv, NEW t \in Task, DelByPrefix(t)
  PROVE  KvInv'
<1>1. /\ TypeOK /\ FlashInv /\ ControlInv /\ UpInv
      /\ job.by \in {t, None} /\ job.step \in {"free", "prefix"}
      /\ pc[t] = "lock" /\ call[t].op = "prefix"
  BY PrefixIs
<1>2. CASE /\ Finish(t, "RES_OK")
           /\ UNCHANGED <<flash, info, clean_blk_nums, write_pos, gcVars, counters>>
  <2>1. gc_trigger' \in BOOLEAN /\ gc_waiter' \in BOOLEAN /\ UNCHANGED <<gc_sem, ending>>
    BY <1>1, <1>2 DEF gcVars, TypeOK
  <2> QED BY <1>1, <1>2, <2>1, FinishKeeps
<1>3. ASSUME UNCHANGED <<hdr, info, clean_blk_nums, write_pos, gcVars, pc, call, ans, counters>>,
             NEW i \in items, i.state = "NORMAL", items' = Deleted(items, i),
             job' = IF info[Blk(i.pos)].state = "USED"
                    THEN [Job(t, "prefix", 0, 0) EXCEPT !.step = "mark", !.mark = Blk(i.pos)]
                    ELSE [Job(t, "prefix", 0, 0) EXCEPT !.step = "prefix"]
      PROVE  KvInv'
  <2> DEFINE used == info[Blk(i.pos)].state = "USED"
             j == Job(t, "prefix", 0, 0)
  <2>1. used \in BOOLEAN /\ Blk(i.pos) \in Blocks
    BY <1>1 DEF UpInv
  <2>2. j \in [by : Task, step : Steps, pos : Nat, blk : Blocks, mark : Blocks, unclean : SUBSET Blocks]
    BY Sizes DEF Job, Steps
  <2>3. j.by = t
    BY DEF Job
  <2>4. job' = IF used THEN [j EXCEPT !.step = "mark", !.mark = Blk(i.pos)]
                       ELSE [j EXCEPT !.step = "prefix"]
    BY <1>3
  <2> HIDE DEF used, j
  <2>5. /\ job' \in [by : {t}, step : Steps, pos : Nat, blk : Blocks, mark : Blocks,
                     unclean : SUBSET Blocks]
        /\ IF used THEN job'.step = "mark" /\ job'.mark = Blk(i.pos) ELSE job'.step = "prefix"
    BY <2>1, <2>2, <2>3, <2>4, JobAfterDelete
  <2>6. IF info[Blk(i.pos)].state = "USED" THEN job'.step = "mark" /\ job'.mark = Blk(i.pos)
                                           ELSE job'.step = "prefix"
    BY <2>5 DEF used
  <2>7. \A x, y \in items : Twins(x, y) => x = i
    BY <1>1 DEF UpInv
  <2> QED BY <1>1, <1>3, <2>5, <2>6, <2>7, DeleteKeeps
<1> QED BY <1>2, <1>3, PrefixIs

(* The end of kv_item_del marks the block. *)
LEMMA MarkStep ==
  ASSUME KvInv, MarkDirty
  PROVE  KvInv'
<1> DEFINE m == job.mark
<1>1. TypeOK /\ FlashInv /\ ControlInv /\ job.step = "mark" /\ m \in Blocks
  BY DEF KvInv, MarkDirty, ControlInv
<1>2. /\ hdr' = [hdr EXCEPT ![m] = "DIRTY"]
      /\ info' = [info EXCEPT ![m].state = "DIRTY"]
      /\ job' = [job EXCEPT !.step = AfterMark]
      /\ UNCHANGED <<items, clean_blk_nums, write_pos, gcVars, pc, call, ans, req, counters>>
  BY DEF MarkDirty
<1>3. job.by \in Task \/ job.by = "boot"
  <2>1. job.by # None
    BY <1>1, Owners DEF ControlInv
  <2>2. job.by # "gc"
    BY <1>1 DEF KvInv, GcInv
  <2> QED BY <2>1, <2>2, <1>1 DEF TypeOK
<1>4. hdr[m] = "USED"
  <2>1. CASE job.by \in Task
    BY <1>1, <2>1 DEF KvInv, UpInv
  <2>2. CASE job.by = "boot"
    BY <1>1, <2>2 DEF KvInv, BootInv
  <2> QED BY <1>3, <2>1, <2>2
<1>5. FlashInv'
  BY <1>1, <1>2, <1>4, FlashMark
<1>6. TypeOK'
  <2>1. hdr' \in [Blocks -> {"BAD", "CLEAN", "USED", "DIRTY"}]
    BY <1>1, <1>2 DEF TypeOK
  <2>2. info' \in [Blocks -> [state : {"NONE", "CLEAN", "USED", "DIRTY"}, space : 0 .. BLK_SIZE]]
    BY <1>1, <1>2 DEF TypeOK
  <2>3. job'.by = job.by
    BY <1>1, <1>2 DEF ControlInv
  <2> QED BY <1>1, <1>2, <2>1, <2>2, <2>3 DEF TypeOK, gcVars
<1>7. AfterMark \in {"scan", "return", "prefix"}
  BY DEF AfterMark
<1>8. /\ job' \in [by : Task \cup {None, "gc", "boot"}, step : Steps, pos : Nat, blk : Blocks,
                   mark : Blocks, unclean : SUBSET Blocks]
      /\ job'.by = job.by /\ job'.step = AfterMark /\ job'.blk = job.blk /\ job'.unclean = job.unclean
  BY <1>1, <1>2, <1>7 DEF ControlInv, Steps
<1>9. /\ hdr'[m] = "DIRTY" /\ \A b \in Blocks : b # m => hdr'[b] = hdr[b] /\ info'[b] = info[b]
      /\ info'[m] = [info[m] EXCEPT !.state = "DIRTY"]
  BY <1>1, <1>2 DEF TypeOK
<1>10. CASE job.by \in Task
  <2>1. UpInv /\ job.by # "boot" /\ job.by # None /\ job.by # "gc"
    BY <1>10, Owners DEF KvInv
  <2>2. AfterMark = IF call[job.by].op = "prefix" THEN "prefix" ELSE "return"
    BY <1>10, <2>1 DEF AfterMark
  <2>3. ControlInv'
    <3>1. ASSUME NEW t \in Task, job.by = t
          PROVE  /\ pc[t] = "lock"
                 /\ \/ AfterMark = "return" /\ call[t].op \in {"set", "del"}
                    \/ AfterMark = "prefix" /\ call[t].op = "prefix"
      BY <1>1, <2>2, <3>1 DEF ControlInv
    <3>2. \A t \in Task : pc[t] = "idle" <=> call[t] = NoCall
      BY <1>1 DEF ControlInv
    <3> QED BY <1>2, <1>8, <2>1, <3>1, <3>2 DEF ControlInv
  <2>4. UpInv'
    <3>1. m = Blk(write_pos)
      BY <1>1, <2>1 DEF UpInv
    <3>2. info[m] = [state |-> hdr[m], space |-> SpaceOf(items, m)]
      BY <1>1, <2>1 DEF UpInv
    <3>3. info'[m] = [state |-> hdr'[m], space |-> SpaceOf(items', m)]
      BY <1>2, <1>9, <3>2
    <3>4. ASSUME NEW b \in Blocks, b # m
          PROVE  hdr'[b] = "CLEAN" /\ info'[b] = [state |-> hdr'[b], space |-> SpaceOf(items', b)]
      BY <1>2, <1>9, <2>1, <3>1, <3>4 DEF UpInv
    <3>5. /\ clean_blk_nums' = 1 /\ Blk(write_pos') = m /\ write_pos' = FreePos(items', m)
          /\ \A i \in items' : Blk(i.pos) = m /\ i.state # "TORN"
          /\ \A i, j \in items' : ~ Twins(i, j)
      BY <1>1, <1>2, <2>1, <3>1 DEF UpInv
    <3>6. job'.step # "mark" /\ job'.step # "delete"
      BY <1>7, <1>8
    <3> QED BY <1>1, <1>9, <3>3, <3>4, <3>5, <3>6 DEF UpInv
  <2> QED BY <1>5, <1>6, <1>8, <2>1, <2>3, <2>4 DEF KvInv
<1>11. CASE job.by = "boot"
  <2>1. BootInv /\ job.by \notin Task /\ job.by # None /\ job.by # "gc"
    BY <1>11, Owners DEF KvInv
  <2>2. AfterMark = "scan"
    BY <1>11, <2>1 DEF AfterMark
  <2>3. ControlInv'
    BY <1>1, <1>2, <1>8, <1>11, <2>1 DEF ControlInv
  <2>4. BootInv'
    <3>1. m = job.blk
      BY <1>1, <2>1 DEF BootInv
    <3>2. Done = {b \in Blocks : b < job.blk} /\ Done' = {b \in Blocks : b < job.blk}
      BY <1>1, <1>8, <2>2 DEF Done
    <3>3. \A b \in Done : b # m /\ b \in Blocks
      BY <3>1, <3>2, Sizes
    <3>4. ASSUME NEW b \in Done PROVE Scanned(b)'
      <4>1. Scanned(b) /\ hdr'[b] = hdr[b] /\ info'[b] = info[b] /\ items' = items
        BY <1>2, <1>9, <2>1, <3>3 DEF BootInv
      <4> QED BY <4>1 DEF Scanned, Original
    <3>5. ASSUME NEW b \in Blocks, b \notin Done PROVE info'[b].state \in {"NONE", hdr'[b]}
      <4>1. CASE b = m
        BY <1>1, <1>9, <4>1 DEF TypeOK
      <4>2. CASE b # m
        BY <1>1, <1>9, <2>1, <3>5, <4>2 DEF BootInv
      <4> QED BY <4>1, <4>2
    <3>6. /\ {b \in Done' : hdr'[b] = "CLEAN" /\ InBlock(items', b) = {}}
               = {b \in Done : hdr[b] = "CLEAN" /\ InBlock(items, b) = {}}
          /\ {b \in Done' : hdr'[b] = "CLEAN" /\ InBlock(items', b) # {}}
               = {b \in Done : hdr[b] = "CLEAN" /\ InBlock(items, b) # {}}
      BY <1>2, <1>9, <3>2, <3>3
    <3> QED BY <1>2, <1>8, <2>1, <2>2, <3>2, <3>4, <3>5, <3>6 DEF BootInv
  <2> QED BY <1>5, <1>6, <1>8, <1>11, <2>1, <2>3, <2>4 DEF KvInv
<1> QED BY <1>3, <1>10, <1>11

-----------------------------------------------------------------------------
(* Power failures. *)

(* The first step of kv_init after a failure. *)
LEMMA LostKeeps ==
  ASSUME KvInv, RamLost, FlashInv', hdr' = hdr
  PROVE  KvInv'
<1>1. TypeOK
  BY DEF KvInv
<1>2. /\ job' = Job("boot", "scan", 0, 0) /\ info' = [b \in Blocks |-> [state |-> "NONE", space |-> 0]]
      /\ clean_blk_nums' = 0 /\ write_pos' = 0
      /\ gc_trigger' = FALSE /\ gc_waiter' = FALSE /\ gc_sem' = 0 /\ ending' = 0
      /\ pc' = [t \in Task |-> "idle"] /\ call' = [t \in Task |-> NoCall]
  BY DEF RamLost
<1>3. /\ job' \in [by : {"boot"}, step : {"scan"}, pos : Nat, blk : {0}, mark : Blocks, unclean : {{}}]
  BY <1>2, Sizes DEF Job
<1>4. TypeOK'
  <2>1. items' \subseteq ItemType
    BY DEF FlashInv, ItemsLaid
  <2>2. 0 \in 0 .. BLK_SIZE /\ 0 \in 0 .. BLK_NUMS /\ 0 \in 0 .. BLK_NUMS * BLK_SIZE - 1
    <3>1. BLK_NUMS * BLK_SIZE = BLK_SIZE + BLK_SIZE
      BY Sizes
    <3> QED BY <3>1, Sizes
  <2>3. info' \in [Blocks -> [state : {"NONE", "CLEAN", "USED", "DIRTY"}, space : 0 .. BLK_SIZE]]
    BY <1>2, <2>2
  <2>4. job'.by \in Task \cup {None, "gc", "boot"}
    BY <1>3
  <2>5. /\ gc_trigger' \in BOOLEAN /\ gc_waiter' \in BOOLEAN /\ gc_sem' \in Nat /\ ending' \in Nat
        /\ pc' \in [Task -> {"idle", "count", "take", "blocked", "lock"}]
        /\ call' \in [Task -> Requests \cup {NoCall}]
    BY <1>2
  <2> QED BY <1>1, <1>2, <2>1, <2>2, <2>3, <2>4, <2>5 DEF TypeOK
<1>5. ControlInv'
  BY <1>2, <1>3, Owners, Sizes DEF ControlInv, Steps
<1>6. BootInv'
  <2>1. Done' = {}
    BY <1>3, Sizes DEF Done
  <2>2. \A b \in Blocks : info'[b].state = "NONE"
    BY <1>2
  <2> QED BY <1>2, <1>3, <2>1, <2>2, FS_EmptySet DEF BootInv
<1>7. job'.by = "boot"
  BY <1>3
<1> QED BY <1>4, <1>5, <1>6, <1>7, Owners DEF KvInv

(* A part of an item at the end of a block. *)
LEMMA TornKeeps ==
  ASSUME KvInv, NEW len \in Nat, ITEM_HDR_SIZE < len, TornWrite(len), NEW b \in Blocks,
         write_pos = FreePos(items, b), write_pos + len < Start(b) + BLK_SIZE,
         hdr[b] # "BAD",
         \A c \in Blocks : hdr[b] = "CLEAN" /\ c # b => hdr[c] = "DIRTY",
         \A j \in items : Blk(j.pos) # b => hdr[Blk(j.pos)] # "CLEAN"
  PROVE  KvInv'
<1>1. FlashInv /\ ItemsLaid(items)
  BY DEF KvInv, FlashInv
<1>2. write_pos \in Nat /\ Start(b) \in Nat
  BY <1>1, FreePosIs, StartIs
<1>3. PICK i : /\ i = Rest("HOLE", write_pos, ITEM_HDR_SIZE) \/ i = Rest("TORN", write_pos, len)
               /\ items' = items \cup {i}
  BY DEF TornWrite, WriteItem
<1>4. i \in ItemType /\ i.pos = write_pos /\ i.len \in {ITEM_HDR_SIZE, len} /\ i.state # "NORMAL"
  BY <1>2, <1>3, Sizes DEF Rest, ItemType, Garbage
<1>5. i.len > 0 /\ i.pos + i.len < Start(b) + BLK_SIZE
  BY <1>2, <1>4, Sizes
<1>6. RamLost /\ hdr' = hdr
  BY DEF TornWrite
<1>7. FlashInv'
  <2>1. \A j \in items : ~ Twins(j, i)
    BY <1>4 DEF Twins
  <2> QED BY <1>1, <1>3, <1>4, <1>5, <1>6, <2>1, FlashAppend
<1> QED BY <1>6, <1>7, LostKeeps

(* Power fails between two writes, or the store is taken down and up. *)
LEMMA FailStep ==
  ASSUME KvInv, PowerFail \/ Deinit
  PROVE  KvInv'
<1>1. RamLost /\ UNCHANGED flash
  BY DEF PowerFail, Deinit
<1>2. FlashInv' /\ hdr' = hdr
  BY <1>1, FlashFrame DEF KvInv, flash
<1> QED BY <1>1, <1>2, LostKeeps

(* Power fails inside the write of aos_kv_set. *)
LEMMA SetTornStep ==
  ASSUME KvInv, NEW t \in Task, SetTorn(t)
  PROVE  KvInv'
<1> DEFINE u == Blk(write_pos)
<1>1. /\ TypeOK /\ FlashInv /\ ControlInv /\ UpInv
      /\ pc[t] = "lock" /\ call[t].op = "set" /\ call[t] \in Requests
  BY LockIs DEF SetTorn
<1>2. call[t].val \in Values
  BY <1>1, RequestIs
<1>3. SetLen(t) \in Nat /\ ITEM_HDR_SIZE < SetLen(t)
  BY <1>2, Sizes DEF SetLen
<1>4. SetLen(t) > 0
  BY <1>3, Sizes
<1>5. info[u].space > SetLen(t)
  BY <1>1, InfoSame DEF SetTorn, SpaceFor
<1>6. u \in Blocks /\ write_pos = FreePos(items, u) /\ write_pos + SetLen(t) < Start(u) + BLK_SIZE
  BY <1>1, <1>3, <1>4, <1>5, RoomIs
<1>7. /\ hdr[u] \in {"USED", "DIRTY"} /\ \A j \in items : Blk(j.pos) = u
  BY <1>1 DEF UpInv
<1>8. TornWrite(SetLen(t))
  BY DEF SetTorn
<1> HIDE DEF u
<1> QED BY <1>3, <1>6, <1>7, <1>8, TornKeeps

-----------------------------------------------------------------------------
(* The collector. *)

(* GcExit clears the flag and counts the collector that ends. *)
LEMMA GcExitIs ==
  ASSUME TypeOK, GcExit
  PROVE  gc_trigger' \in BOOLEAN /\ gc_waiter' \in BOOLEAN /\ gc_sem' \in Nat /\ ending' \in Nat
<1>1. gc_trigger' \in BOOLEAN
  BY DEF GcExit
<1>2. gc_waiter' \in BOOLEAN
  BY DEF GcExit, TypeOK
<1>3. ending \in Nat /\ ending' = ending + 1
  BY DEF GcExit, TypeOK
<1>4. gc_sem' \in Nat
  BY DEF GcExit, TypeOK
<1>5. ending' \in Nat
  BY <1>3
<1> QED BY <1>1, <1>2, <1>4, <1>5

(* It starts in the block in use, or ends at once. *)
LEMMA GcStartStep ==
  ASSUME KvInv, GcStart
  PROVE  KvInv'
<1> DEFINE u == Blk(write_pos)
<1>1. job = Free /\ job.by = None /\ job.step = "free"
  BY Owners DEF GcStart
<1>2. TypeOK /\ FlashInv /\ ControlInv /\ UpInv /\ ItemsLaid(items)
  BY <1>1 DEF KvInv, FlashInv
<1>3. UNCHANGED <<flash, info, clean_blk_nums, pc, call, ans, req, counters>>
  BY DEF GcStart
<1>4. FlashInv'
  BY <1>2, <1>3, FlashFrame
<1>5. items' = items /\ hdr' = hdr
  BY <1>3 DEF flash
<1>6. CASE GcExit /\ UNCHANGED write_pos
  <2>1. /\ job' = job /\ gc_trigger' = FALSE /\ ending' = ending + 1
        /\ UNCHANGED <<gc_waiter, gc_sem>>
    BY <1>1, <1>6 DEF GcExit
  <2>2. UpInv'
    BY <1>1, <1>2, <1>3, <1>6, <2>1, UpFrame
  <2>3. TypeOK'
    <3>1. gc_trigger' \in BOOLEAN /\ gc_waiter' \in BOOLEAN /\ gc_sem' \in Nat /\ ending' \in Nat
      BY <1>2, <1>6, GcExitIs
    <3> QED BY <1>2, <1>3, <1>5, <1>6, <2>1, <3>1 DEF TypeOK
  <2>4. ControlInv'
    BY <1>2, <1>3, <2>1 DEF ControlInv
  <2> QED BY <1>1, <1>4, <2>1, <2>2, <2>3, <2>4, Owners DEF KvInv
<1>7. ASSUME NEW b \in GcSources, job' = Job("gc", "copy", Start(b), b),
             write_pos' = Start(Min(CleanBlocks)) + BLK_HDR_SIZE, UNCHANGED gcVars
      PROVE  KvInv'
  <2>1. u \in Blocks /\ b \in Blocks
    BY <1>2 DEF UpInv, GcSources
  <2>2. PICK c \in Blocks : c # u
    BY <2>1, Sizes
  <2>3. \A d \in Blocks : d # u => d = c
    BY <2>1, <2>2, StartIs, Sizes
  <2>4. /\ hdr[u] \in {"USED", "DIRTY"} /\ hdr[c] = "CLEAN" /\ clean_blk_nums = 1
        /\ \A d \in Blocks : info[d] = [state |-> hdr[d], space |-> SpaceOf(items, d)]
        /\ \A i \in items : Blk(i.pos) = u /\ i.state # "TORN"
        /\ \A i, j \in items : ~ Twins(i, j)
    BY <1>1, <1>2, <2>2 DEF UpInv
  <2>5. \A d \in Blocks : info[d].state = hdr[d]
    <3>1. ASSUME NEW d \in Blocks PROVE info[d].state = hdr[d]
      <4>1. info[d] = [state |-> hdr[d], space |-> SpaceOf(items, d)]
        BY <2>4
      <4> QED BY <4>1
    <3> QED BY <3>1
  <2>6. CleanBlocks = {c}
    BY <2>1, <2>2, <2>3, <2>4, <2>5 DEF CleanBlocks
  <2>7. b = u /\ hdr[b] = "DIRTY"
    BY <2>1, <2>3, <2>4, <2>5, <1>7 DEF GcSources
  <2>8. Min(CleanBlocks) = c
    <3>1. c >= c /\ c =< c
      BY Sizes
    <3> QED BY <2>6, <3>1 DEF Min
  <2>9. Start(c) \in Nat /\ Start(b) \in Nat
    BY <2>1, StartIs
  <2>10. write_pos' = Start(c) + BLK_HDR_SIZE /\ write_pos' \in Nat /\ Blk(write_pos') = c
    <3>1. write_pos' = Start(c) + BLK_HDR_SIZE
      BY <1>7, <2>8
    <3>2. write_pos' \in Nat /\ Start(c) <= write_pos' /\ write_pos' < Start(c) + BLK_SIZE
      BY <3>1, <2>9, Sizes
    <3> QED BY <3>1, <3>2, BlkIs
  <2>11. InBlock(items, c) = {}
    BY <2>2, <2>4 DEF InBlock
  <2>12. FreePos(items, c) = Start(c) + BLK_HDR_SIZE
    BY <1>2, <2>11, SpaceIs
  <2>13. /\ job' \in [by : {"gc"}, step : {"copy"}, pos : {Start(b)}, blk : {b}, mark : {0}, unclean : {{}}]
    BY <1>7 DEF Job
  <2>14. GcInv'
    <3>1. ASSUME NEW i \in Normal(InBlock(items', b))
          PROVE  ~ (i.pos <= job'.pos) /\ write_pos' - Start(c) <= i.pos - Start(b)
      <4>1. i \in items /\ Blk(i.pos) = b
        BY <1>5 DEF Normal, InBlock
      <4>2. i.pos \in Nat /\ Start(b) + BLK_HDR_SIZE <= i.pos
        BY <1>2, <4>1, LaidItem
      <4> QED BY <4>2, <2>9, <2>10, <2>13, Sizes
    <3>2. info'[c] = [state |-> "CLEAN", space |-> SpaceOf(items', c)] /\ info'[b].state = "DIRTY"
      BY <1>3, <1>5, <2>1, <2>4, <2>5, <2>7
    <3>3. job'.step = "copy" /\ job'.blk = b
      BY <2>13
    <3>4. \A i \in items' : i.state # "TORN" /\ (Blk(i.pos) = c => i.state = "NORMAL")
      BY <1>5, <2>2, <2>4
    <3>5. InBlock(items', c) = {}
      BY <1>5, <2>11
    <3> QED BY <1>3, <1>5, <2>2, <2>4, <2>7, <2>10, <2>12, <3>1, <3>2, <3>3, <3>4, <3>5 DEF GcInv
  <2>15. TypeOK'
    <3>1. write_pos' \in 0 .. BLK_NUMS * BLK_SIZE - 1
      <4>1. BLK_NUMS * BLK_SIZE = BLK_SIZE + BLK_SIZE
        BY Sizes
      <4>2. Start(c) <= BLK_SIZE
        BY Sizes
      <4> QED BY <4>1, <4>2, <2>9, <2>10, Sizes
    <3>2. job'.by \in Task \cup {None, "gc", "boot"}
      BY <2>13
    <3> QED BY <1>2, <1>3, <1>5, <1>7, <3>1, <3>2 DEF TypeOK, gcVars
  <2>16. ControlInv'
    <3>1. job' \in [by : Task \cup {None, "gc", "boot"}, step : Steps, pos : Nat, blk : Blocks,
                    mark : Blocks, unclean : SUBSET Blocks]
      BY <2>1, <2>9, <2>13, Sizes DEF Steps
    <3>2. job'.by = "gc"
      BY <2>13
    <3> QED BY <1>2, <1>3, <3>1, <3>2, Owners DEF ControlInv
  <2>17. job'.by = "gc"
    BY <2>13
  <2> QED BY <1>4, <2>14, <2>15, <2>16, <2>17, Owners DEF KvInv
<1> QED BY <1>6, <1>7 DEF GcStart

(* The next item to copy, and its room in the target. *)
LEMMA CopyIs ==
  ASSUME KvInv, job.by = "gc", job.step = "copy", GcLeft # {}
  PROVE  LET i == First(GcLeft)
             c == Blk(write_pos)
         IN  /\ i \in items /\ i.state = "NORMAL" /\ Blk(i.pos) = job.blk /\ i.pos > job.pos
             /\ \A j \in GcLeft : i.pos <= j.pos
             /\ c \in Blocks /\ c # job.blk /\ write_pos \in Nat /\ write_pos = FreePos(items, c)
             /\ i.pos \in Nat /\ i.len \in Nat /\ i.len > ITEM_HDR_SIZE /\ job.pos \in Nat
             /\ write_pos + i.len < Start(c) + BLK_SIZE
             /\ Blk(write_pos + i.len) = c
             /\ write_pos + i.len \in 0 .. BLK_NUMS * BLK_SIZE - 1
             /\ write_pos - Start(c) <= i.pos - Start(job.blk)
<1> DEFINE i == First(GcLeft)
           c == Blk(write_pos)
           b == job.blk
<1>1. TypeOK /\ FlashInv /\ ControlInv /\ GcInv /\ ItemsLaid(items)
  BY DEF KvInv, FlashInv
<1>2. GcLeft \subseteq ItemType
  BY <1>1 DEF GcLeft, Normal, InBlock, ItemsLaid
<1>3. i \in GcLeft /\ \A j \in GcLeft : i.pos <= j.pos
  BY <1>2, FirstIs
<1>4. i \in Normal(InBlock(items, b)) /\ i.pos > job.pos
  BY <1>3 DEF GcLeft
<1>5. i \in items /\ i.state = "NORMAL" /\ Blk(i.pos) = b
  BY <1>4 DEF Normal, InBlock
<1>6. b \in Blocks /\ c \in Blocks /\ c # b /\ write_pos = FreePos(items, c) /\ job.pos \in Nat
  BY <1>1 DEF GcInv, ControlInv
<1> HIDE DEF i
<1>7. /\ i.pos \in Nat /\ i.len \in Nat /\ i.pos + i.len < Start(b) + BLK_SIZE
      /\ i.val \in Values /\ i.len = ItemLen[i.val]
  BY <1>1, <1>5, LaidItem
<1>8. i.len > ITEM_HDR_SIZE
  BY <1>7, Sizes
<1>9. write_pos - Start(c) <= i.pos - Start(b)
  <2>1. ~ (i.pos <= job.pos)
    BY <1>4, <1>6, <1>7
  <2> QED BY <1>1, <1>4, <2>1 DEF GcInv
<1>10. write_pos \in Nat /\ Start(c) <= write_pos /\ Start(c) \in Nat /\ Start(b) \in Nat
  BY <1>1, <1>6, FreePosIs, StartIs, Sizes
<1> HIDE DEF c, b
<1>11. write_pos + i.len < Start(c) + BLK_SIZE
  BY <1>7, <1>9, <1>10, Sizes
<1>12. Blk(write_pos + i.len) = c
  BY <1>6, <1>7, <1>10, <1>11, BlkIs
<1>13. write_pos + i.len \in 0 .. BLK_NUMS * BLK_SIZE - 1
  <2>1. BLK_NUMS * BLK_SIZE = BLK_SIZE + BLK_SIZE
    BY Sizes
  <2>2. Start(c) <= BLK_SIZE
    BY <1>6, Sizes
  <2> QED BY <2>1, <2>2, <1>7, <1>10, <1>11, Sizes
<1> QED BY <1>3, <1>4, <1>5, <1>6, <1>7, <1>8, <1>9, <1>10, <1>11, <1>12, <1>13 DEF i, c, b

(* The headers while items are copied. *)
LEMMA CopyHeaders ==
  ASSUME KvInv, job.by = "gc", job.step = "copy"
  PROVE  /\ hdr[Blk(write_pos)] = "CLEAN" /\ hdr[job.blk] = "DIRTY"
         /\ \A c \in Blocks : c # Blk(write_pos) => hdr[c] = "DIRTY"
         /\ \A j \in items : Blk(j.pos) # Blk(write_pos) => hdr[Blk(j.pos)] # "CLEAN"
<1>1. FlashInv /\ ControlInv /\ GcInv
  BY DEF KvInv
<1>2. /\ hdr[Blk(write_pos)] = "CLEAN" /\ hdr[job.blk] = "DIRTY"
      /\ job.blk \in Blocks /\ Blk(write_pos) \in Blocks /\ job.blk # Blk(write_pos)
  BY <1>1 DEF GcInv, ControlInv
<1>3. \A c \in Blocks : c # Blk(write_pos) => c = job.blk
  BY <1>2, Sizes
<1>4. \A j \in items : Blk(j.pos) \in Blocks
  BY <1>1, LaidItem DEF FlashInv
<1> QED BY <1>2, <1>3, <1>4

(* Power fails inside the write of a copy. *)
LEMMA GcTornStep ==
  ASSUME KvInv, GcTorn
  PROVE  KvInv'
<1> DEFINE i == First(GcLeft)
           c == Blk(write_pos)
<1>1. job.by = "gc" /\ job.step = "copy" /\ GcLeft # {} /\ TornWrite(i.len)
  BY DEF GcTorn
<1>2. /\ c \in Blocks /\ write_pos = FreePos(items, c)
      /\ i.len \in Nat /\ i.len > ITEM_HDR_SIZE
      /\ write_pos + i.len < Start(c) + BLK_SIZE
  BY <1>1, CopyIs
<1>3. /\ hdr[c] = "CLEAN"
      /\ \A d \in Blocks : d # c => hdr[d] = "DIRTY"
      /\ \A j \in items : Blk(j.pos) # c => hdr[Blk(j.pos)] # "CLEAN"
  BY <1>1, CopyHeaders
<1>4. ITEM_HDR_SIZE < i.len
  BY <1>2, Sizes
<1> HIDE DEF i, c
<1> QED BY <1>1, <1>2, <1>3, <1>4, TornKeeps

(* An item is copied. *)
LEMMA GcCopyStep ==
  ASSUME KvInv, GcCopy
  PROVE  KvInv'
<1> DEFINE i == First(GcLeft)
           n == [i EXCEPT !.pos = write_pos]
           c == Blk(write_pos)
           b == job.blk
<1>1. job.by = "gc" /\ job.step = "copy" /\ GcLeft # {}
  BY DEF GcCopy
<1>2. TypeOK /\ FlashInv /\ ControlInv /\ GcInv /\ ItemsLaid(items)
  BY <1>1 DEF KvInv, FlashInv
<1>3. /\ i \in items /\ i.state = "NORMAL" /\ Blk(i.pos) = b /\ i.pos > job.pos
      /\ \A j \in GcLeft : i.pos <= j.pos
      /\ c \in Blocks /\ c # b /\ write_pos \in Nat /\ write_pos = FreePos(items, c)
      /\ i.pos \in Nat /\ i.len \in Nat /\ i.len > ITEM_HDR_SIZE /\ job.pos \in Nat
      /\ write_pos + i.len < Start(c) + BLK_SIZE
      /\ Blk(write_pos + i.len) = c
      /\ write_pos + i.len \in 0 .. BLK_NUMS * BLK_SIZE - 1
      /\ write_pos - Start(c) <= i.pos - Start(b)
  BY <1>1, CopyIs
<1>4. /\ hdr[c] = "CLEAN" /\ hdr[b] = "DIRTY"
      /\ \A d \in Blocks : d # c => hdr[d] = "DIRTY"
      /\ \A j \in items : Blk(j.pos) # c => hdr[Blk(j.pos)] # "CLEAN"
  BY <1>1, CopyHeaders
<1>5. /\ items' = items \cup {n} /\ write_pos' = write_pos + i.len
      /\ job' = [job EXCEPT !.pos = i.pos]
      /\ UNCHANGED <<hdr, clean_blk_nums, gcVars, pc, call, ans, req, counters>>
  BY DEF GcCopy, WriteItem
<1>6. info' = [info EXCEPT ![c].space = @ - i.len]
  <2>1. info' = [info EXCEPT ![Blk(write_pos')].space = @ - i.len]
    BY DEF GcCopy
  <2> QED BY <2>1, <1>3, <1>5
<1>7. i \in ItemType /\ i.key \in Keys /\ i.val \in Values /\ i.len = ItemLen[i.val]
  BY <1>2, <1>3, LaidItem
<1> HIDE DEF i
<1>8. /\ n \in ItemType /\ n.pos = write_pos /\ n.state = "NORMAL" /\ n.len = i.len
      /\ n.key = i.key /\ n.val = i.val /\ n.origin = i.origin
  BY <1>3, <1>7 DEF ItemType
<1>9. b \in Blocks /\ Start(b) \in Nat /\ Start(c) \in Nat
  BY <1>2, <1>3, StartIs DEF ControlInv
<1> HIDE DEF n, c, b
<1>10. /\ \A x \in items : x.state # "TORN" /\ (Blk(x.pos) = c => x.state = "NORMAL")
       /\ \A x, y \in items : Twins(x, y) => Blk(x.pos) # Blk(y.pos)
       /\ info[b].state = "DIRTY" /\ clean_blk_nums = 1
       /\ info[c] = [state |-> "CLEAN", space |-> SpaceOf(items, c)]
       /\ \A x \in InBlock(items, c) : \E y \in Normal(InBlock(items, b)) :
            y.key = x.key /\ y.val = x.val /\ y.origin = x.origin /\ y.pos <= job.pos
       /\ \A y \in Normal(InBlock(items, b)) :
            IF y.pos <= job.pos
            THEN \E x \in InBlock(items, c) : x.key = y.key /\ x.val = y.val
            ELSE write_pos - Start(c) <= y.pos - Start(b)
  BY <1>1, <1>2 DEF GcInv, b, c
<1>11. i \in Normal(InBlock(items, b))
  BY <1>3 DEF Normal, InBlock
<1>12. ASSUME NEW x \in InBlock(items, c) PROVE x.key # i.key
  <2> SUFFICES ASSUME x.key = i.key PROVE FALSE
    OBVIOUS
  <2>1. PICK y \in Normal(InBlock(items, b)) : y.key = x.key /\ y.pos <= job.pos
    BY <1>10
  <2>2. y \in items /\ y.state = "NORMAL" /\ Blk(y.pos) = b
    BY DEF Normal, InBlock
  <2>3. y.pos \in Nat
    BY <1>2, <2>2, LaidItem
  <2>4. Twins(y, i)
    BY <1>3, <2>1, <2>2, <2>3 DEF Twins
  <2> QED BY <1>3, <1>10, <2>2, <2>4
<1>13. n.len > 0
  BY <1>3, <1>8, Sizes
<1>14. FlashInv'
  <2>1. ASSUME NEW x \in items, Twins(x, n), Blk(x.pos) = c PROVE FALSE
    BY <1>8, <1>12, <2>1 DEF Twins, InBlock
  <2>2. n.pos = FreePos(items, c) /\ n.pos + n.len < Start(c) + BLK_SIZE
    BY <1>3, <1>8
  <2>3. n.state = "NORMAL" => n.key \in Keys /\ n.val \in Values /\ n.len = ItemLen[n.val]
    BY <1>7, <1>8
  <2>4. n \in ItemType /\ c \in Blocks /\ hdr' = hdr
    BY <1>3, <1>5, <1>8
  <2> QED BY <1>2, <1>4, <1>5, <1>13, <2>1, <2>2, <2>3, <2>4, FlashAppend
<1>15. /\ Blk(n.pos) = c
       /\ \A x \in items : x.pos # n.pos /\ (Blk(x.pos) = c => x.pos < n.pos)
       /\ FreePos(items', c) = n.pos + n.len
       /\ SpaceOf(items', c) = SpaceOf(items, c) - n.len
       /\ InBlock(items', b) = InBlock(items, b)
  <2>1. n.pos = FreePos(items, c) /\ n.pos + n.len < Start(c) + BLK_SIZE
    BY <1>3, <1>8
  <2>2. n.state = "NORMAL" => n.key \in Keys /\ n.val \in Values /\ n.len = ItemLen[n.val]
    BY <1>7, <1>8
  <2>3. n \in ItemType /\ c \in Blocks /\ b \in Blocks /\ b # c
    BY <1>3, <1>8, <1>9
  <2> QED BY <1>2, <1>5, <1>13, <2>1, <2>2, <2>3, Appended
<1>16. /\ job' \in [by : {"gc"}, step : {"copy"}, pos : {i.pos}, blk : {b}, mark : Blocks,
                    unclean : SUBSET Blocks]
  BY <1>1, <1>2, <1>5 DEF ControlInv, b
<1>17. /\ job'.by = "gc" /\ job'.step = "copy" /\ job'.pos = i.pos /\ job'.blk = b
  BY <1>16
<1>18. info'[c] = [state |-> "CLEAN", space |-> SpaceOf(items', c)] /\ info'[b] = info[b]
  <2>1. info'[b] = info[b] /\ info'[c] = [info[c] EXCEPT !.space = @ - i.len]
    BY <1>2, <1>3, <1>6, <1>9 DEF TypeOK
  <2> QED BY <2>1, <1>8, <1>10, <1>15
<1>19. InBlock(items', c) = InBlock(items, c) \cup {n}
  BY <1>5, <1>15 DEF InBlock
<1>20. GcInv'
  <2>1. Blk(write_pos') = c /\ write_pos' = FreePos(items', c)
    BY <1>3, <1>5, <1>8, <1>15
  <2>2. \A x \in items' : x.state # "TORN" /\ (Blk(x.pos) = c => x.state = "NORMAL")
    BY <1>5, <1>8, <1>10
  <2>3. ASSUME NEW x \in items', NEW y \in items', Twins(x, y), Blk(x.pos) = Blk(y.pos) PROVE FALSE
    <3>1. CASE x \in items /\ y \in items
      BY <3>1, <2>3, <1>10
    <3>2. CASE x = n /\ y = n
      BY <3>2, <2>3, <1>3, <1>8 DEF Twins
    <3>3. CASE x = n /\ y \in items
      BY <3>3, <2>3, <1>8, <1>12, <1>15 DEF Twins, InBlock
    <3>4. CASE x \in items /\ y = n
      BY <3>4, <2>3, <1>8, <1>12, <1>15 DEF Twins, InBlock
    <3> QED BY <3>1, <3>2, <3>3, <3>4, <1>5
  <2>4. ASSUME NEW x \in InBlock(items', c)
        PROVE  \E y \in Normal(InBlock(items', b)) :
                 y.key = x.key /\ y.val = x.val /\ y.origin = x.origin /\ y.pos <= job'.pos
    <3>1. CASE x = n
      BY <3>1, <1>3, <1>8, <1>11, <1>15, <1>17
    <3>2. CASE x \in InBlock(items, c)
      <4>1. PICK y \in Normal(InBlock(items, b)) :
              y.key = x.key /\ y.val = x.val /\ y.origin = x.origin /\ y.pos <= job.pos
        BY <3>2, <1>10
      <4>2. y.pos \in Nat
        BY <1>2, LaidItem DEF Normal, InBlock
      <4>3. y.pos <= job'.pos
        BY <4>1, <4>2, <1>3, <1>17
      <4> QED BY <4>1, <4>3, <1>15
    <3> QED BY <3>1, <3>2, <1>19
  <2>5. ASSUME NEW y \in Normal(InBlock(items', b))
        PROVE  IF y.pos <= job'.pos
               THEN \E x \in InBlock(items', c) : x.key = y.key /\ x.val = y.val
               ELSE write_pos' - Start(c) <= y.pos - Start(b)
    <3>1. y \in Normal(InBlock(items, b)) /\ y \in items
      BY <1>15 DEF Normal, InBlock
    <3>2. y.pos \in Nat
      BY <1>2, <3>1, LaidItem
    <3>3. CASE y.pos <= job.pos
      <4>1. \E x \in InBlock(items, c) : x.key = y.key /\ x.val = y.val
        BY <1>10, <3>1, <3>3
      <4>2. y.pos <= job'.pos
        BY <3>2, <3>3, <1>3, <1>17
      <4> QED BY <4>1, <4>2, <1>19
    <3>4. CASE y.pos > job.pos
      <4>1. y \in GcLeft
        BY <3>1, <3>4 DEF GcLeft, b
      <4>2. i.pos <= y.pos
        BY <4>1, <1>3
      <4>3. CASE y.pos = i.pos
        <5>1. y = i
          BY <4>3, <3>1, <1>2, <1>3 DEF ItemsLaid
        <5> QED BY <5>1, <1>3, <1>8, <1>17, <1>19
      <4>4. CASE i.pos < y.pos
        <5>1. i.pos + i.len <= y.pos
          BY <4>4, <3>1, <1>2, <1>3 DEF ItemsLaid
        <5>2. ~ (y.pos <= job'.pos)
          BY <4>4, <3>2, <1>3, <1>17
        <5> QED BY <5>1, <5>2, <3>2, <1>3, <1>5, <1>9
      <4> QED BY <4>2, <4>3, <4>4, <3>2, <1>3
    <3> QED BY <3>2, <3>3, <3>4, <1>3
  <2>6. /\ c \in Blocks /\ c # b /\ hdr'[c] = "CLEAN" /\ hdr'[b] = "DIRTY"
        /\ info'[c] = [state |-> "CLEAN", space |-> SpaceOf(items', c)]
        /\ info'[b].state = "DIRTY" /\ clean_blk_nums' = 1
        /\ job'.step = "copy" /\ job'.blk = b
    BY <1>3, <1>4, <1>5, <1>10, <1>17, <1>18
  <2>7. \A x, y \in items' : Twins(x, y) => Blk(x.pos) # Blk(y.pos)
    BY <2>3
  <2> QED BY <2>1, <2>2, <2>4, <2>5, <2>6, <2>7 DEF GcInv
<1>21. TypeOK'
  <2>1. items' \subseteq ItemType
    BY <1>14 DEF FlashInv, ItemsLaid
  <2>2. info' \in [Blocks -> [state : {"NONE", "CLEAN", "USED", "DIRTY"}, space : 0 .. BLK_SIZE]]
    <3>1. SpaceOf(items', c) \in 1 .. BLK_SIZE
      BY <1>3, <1>14, SpaceIs DEF FlashInv
    <3>2. info'[c] \in [state : {"NONE", "CLEAN", "USED", "DIRTY"}, space : 0 .. BLK_SIZE]
      BY <3>1, <1>18
    <3> QED BY <3>2, <1>2, <1>6 DEF TypeOK
  <2> QED BY <2>1, <2>2, <1>2, <1>3, <1>5, <1>17 DEF TypeOK, gcVars
<1>22. ControlInv'
  <2>1. job' \in [by : Task \cup {None, "gc", "boot"}, step : Steps, pos : Nat, blk : Blocks,
                  mark : Blocks, unclean : SUBSET Blocks]
    BY <1>3, <1>9, <1>16 DEF Steps
  <2> QED BY <2>1, <1>2, <1>5, <1>17, Owners DEF ControlInv
<1> QED BY <1>14, <1>17, <1>20, <1>21, <1>22, Owners DEF KvInv

(* The record of an owner that goes on with another step. *)
LEMMA NextJob ==
  ASSUME ControlInv, NEW s \in Steps, job' = [job EXCEPT !.step = s]
  PROVE  /\ job' \in [by : Task \cup {None, "gc", "boot"}, step : Steps, pos : Nat, blk : Blocks,
                      mark : Blocks, unclean : SUBSET Blocks]
         /\ job'.by = job.by /\ job'.step = s /\ job'.pos = job.pos /\ job'.blk = job.blk
         /\ job'.mark = job.mark /\ job'.unclean = job.unclean
  BY DEF ControlInv

(* The source is erased. *)
LEMMA GcEraseStep ==
  ASSUME KvInv, GcErase
  PROVE  KvInv'
<1> DEFINE c == Blk(write_pos)
           b == job.blk
<1>1. job.by = "gc" /\ job.step = "copy"
  BY DEF GcErase
<1>2. TypeOK /\ FlashInv /\ ControlInv /\ GcInv /\ ItemsLaid(items)
  BY <1>1 DEF KvInv, FlashInv
<1>3. /\ Erase(b) /\ job' = [job EXCEPT !.step = "format"]
      /\ items' = items \ InBlock(items, b) /\ hdr' = [hdr EXCEPT ![b] = "BAD"]
      /\ UNCHANGED <<info, clean_blk_nums, write_pos, gcVars, pc, call, ans, req, counters>>
  BY DEF GcErase, Erase
<1>4. b \in Blocks /\ c \in Blocks /\ c # b
  BY <1>2 DEF ControlInv, GcInv
<1>5. FlashInv'
  BY <1>2, <1>3, <1>4, FlashErase
<1>6. "format" \in Steps
  BY DEF Steps
<1>7. /\ job' \in [by : Task \cup {None, "gc", "boot"}, step : Steps, pos : Nat, blk : Blocks,
                   mark : Blocks, unclean : SUBSET Blocks]
      /\ job'.by = "gc" /\ job'.step = "format" /\ job'.blk = b
  BY <1>1, <1>2, <1>3, <1>6, NextJob
<1>8. /\ InBlock(items', b) = {}
      /\ FreePos(items', c) = FreePos(items, c) /\ SpaceOf(items', c) = SpaceOf(items, c)
  <2>1. ItemsLaid(items) /\ items' = items \ InBlock(items, b)
    BY <1>2, <1>3
  <2> HIDE DEF b, c
  <2> QED BY <1>4, <2>1, ErasedOther
<1>9. hdr'[b] = "BAD" /\ hdr'[c] = hdr[c]
  BY <1>2, <1>3, <1>4 DEF TypeOK
<1>10. /\ hdr[c] = "CLEAN" /\ write_pos = FreePos(items, c) /\ clean_blk_nums = 1
       /\ info[c] = [state |-> "CLEAN", space |-> SpaceOf(items, c)]
       /\ \A i \in items : i.state # "TORN" /\ (Blk(i.pos) = c => i.state = "NORMAL")
       /\ \A i, j \in items : Twins(i, j) => Blk(i.pos) # Blk(j.pos)
  BY <1>1, <1>2 DEF GcInv
<1> HIDE DEF b
<1>11. GcInv'
  <2>1. items' \subseteq items
    BY <1>3
  <2>2. /\ \A i \in items' : i.state # "TORN" /\ (Blk(i.pos) = c => i.state = "NORMAL")
        /\ \A i, j \in items' : Twins(i, j) => Blk(i.pos) # Blk(j.pos)
    BY <1>10, <2>1
  <2>3. /\ Blk(write_pos') = c /\ hdr'[c] = "CLEAN" /\ write_pos' = FreePos(items', c)
        /\ info'[c] = [state |-> "CLEAN", space |-> SpaceOf(items', c)] /\ clean_blk_nums' = 1
    BY <1>3, <1>8, <1>9, <1>10
  <2> QED BY <1>4, <1>7, <1>8, <1>9, <2>2, <2>3 DEF GcInv
<1>12. TypeOK'
  <2>1. items' \subseteq ItemType /\ hdr' \in [Blocks -> {"BAD", "CLEAN", "USED", "DIRTY"}]
    BY <1>2, <1>3 DEF TypeOK
  <2> QED BY <2>1, <1>2, <1>3, <1>7 DEF TypeOK, gcVars
<1>13. ControlInv'
  BY <1>2, <1>3, <1>7, Owners DEF ControlInv
<1> QED BY <1>5, <1>7, <1>11, <1>12, <1>13, Owners DEF KvInv

(* kv_block_format ends: a clean block more. *)
LEMMA HeaderIs ==
  ASSUME TypeOK, FlashInv, NEW b \in Blocks, hdr[b] = "BAD", WriteHeader(b), items' = items
  PROVE  /\ FlashInv'
         /\ hdr'[b] = "CLEAN" /\ \A c \in Blocks : c # b => hdr'[c] = hdr[c] /\ info'[c] = info[c]
         /\ info'[b] = [state |-> "CLEAN", space |-> SpaceOf(items', b)]
         /\ InBlock(items', b) = {} /\ clean_blk_nums' = clean_blk_nums + 1
         /\ hdr' \in [Blocks -> {"BAD", "CLEAN", "USED", "DIRTY"}]
         /\ info' \in [Blocks -> [state : {"NONE", "CLEAN", "USED", "DIRTY"}, space : 0 .. BLK_SIZE]]
<1>1. /\ hdr' = [hdr EXCEPT ![b] = "CLEAN"]
      /\ info' = [info EXCEPT ![b] = [state |-> "CLEAN", space |-> BLK_SIZE - BLK_HDR_SIZE]]
      /\ clean_blk_nums' = clean_blk_nums + 1
  BY DEF WriteHeader
<1>2. FlashInv'
  BY <1>1, FlashFormat
<1>3. InBlock(items', b) = {}
  BY BadEmpty
<1>4. SpaceOf(items', b) = BLK_SIZE - BLK_HDR_SIZE
  BY <1>2, <1>3, SpaceIs DEF FlashInv
<1>5. hdr'[b] = "CLEAN" /\ \A c \in Blocks : c # b => hdr'[c] = hdr[c] /\ info'[c] = info[c]
  BY <1>1 DEF TypeOK
<1>6. info'[b] = [state |-> "CLEAN", space |-> SpaceOf(items', b)]
  BY <1>1, <1>4 DEF TypeOK
<1>7. hdr' \in [Blocks -> {"BAD", "CLEAN", "USED", "DIRTY"}]
  BY <1>1 DEF TypeOK
<1>8. info' \in [Blocks -> [state : {"NONE", "CLEAN", "USED", "DIRTY"}, space : 0 .. BLK_SIZE]]
  <2>1. BLK_SIZE - BLK_HDR_SIZE \in 0 .. BLK_SIZE
    BY Sizes
  <2> QED BY <2>1, <1>1 DEF TypeOK
<1> QED BY <1>1, <1>2, <1>3, <1>5, <1>6, <1>7, <1>8

(* The erased source gets its header. *)
LEMMA GcFormatStep ==
  ASSUME KvInv, GcFormat
  PROVE  KvInv'
<1> DEFINE c == Blk(write_pos)
           b == job.blk
<1>1. job.by = "gc" /\ job.step = "format"
  BY DEF GcFormat
<1>2. TypeOK /\ FlashInv /\ ControlInv /\ GcInv
  BY <1>1 DEF KvInv
<1>3. /\ WriteHeader(b) /\ job' = [job EXCEPT !.step = "use"]
      /\ UNCHANGED <<items, write_pos, gcVars, pc, call, ans, req, counters>>
  BY DEF GcFormat
<1>4. b \in Blocks /\ c \in Blocks /\ c # b /\ hdr[b] = "BAD" /\ clean_blk_nums = 1
  BY <1>1, <1>2 DEF ControlInv, GcInv
<1>5. /\ FlashInv'
      /\ hdr'[b] = "CLEAN" /\ hdr'[c] = hdr[c] /\ info'[c] = info[c]
      /\ info'[b] = [state |-> "CLEAN", space |-> SpaceOf(items', b)]
      /\ InBlock(items', b) = {} /\ clean_blk_nums' = clean_blk_nums + 1
      /\ hdr' \in [Blocks -> {"BAD", "CLEAN", "USED", "DIRTY"}]
      /\ info' \in [Blocks -> [state : {"NONE", "CLEAN", "USED", "DIRTY"}, space : 0 .. BLK_SIZE]]
  BY <1>2, <1>3, <1>4, HeaderIs
<1>6. "use" \in Steps
  BY DEF Steps
<1>7. /\ job' \in [by : Task \cup {None, "gc", "boot"}, step : Steps, pos : Nat, blk : Blocks,
                   mark : Blocks, unclean : SUBSET Blocks]
      /\ job'.by = "gc" /\ job'.step = "use" /\ job'.blk = b
  BY <1>1, <1>2, <1>3, <1>6, NextJob
<1>8. /\ hdr[c] = "CLEAN" /\ write_pos = FreePos(items, c)
      /\ info[c] = [state |-> "CLEAN", space |-> SpaceOf(items, c)]
      /\ \A i \in items : i.state # "TORN" /\ (Blk(i.pos) = c => i.state = "NORMAL")
      /\ \A i, j \in items : Twins(i, j) => Blk(i.pos) # Blk(j.pos)
  BY <1>2 DEF GcInv
<1> HIDE DEF b
<1>9. clean_blk_nums' = 2
  BY <1>4, <1>5
<1>10. GcInv'
  <2>1. items' = items /\ Blk(write_pos') = c /\ write_pos' = write_pos
    BY <1>3
  <2>2. /\ hdr'[c] = "CLEAN" /\ write_pos' = FreePos(items', c)
        /\ info'[c] = [state |-> "CLEAN", space |-> SpaceOf(items', c)]
    BY <1>5, <1>8, <2>1
  <2>3. /\ c \in Blocks /\ c # b /\ hdr'[b] = "CLEAN" /\ InBlock(items', b) = {}
        /\ info'[b] = [state |-> "CLEAN", space |-> SpaceOf(items', b)]
    BY <1>4, <1>5
  <2>4. /\ \A i \in items' : i.state # "TORN" /\ (Blk(i.pos) = c => i.state = "NORMAL")
        /\ \A i, j \in items' : Twins(i, j) => Blk(i.pos) # Blk(j.pos)
    BY <1>8, <2>1
  <2> HIDE DEF c
  <2> QED BY <1>7, <1>9, <2>1, <2>2, <2>3, <2>4 DEF GcInv
<1>11. TypeOK'
  <2>1. clean_blk_nums' \in 0 .. BLK_NUMS
    BY <1>9, Sizes
  <2> QED BY <2>1, <1>2, <1>3, <1>5, <1>7 DEF TypeOK, gcVars
<1>12. ControlInv'
  BY <1>2, <1>3, <1>7, Owners DEF ControlInv
<1> QED BY <1>5, <1>7, <1>10, <1>11, <1>12, Owners DEF KvInv

(* The copy is put to use. *)
LEMMA GcUseStep ==
  ASSUME KvInv, GcUse
  PROVE  KvInv'
<1> DEFINE c == Blk(write_pos)
           b == job.blk
<1>1. job.by = "gc" /\ job.step = "use"
  BY DEF GcUse
<1>2. TypeOK /\ FlashInv /\ ControlInv /\ GcInv
  BY <1>1 DEF KvInv
<1>3. /\ hdr' = [hdr EXCEPT ![c] = "USED"] /\ info' = [info EXCEPT ![c].state = "USED"]
      /\ clean_blk_nums' = clean_blk_nums - 1 /\ GcExit /\ job' = Free
      /\ UNCHANGED <<items, write_pos, pc, call, ans, req, counters>>
  BY DEF GcUse, GcExit
<1>4. /\ b \in Blocks /\ c \in Blocks /\ c # b /\ hdr[b] = "CLEAN" /\ clean_blk_nums = 2
      /\ InBlock(items, b) = {} /\ write_pos = FreePos(items, c)
      /\ info[c] = [state |-> "CLEAN", space |-> SpaceOf(items, c)]
      /\ info[b] = [state |-> "CLEAN", space |-> SpaceOf(items, b)]
      /\ \A i \in items : i.state # "TORN" /\ (Blk(i.pos) = c => i.state = "NORMAL")
      /\ \A i, j \in items : Twins(i, j) => Blk(i.pos) # Blk(j.pos)
  BY <1>1, <1>2 DEF ControlInv, GcInv
<1>5. \A d \in Blocks : d # c => d = b
  BY <1>4, Sizes
<1>6. FlashInv'
  BY <1>2, <1>3, <1>4, <1>5, FlashMark
<1>7. \A i \in items : Blk(i.pos) = c
  BY <1>2, <1>4, <1>5, LaidItem DEF FlashInv, InBlock
<1>8. job'.by = None /\ job'.step = "free"
  BY <1>3, Owners
<1>9. hdr'[c] = "USED" /\ hdr'[b] = "CLEAN" /\ info'[b] = info[b]
  BY <1>2, <1>3, <1>4 DEF TypeOK
<1>10. info'[c] = [state |-> "USED", space |-> SpaceOf(items, c)]
  <2>1. info'[c] = [info[c] EXCEPT !.state = "USED"]
    BY <1>2, <1>3, <1>4 DEF TypeOK
  <2> QED BY <2>1, <1>4
<1> HIDE DEF b
<1>11. UpInv'
  <2>1. items' = items /\ write_pos' = write_pos /\ Blk(write_pos') = c
    BY <1>3
  <2>2. \A d \in Blocks : /\ d # c => hdr'[d] = "CLEAN"
                          /\ info'[d] = [state |-> hdr'[d], space |-> SpaceOf(items', d)]
    BY <1>4, <1>5, <1>9, <1>10, <2>1
  <2>3. clean_blk_nums' = 1
    BY <1>3, <1>4
  <2>4. \A i, j \in items' : ~ Twins(i, j)
    BY <1>4, <1>7, <2>1
  <2>5. \A i \in items' : Blk(i.pos) = c /\ i.state = "NORMAL"
    BY <1>4, <1>7, <2>1
  <2> QED BY <1>4, <1>8, <1>9, <2>1, <2>2, <2>3, <2>4, <2>5 DEF UpInv
<1>12. TypeOK'
  <2>1. clean_blk_nums' \in 0 .. BLK_NUMS
    BY <1>3, <1>4, Sizes
  <2>2. hdr' \in [Blocks -> {"BAD", "CLEAN", "USED", "DIRTY"}]
    BY <1>2, <1>3 DEF TypeOK
  <2>3. info' \in [Blocks -> [state : {"NONE", "CLEAN", "USED", "DIRTY"}, space : 0 .. BLK_SIZE]]
    BY <1>2, <1>3 DEF TypeOK
  <2>4. gc_trigger' \in BOOLEAN /\ gc_waiter' \in BOOLEAN /\ gc_sem' \in Nat /\ ending' \in Nat
    BY <1>2, <1>3, GcExitIs
  <2> QED BY <2>1, <2>2, <2>3, <2>4, <1>2, <1>3, <1>8 DEF TypeOK
<1>13. ControlInv'
  <2>1. job' \in [by : Task \cup {None, "gc", "boot"}, step : Steps, pos : Nat, blk : Blocks,
                  mark : Blocks, unclean : SUBSET Blocks]
    BY <1>3, Sizes DEF Free, Job, Steps
  <2> QED BY <2>1, <1>2, <1>3, <1>8, Owners DEF ControlInv
<1> QED BY <1>6, <1>8, <1>11, <1>12, <1>13, Owners DEF KvInv

-----------------------------------------------------------------------------
(* kv_init. *)

(* Counting blocks. *)
LEMMA CountIs ==
  ASSUME NEW S, S \subseteq Blocks
  PROVE  /\ Cardinality(S) = (IF 0 \in S THEN 1 ELSE 0) + (IF 1 \in S THEN 1 ELSE 0)
         /\ Cardinality(S) \in 0 .. BLK_NUMS
<1>1. S = {} \/ S = {0} \/ S = {1} \/ S = {0, 1}
  BY Sizes
<1>2. Cardinality({}) = 0
  BY FS_EmptySet
<1>3. Cardinality({0}) = 1 /\ Cardinality({1}) = 1 /\ IsFiniteSet({0})
  BY FS_Singleton
<1>4. Cardinality({0} \cup {1}) = Cardinality({0}) + 1
  BY <1>3, FS_AddElement
<1>5. Cardinality({0, 1}) = 2
  <2>1. {0, 1} = {0} \cup {1}
    OBVIOUS
  <2> QED BY <2>1, <1>3, <1>4
<1>6. Cardinality(S) = (IF 0 \in S THEN 1 ELSE 0) + (IF 1 \in S THEN 1 ELSE 0)
  BY <1>1, <1>2, <1>3, <1>5
<1> QED BY <1>6, Sizes

(* The invariants of a boot step. *)
LEMMA BootIs ==
  ASSUME KvInv, job.by = "boot"
  PROVE  TypeOK /\ FlashInv /\ ControlInv /\ BootInv /\ ItemsLaid(items) /\ job.blk \in Blocks
  BY DEF KvInv, FlashInv, ControlInv

(* kv_init never gets to the format of block 0: without a clean block there is one to
   format among those it has noted. *)
LEMMA BlockZeroKept ==
  ASSUME KvInv, job.by = "boot"
  PROVE  job.step # "format 0" /\ job.step # "ready"
BY DEF KvInv, BootInv

(* What is left to show of a boot step. *)
LEMMA BootKeeps ==
  ASSUME KvInv, job.by = "boot", FlashInv', BootInv',
         job' \in [by : {"boot"}, step : Steps, pos : Nat, blk : Blocks, mark : Blocks,
                   unclean : SUBSET Blocks],
         hdr' \in [Blocks -> {"BAD", "CLEAN", "USED", "DIRTY"}],
         info' \in [Blocks -> [state : {"NONE", "CLEAN", "USED", "DIRTY"}, space : 0 .. BLK_SIZE]],
         UNCHANGED <<write_pos, gcVars, pc, call>>
  PROVE  KvInv'
<1>1. TypeOK /\ ControlInv
  BY DEF KvInv
<1>2. job'.by = "boot"
  OBVIOUS
<1>3. clean_blk_nums' \in 0 .. BLK_NUMS
  <2>1. Done' \subseteq Blocks
    BY DEF Done
  <2> QED BY <2>1, CountIs DEF BootInv
<1>4. items' \subseteq ItemType
  BY DEF FlashInv, ItemsLaid
<1>5. TypeOK'
  BY <1>1, <1>2, <1>3, <1>4 DEF TypeOK, gcVars
<1>6. ControlInv'
  BY <1>1, <1>2, Owners DEF ControlInv
<1> QED BY <1>2, <1>5, <1>6, Owners DEF KvInv

(* A block that was scanned stays so when nothing of it changes. *)
LEMMA ScannedFrame ==
  ASSUME NEW b, Scanned(b), hdr'[b] = hdr[b], info'[b] = info[b],
         SpaceOf(items', b) = SpaceOf(items, b),
         \A i \in InBlock(items', b) : i \in InBlock(items, b) \/ (i.state = "DELETE" /\ hdr[b] # "USED"),
         \A i \in items' : i.state = "NORMAL" => i \in items
  PROVE  Scanned(b)'
<1>1. hdr'[b] # "BAD" /\ info'[b] = [state |-> hdr'[b], space |-> SpaceOf(items', b)]
  BY DEF Scanned
<1>2. ASSUME NEW i \in InBlock(items', b)
      PROVE  /\ i.state # "TORN" /\ (hdr'[b] = "USED" => i.state = "NORMAL")
             /\ i.state = "NORMAL" => Original(i)' = {}
  <2>1. CASE i.state = "DELETE" /\ hdr[b] # "USED"
    BY <2>1
  <2>2. CASE i \in InBlock(items, b)
    <3>1. /\ i.state # "TORN" /\ (hdr[b] = "USED" => i.state = "NORMAL")
          /\ i.state = "NORMAL" => Original(i) = {}
      BY <2>2 DEF Scanned
    <3>2. Original(i)' \subseteq Original(i)
      BY DEF Original, Normal
    <3> QED BY <3>1, <3>2
  <2> QED BY <2>1, <2>2
<1> QED BY <1>1, <1>2 DEF Scanned

(* kv_init goes on to the next block. *)
LEMMA ScanNext ==
  ASSUME ControlInv, Scanning,
         NEW j \in [by : {"boot"}, step : {"scan"}, pos : Nat, blk : {job.blk}, mark : Blocks,
                    unclean : SUBSET Blocks],
         job' = NextBlock(j)
  PROVE  /\ job' \in [by : {"boot"}, step : Steps, pos : Nat, blk : Blocks, mark : Blocks,
                      unclean : SUBSET Blocks]
         /\ job'.step \in {"scan", "settle"} /\ job'.unclean = j.unclean
         /\ job.blk \notin Done /\ Done' = Done \cup {job.blk}
<1>1. job.blk \in Blocks /\ job.step = "scan"
  BY DEF ControlInv, Scanning
<1>2. Done = {b \in Blocks : b < job.blk}
  BY <1>1 DEF Done
<1>3. CASE job.blk = 0
  <2>1. job' = [j EXCEPT !.blk = @ + 1]
    BY <1>3, Sizes DEF NextBlock
  <2>2. job'.step = "scan" /\ job'.blk = 1 /\ job'.unclean = j.unclean
    BY <2>1, <1>3
  <2>3. Done' = {b \in Blocks : b < 1}
    BY <2>2 DEF Done
  <2>4. Done = {} /\ Done' = {0}
    BY <1>2, <1>3, <2>3, Sizes
  <2>5. job' \in [by : {"boot"}, step : Steps, pos : Nat, blk : Blocks, mark : Blocks,
                  unclean : SUBSET Blocks]
    <3>1. "scan" \in Steps /\ 1 \in Blocks
      BY Sizes DEF Steps
    <3> HIDE DEF Steps
    <3> QED BY <2>1, <1>3, <3>1
  <2> QED BY <2>2, <2>4, <2>5, <1>3
<1>4. CASE job.blk = 1
  <2>1. job' = [j EXCEPT !.step = "settle"]
    BY <1>4, Sizes DEF NextBlock
  <2>2. job'.step = "settle" /\ job'.unclean = j.unclean
    BY <2>1
  <2>3. Done' = Blocks
    BY <2>2 DEF Done
  <2>4. Done = {0}
    BY <1>2, <1>4, Sizes
  <2>5. job' \in [by : {"boot"}, step : Steps, pos : Nat, blk : Blocks, mark : Blocks,
                  unclean : SUBSET Blocks]
    BY <2>1, <1>1 DEF Steps
  <2> QED BY <2>2, <2>3, <2>4, <2>5, <1>4, Sizes
<1> QED BY <1>1, <1>3, <1>4, Sizes

(* What a block adds to the count of clean blocks and to the array of others. *)
LEMMA ScanCounts ==
  ASSUME KvInv, Scanning, FlashInv',
         job'.step \in {"scan", "settle"}, Done' = Done \cup {job.blk}, job.blk \notin Done,
         \A b \in Done \cup {job.blk} : Scanned(b)',
         \A b \in Blocks : b # job.blk => hdr'[b] = hdr[b] /\ info'[b] = info[b],
         items' = items,
         clean_blk_nums' = clean_blk_nums +
           (IF hdr'[job.blk] = "CLEAN" /\ InBlock(items, job.blk) = {} THEN 1 ELSE 0),
         job'.unclean = IF hdr'[job.blk] = "CLEAN" /\ InBlock(items, job.blk) # {}
                        THEN job.unclean \cup {job.blk} ELSE job.unclean
  PROVE  BootInv'
<1> DEFINE d == job.blk
           S == {b \in Done : hdr[b] = "CLEAN" /\ InBlock(items, b) = {}}
           T == {b \in Done' : hdr'[b] = "CLEAN" /\ InBlock(items', b) = {}}
<1>1. BootInv /\ d \in Blocks /\ job.step = "scan"
  BY BootIs DEF Scanning
<1>2. Done \subseteq Blocks
  BY DEF Done
<1>3. T = IF hdr'[d] = "CLEAN" /\ InBlock(items, d) = {} THEN S \cup {d} ELSE S
  BY <1>2
<1>4. S \subseteq Blocks /\ T \subseteq Blocks /\ d \notin S
  BY <1>1, <1>2
<1>5. clean_blk_nums = Cardinality(S)
  BY <1>1 DEF BootInv
<1>6. clean_blk_nums' = Cardinality(T)
  <2>1. /\ Cardinality(S) = (IF 0 \in S THEN 1 ELSE 0) + (IF 1 \in S THEN 1 ELSE 0)
        /\ Cardinality(T) = (IF 0 \in T THEN 1 ELSE 0) + (IF 1 \in T THEN 1 ELSE 0)
    BY <1>4, CountIs
  <2> HIDE DEF S, T
  <2>2. d = 0 \/ d = 1
    BY <1>1, Sizes
  <2> QED BY <2>1, <2>2, <1>3, <1>4, <1>5
<1>7. job'.unclean = {b \in Done' : hdr'[b] = "CLEAN" /\ InBlock(items', b) # {}}
  <2>1. job.unclean = {b \in Done : hdr[b] = "CLEAN" /\ InBlock(items, b) # {}}
    BY <1>1 DEF BootInv
  <2> QED BY <2>1, <1>2
<1>8. ASSUME NEW b \in Blocks, b \notin Done' PROVE info'[b].state \in {"NONE", hdr'[b]}
  BY <1>1, <1>8 DEF BootInv
<1>9. \A b \in Done' : Scanned(b)'
  OBVIOUS
<1> QED BY <1>6, <1>7, <1>8, <1>9 DEF BootInv

(* A block without a header is formatted. *)
LEMMA BootNoHeaderStep ==
  ASSUME KvInv, BootNoHeader
  PROVE  KvInv'
<1> DEFINE d == job.blk
<1>1. Scanning /\ job.by = "boot" /\ job.step = "scan" /\ hdr[d] = "BAD"
  BY DEF BootNoHeader, Scanning
<1>2. TypeOK /\ FlashInv /\ ControlInv /\ BootInv /\ d \in Blocks
  BY <1>1, BootIs
<1>3. InBlock(items, d) = {}
  BY <1>1, <1>2, BadEmpty
<1>4. /\ items' = items /\ WriteHeader(d) /\ job' = NextBlock(job)
      /\ UNCHANGED <<write_pos, gcVars, pc, call>>
  BY <1>3 DEF BootNoHeader
<1>5. /\ FlashInv'
      /\ hdr'[d] = "CLEAN" /\ \A c \in Blocks : c # d => hdr'[c] = hdr[c] /\ info'[c] = info[c]
      /\ info'[d] = [state |-> "CLEAN", space |-> SpaceOf(items', d)]
      /\ InBlock(items', d) = {} /\ clean_blk_nums' = clean_blk_nums + 1
      /\ hdr' \in [Blocks -> {"BAD", "CLEAN", "USED", "DIRTY"}]
      /\ info' \in [Blocks -> [state : {"NONE", "CLEAN", "USED", "DIRTY"}, space : 0 .. BLK_SIZE]]
  BY <1>1, <1>2, <1>4, HeaderIs
<1>6. job \in [by : {"boot"}, step : {"scan"}, pos : Nat, blk : {job.blk}, mark : Blocks,
               unclean : SUBSET Blocks]
  BY <1>1, <1>2 DEF ControlInv
<1>7. /\ job' \in [by : {"boot"}, step : Steps, pos : Nat, blk : Blocks, mark : Blocks,
                   unclean : SUBSET Blocks]
      /\ job'.step \in {"scan", "settle"} /\ job'.unclean = job.unclean
      /\ d \notin Done /\ Done' = Done \cup {d}
  BY <1>1, <1>2, <1>4, <1>6, ScanNext
<1>8. ASSUME NEW b \in Done PROVE Scanned(b)'
  <2>1. Scanned(b) /\ b \in Blocks /\ b # d
    BY <1>2, <1>7 DEF BootInv, Done
  <2> QED BY <2>1, <1>4, <1>5, ScannedFrame
<1>9. ASSUME NEW b, b = d PROVE Scanned(b)'
  BY <1>5, <1>9 DEF Scanned
<1>10. BootInv'
  <2>1. \A b \in Done \cup {d} : Scanned(b)'
    BY <1>8, <1>9
  <2> QED BY <2>1, <1>1, <1>3, <1>4, <1>5, <1>7, ScanCounts
<1> QED BY <1>1, <1>4, <1>5, <1>7, <1>10, BootKeeps

(* A block in which nothing has to be written. *)
LEMMA BootBlockStep ==
  ASSUME KvInv, BootBlock
  PROVE  KvInv'
<1> DEFINE d == job.blk
           s == SpaceOf(items, d)
           clean == hdr[d] = "CLEAN" /\ s = BLK_SIZE - BLK_HDR_SIZE
           j == [job EXCEPT !.unclean = IF hdr[d] = "CLEAN" /\ ~clean THEN @ \cup {d} ELSE @]
<1>1. Scanning /\ job.by = "boot" /\ job.step = "scan" /\ hdr[d] # "BAD" /\ BootWork = {}
  BY DEF BootBlock, Scanning
<1>2. TypeOK /\ FlashInv /\ ControlInv /\ BootInv /\ ItemsLaid(items) /\ d \in Blocks
  BY <1>1, BootIs
<1>3. /\ info' = [info EXCEPT ![d] = [state |-> hdr[d], space |-> s]]
      /\ clean_blk_nums' = clean_blk_nums + (IF clean THEN 1 ELSE 0)
      /\ job' = NextBlock(j)
      /\ UNCHANGED <<flash, write_pos, gcVars, pc, call>>
  BY DEF BootBlock
<1>4. items' = items /\ hdr' = hdr
  BY <1>3 DEF flash
<1>5. clean <=> hdr[d] = "CLEAN" /\ InBlock(items, d) = {}
  BY <1>2, SpaceIs
<1>6. s \in 1 .. BLK_SIZE
  BY <1>2, SpaceIs
<1> HIDE DEF clean, s
<1>7. j \in [by : {"boot"}, step : {"scan"}, pos : Nat, blk : {job.blk}, mark : Blocks,
             unclean : SUBSET Blocks]
  BY <1>1, <1>2 DEF ControlInv
<1>8. j.unclean = IF hdr[d] = "CLEAN" /\ ~clean THEN job.unclean \cup {d} ELSE job.unclean
  BY <1>2 DEF ControlInv
<1> HIDE DEF j
<1>9. /\ job' \in [by : {"boot"}, step : Steps, pos : Nat, blk : Blocks, mark : Blocks,
                   unclean : SUBSET Blocks]
      /\ job'.step \in {"scan", "settle"} /\ job'.unclean = j.unclean
      /\ d \notin Done /\ Done' = Done \cup {d}
  BY <1>1, <1>2, <1>3, <1>7, ScanNext
<1>10. /\ info'[d] = [state |-> hdr[d], space |-> s]
       /\ \A b \in Blocks : b # d => info'[b] = info[b]
  BY <1>2, <1>3 DEF TypeOK
<1>11. ASSUME NEW b \in Done PROVE Scanned(b)'
  <2>1. Scanned(b) /\ b \in Blocks /\ b # d
    BY <1>2, <1>9 DEF BootInv, Done
  <2> QED BY <2>1, <1>4, <1>10, ScannedFrame
<1>12. ASSUME NEW b, b = d PROVE Scanned(b)'
  <2>1. hdr'[b] # "BAD" /\ info'[b] = [state |-> hdr'[b], space |-> SpaceOf(items', b)]
    BY <1>1, <1>4, <1>10, <1>12 DEF s
  <2>2. ASSUME NEW i \in InBlock(items', b)
        PROVE  /\ i.state # "TORN" /\ (hdr'[b] = "USED" => i.state = "NORMAL")
               /\ i.state = "NORMAL" => Original(i)' = {}
    <3>1. i \in InBlock(items, d) /\ i \notin BootWork /\ i \in items
      BY <1>1, <1>4, <1>12 DEF InBlock
    <3>2. i.state \in {"NORMAL", "DELETE", "HOLE", "TORN"}
      BY <1>2, <3>1, LaidItem
    <3>3. i.state # "TORN"
      BY <3>1 DEF BootWork
    <3>4. i.state = "NORMAL" => Original(i) = {}
      BY <3>1 DEF BootWork
    <3>5. i.state # "NORMAL" => hdr[d] # "USED"
      BY <3>1, <3>2, <3>3 DEF BootWork
    <3>6. Original(i)' = Original(i)
      BY <1>4 DEF Original
    <3> QED BY <3>3, <3>4, <3>5, <3>6, <1>4, <1>12
  <2> QED BY <2>1, <2>2 DEF Scanned
<1>13. FlashInv'
  BY <1>2, <1>3, FlashFrame
<1>14. BootInv'
  <2>1. \A b \in Done \cup {d} : Scanned(b)'
    BY <1>11, <1>12
  <2>2. clean_blk_nums' = clean_blk_nums +
          (IF hdr'[d] = "CLEAN" /\ InBlock(items, d) = {} THEN 1 ELSE 0)
    BY <1>3, <1>4, <1>5
  <2>3. job'.unclean = IF hdr'[d] = "CLEAN" /\ InBlock(items, d) # {}
                       THEN job.unclean \cup {d} ELSE job.unclean
    BY <1>4, <1>5, <1>8, <1>9
  <2>4. \A b \in Blocks : b # d => hdr'[b] = hdr[b] /\ info'[b] = info[b]
    BY <1>4, <1>10
  <2> QED BY <2>1, <2>2, <2>3, <2>4, <1>1, <1>4, <1>9, <1>13, ScanCounts
<1>15. info' \in [Blocks -> [state : {"NONE", "CLEAN", "USED", "DIRTY"}, space : 0 .. BLK_SIZE]]
  <2>1. hdr[d] \in {"CLEAN", "USED", "DIRTY"} /\ s \in 0 .. BLK_SIZE
    BY <1>1, <1>2, <1>6 DEF TypeOK
  <2> QED BY <2>1, <1>2, <1>3 DEF TypeOK
<1>16. hdr' \in [Blocks -> {"BAD", "CLEAN", "USED", "DIRTY"}]
  BY <1>2, <1>4 DEF TypeOK
<1> QED BY <1>1, <1>3, <1>9, <1>13, <1>14, <1>15, <1>16, BootKeeps

(* What kv_init writes in a block: it marks it, deletes a torn item, or the item that
   an update was to replace; that one is not in another block that is USED. *)
LEMMA RecoverIs ==
  ASSUME KvInv, BootRecover
  PROVE  /\ Scanning /\ hdr[job.blk] # "BAD"
         /\ \/ /\ hdr[job.blk] = "USED" /\ hdr' = [hdr EXCEPT ![job.blk] = "DIRTY"]
               /\ info' = [info EXCEPT ![job.blk].state = "DIRTY"]
               /\ UNCHANGED <<items, job>>
            \/ /\ hdr' = hdr /\ info' = [info EXCEPT ![job.blk].state = hdr[job.blk]]
               /\ \E o \in items :
                    /\ items' = Deleted(items, o)
                    /\ job' = IF hdr[job.blk] = "USED"
                              THEN [job EXCEPT !.step = "mark", !.mark = job.blk] ELSE job
                    /\ hdr[Blk(o.pos)] = "USED" => Blk(o.pos) = job.blk
                    /\ \/ o.state = "TORN"
                       \/ \E i \in items : /\ Blk(i.pos) = job.blk /\ i.state = "NORMAL"
                                           /\ o \in Original(i)
<1> DEFINE d == job.blk
           i == First(BootWork)
           info1 == [info EXCEPT ![d].state = hdr[d]]
<1>1. Scanning /\ job.by = "boot" /\ job.step = "scan" /\ hdr[d] # "BAD" /\ BootWork # {}
  BY DEF BootRecover, Scanning
<1>2. TypeOK /\ FlashInv /\ ControlInv /\ BootInv /\ ItemsLaid(items) /\ d \in Blocks
  BY <1>1, BootIs
<1>3. BootWork \subseteq ItemType
  BY <1>2 DEF BootWork, InBlock, ItemsLaid
<1>4. i \in BootWork
  BY <1>1, <1>3, FirstIs
<1>5. i \in items /\ Blk(i.pos) = d /\ i.pos \in Nat /\ i.origin \in Nat
  <2>1. i \in items /\ Blk(i.pos) = d
    BY <1>4 DEF BootWork, InBlock
  <2> QED BY <2>1, <1>2, LaidItem
<1>6. \/ /\ i.state \in {"TORN", "NORMAL"}
         /\ DeleteItem(IF i.state = "TORN" THEN i.pos ELSE i.origin, info1, job, "scan")
         /\ info' = info1
         /\ hdr' = hdr
      \/ /\ i.state \notin {"TORN", "NORMAL"}
         /\ hdr' = [hdr EXCEPT ![d] = "DIRTY"]
         /\ info' = [info EXCEPT ![d].state = "DIRTY"]
         /\ UNCHANGED <<items, job>>
  BY DEF BootRecover
<1>7. info1[d].state = hdr[d] /\ \A b \in Blocks : b # d => info1[b] = info[b]
  BY <1>2 DEF TypeOK
<1>8. [job EXCEPT !.step = "scan"] = job
  BY <1>1, <1>2 DEF ControlInv
<1> HIDE DEF i, info1
<1>9. CASE /\ i.state \notin {"TORN", "NORMAL"}
           /\ hdr' = [hdr EXCEPT ![d] = "DIRTY"]
           /\ info' = [info EXCEPT ![d].state = "DIRTY"]
           /\ UNCHANGED <<items, job>>
  <2>1. hdr[d] = "USED"
    BY <1>4, <1>9 DEF BootWork
  <2> QED BY <1>1, <1>9, <2>1
<1>10. ASSUME NEW o \in items, DeleteItem(o.pos, info1, job, "scan"), info' = info1, hdr' = hdr,
              Blk(o.pos) # d => hdr[Blk(o.pos)] # "USED" /\ hdr[d] # "USED",
              \/ o.state = "TORN"
              \/ \E x \in items : Blk(x.pos) = d /\ x.state = "NORMAL" /\ o \in Original(x)
       PROVE  /\ hdr' = hdr /\ info' = [info EXCEPT ![d].state = hdr[d]]
              /\ items' = Deleted(items, o)
              /\ job' = IF hdr[d] = "USED"
                        THEN [job EXCEPT !.step = "mark", !.mark = d] ELSE job
              /\ hdr[Blk(o.pos)] = "USED" => Blk(o.pos) = d
  <2>1. (CHOOSE x \in items : x.pos = o.pos) = o
    BY <1>2, AtPos
  <2>2. /\ items' = Deleted(items, o)
        /\ job' = IF info1[Blk(o.pos)].state = "USED"
                  THEN [job EXCEPT !.step = "mark", !.mark = Blk(o.pos)]
                  ELSE [job EXCEPT !.step = "scan"]
    BY <1>10, <2>1 DEF DeleteItem, Deleted
  <2>3. CASE Blk(o.pos) = d
    BY <1>7, <1>8, <1>10, <2>2, <2>3 DEF info1
  <2>4. CASE Blk(o.pos) # d
    <3>1. Blk(o.pos) \in Blocks
      BY <1>2, LaidItem
    <3>2. info[Blk(o.pos)].state # "USED"
      <4>1. CASE Blk(o.pos) \in Done
        <5>1. info[Blk(o.pos)] = [state |-> hdr[Blk(o.pos)], space |-> SpaceOf(items, Blk(o.pos))]
          BY <1>2, <4>1 DEF BootInv, Scanned
        <5>2. info[Blk(o.pos)].state = hdr[Blk(o.pos)]
          BY <5>1
        <5> QED BY <5>2, <1>10, <2>4
      <4>2. CASE Blk(o.pos) \notin Done
        BY <1>1, <1>2, <1>10, <2>4, <3>1, <4>2 DEF BootInv
      <4> QED BY <4>1, <4>2
    <3>3. info1[Blk(o.pos)].state # "USED"
      BY <1>7, <2>4, <3>1, <3>2
    <3> QED BY <1>8, <1>10, <2>2, <2>4, <3>3 DEF info1
  <2> QED BY <2>3, <2>4
<1>11. CASE /\ i.state = "TORN" /\ DeleteItem(i.pos, info1, job, "scan") /\ info' = info1 /\ hdr' = hdr
  BY <1>1, <1>5, <1>10, <1>11
<1>12. CASE /\ i.state = "NORMAL" /\ DeleteItem(i.origin, info1, job, "scan") /\ info' = info1
            /\ hdr' = hdr
  <2>1. PICK o \in Original(i) : TRUE
    BY <1>4, <1>12 DEF BootWork
  <2>2. o \in items /\ o.pos = i.origin
    BY <2>1 DEF Original, Normal
  <2>3. DeleteItem(o.pos, info1, job, "scan")
    BY <1>12, <2>2
  <2>4. Blk(o.pos) # d => hdr[Blk(o.pos)] # "USED" /\ hdr[d] # "USED"
    <3> SUFFICES ASSUME Blk(o.pos) # d PROVE hdr[Blk(o.pos)] # "USED" /\ hdr[d] # "USED"
      OBVIOUS
    <3>1. Blk(o.pos) \in Blocks /\ InBlock(items, Blk(o.pos)) # {} /\ InBlock(items, d) # {}
      BY <1>2, <1>5, <2>2, LaidItem DEF InBlock
    <3>2. hdr[Blk(o.pos)] # "BAD" /\ hdr[Blk(o.pos)] \in {"BAD", "CLEAN", "USED", "DIRTY"}
      BY <1>2, <2>2, <3>1 DEF FlashInv, TypeOK
    <3>3. hdr[d] \in {"CLEAN", "USED", "DIRTY"}
      BY <1>1, <1>2 DEF TypeOK
    <3>4. hdr[d] = "CLEAN" => hdr[Blk(o.pos)] = "DIRTY"
      BY <1>2, <1>5, <3>1 DEF FlashInv
    <3>5. hdr[Blk(o.pos)] = "CLEAN" => hdr[d] = "DIRTY"
      BY <1>2, <2>2, <3>1 DEF FlashInv
    <3>6. ~ (hdr[d] \in {"USED", "DIRTY"} /\ hdr[Blk(o.pos)] \in {"USED", "DIRTY"})
      BY <1>2, <3>1 DEF FlashInv
    <3> QED BY <3>2, <3>3, <3>4, <3>5, <3>6
  <2>5. \E x \in items : Blk(x.pos) = d /\ x.state = "NORMAL" /\ o \in Original(x)
    BY <1>5, <1>12, <2>1
  <2>6. /\ hdr' = hdr /\ info' = [info EXCEPT ![d].state = hdr[d]]
        /\ items' = Deleted(items, o)
        /\ job' = IF hdr[d] = "USED"
                  THEN [job EXCEPT !.step = "mark", !.mark = d] ELSE job
        /\ hdr[Blk(o.pos)] = "USED" => Blk(o.pos) = d
    BY <1>10, <1>12, <2>2, <2>3, <2>4, <2>5
  <2> QED BY <1>1, <2>2, <2>5, <2>6
<1> QED BY <1>6, <1>9, <1>11, <1>12

(* BootRecover keeps the invariant. *)
LEMMA RecoverStep ==
  ASSUME KvInv, BootRecover
  PROVE  KvInv'
<1> DEFINE d == job.blk
<1>1. Scanning /\ job.by = "boot" /\ job.step = "scan" /\ hdr[d] # "BAD"
  BY RecoverIs DEF Scanning
<1>2. TypeOK /\ FlashInv /\ ControlInv /\ BootInv /\ ItemsLaid(items) /\ d \in Blocks
  BY <1>1, BootIs
<1>3. UNCHANGED <<clean_blk_nums, write_pos, gcVars, pc, call>>
  BY DEF BootRecover
<1>4. Done = {b \in Blocks : b < d}
  BY <1>1 DEF Done
<1>5. \A b \in Done : b \in Blocks /\ b # d /\ Scanned(b)
  BY <1>2, <1>4, Sizes DEF BootInv
<1>6. hdr[d] \in {"CLEAN", "USED", "DIRTY"}
  BY <1>1, <1>2 DEF TypeOK
<1>7. job \in [by : {"boot"}, step : {"scan"}, pos : Nat, blk : {d}, mark : Blocks, unclean : SUBSET Blocks]
  BY <1>1, <1>2 DEF ControlInv
<1>8. ASSUME NEW h \in {"CLEAN", "USED", "DIRTY"}, info' = [info EXCEPT ![d].state = h]
      PROVE  /\ info' \in [Blocks -> [state : {"NONE", "CLEAN", "USED", "DIRTY"}, space : 0 .. BLK_SIZE]]
             /\ info'[d].state = h /\ \A b \in Blocks : b # d => info'[b] = info[b]
  BY <1>2, <1>8 DEF TypeOK
<1>9. CASE /\ hdr[d] = "USED" /\ hdr' = [hdr EXCEPT ![d] = "DIRTY"]
           /\ info' = [info EXCEPT ![d].state = "DIRTY"]
           /\ UNCHANGED <<items, job>>
  <2>1. FlashInv'
    BY <1>2, <1>9, FlashMark
  <2>2. /\ hdr'[d] = "DIRTY" /\ (\A b \in Blocks : b # d => hdr'[b] = hdr[b])
        /\ hdr' \in [Blocks -> {"BAD", "CLEAN", "USED", "DIRTY"}]
    BY <1>2, <1>9 DEF TypeOK
  <2>3. /\ info' \in [Blocks -> [state : {"NONE", "CLEAN", "USED", "DIRTY"}, space : 0 .. BLK_SIZE]]
        /\ info'[d].state = "DIRTY" /\ \A b \in Blocks : b # d => info'[b] = info[b]
    BY <1>8, <1>9
  <2>4. Done' = Done
    BY <1>9 DEF Done
  <2>5. ASSUME NEW b \in Done PROVE Scanned(b)'
    BY <1>5, <1>9, <2>2, <2>3, ScannedFrame
  <2>6. \A b \in Blocks \ Done : info'[b].state \in {"NONE", hdr'[b]}
    <3>1. \A b \in Blocks \ Done : info[b].state \in {"NONE", hdr[b]}
      BY <1>1, <1>2 DEF BootInv
    <3> QED BY <2>2, <2>3, <3>1
  <2>7. /\ {b \in Done : hdr'[b] = "CLEAN" /\ InBlock(items', b) = {}}
             = {b \in Done : hdr[b] = "CLEAN" /\ InBlock(items, b) = {}}
        /\ {b \in Done : hdr'[b] = "CLEAN" /\ InBlock(items', b) # {}}
             = {b \in Done : hdr[b] = "CLEAN" /\ InBlock(items, b) # {}}
    BY <1>5, <1>9, <2>2
  <2>8. BootInv'
    BY <1>1, <1>2, <1>3, <1>9, <2>4, <2>5, <2>6, <2>7 DEF BootInv
  <2>9. job' \in [by : {"boot"}, step : Steps, pos : Nat, blk : Blocks, mark : Blocks,
                  unclean : SUBSET Blocks]
    BY <1>2, <1>7, <1>9 DEF Steps
  <2> QED BY <1>1, <1>3, <2>1, <2>2, <2>3, <2>8, <2>9, BootKeeps
<1>10. ASSUME NEW o \in items, hdr' = hdr, info' = [info EXCEPT ![d].state = hdr[d]],
              items' = Deleted(items, o),
              job' = IF hdr[d] = "USED" THEN [job EXCEPT !.step = "mark", !.mark = d] ELSE job,
              hdr[Blk(o.pos)] = "USED" => Blk(o.pos) = d
       PROVE  KvInv'
  <2>1. FlashInv'
    BY <1>2, <1>10, FlashDelete
  <2>2. /\ \A b \in Blocks : /\ SpaceOf(items', b) = SpaceOf(items, b)
                             /\ InBlock(items', b) = {} <=> InBlock(items, b) = {}
        /\ \A j \in items' : \/ j \in items /\ j # o
                             \/ j.state = "DELETE" /\ j.pos = o.pos
    BY <1>2, <1>10, DeletedIs
  <2>3. /\ info' \in [Blocks -> [state : {"NONE", "CLEAN", "USED", "DIRTY"}, space : 0 .. BLK_SIZE]]
        /\ info'[d].state = hdr[d] /\ \A b \in Blocks : b # d => info'[b] = info[b]
    BY <1>6, <1>8, <1>10
  <2>4. /\ job' \in [by : {"boot"}, step : {"scan", "mark"}, pos : Nat, blk : {d}, mark : Blocks,
                     unclean : SUBSET Blocks]
        /\ job'.unclean = job.unclean
        /\ job'.step = "mark" => job'.mark = d /\ hdr[d] = "USED"
    <3>1. CASE hdr[d] = "USED"
      BY <3>1, <1>2, <1>7, <1>10
    <3>2. CASE hdr[d] # "USED"
      BY <3>2, <1>2, <1>7, <1>10
    <3> QED BY <3>1, <3>2
  <2>5. job'.blk = d /\ job'.step \in {"scan", "mark"}
    BY <2>4
  <2>6. Done' = Done
    BY <1>4, <2>5 DEF Done
  <2>7. ASSUME NEW b \in Done PROVE Scanned(b)'
    <3>1. b \in Blocks /\ b # d /\ Scanned(b)
      BY <1>5
    <3>2. \A i \in InBlock(items', b) :
            i \in InBlock(items, b) \/ (i.state = "DELETE" /\ hdr[b] # "USED")
      BY <1>10, <2>2, <3>1 DEF InBlock
    <3>3. \A i \in items' : i.state = "NORMAL" => i \in items
      BY <2>2
    <3> QED BY <1>10, <2>2, <2>3, <3>1, <3>2, <3>3, ScannedFrame
  <2>8. \A b \in Blocks \ Done : info'[b].state \in {"NONE", hdr'[b]}
    <3>1. \A b \in Blocks \ Done : info[b].state \in {"NONE", hdr[b]}
      BY <1>1, <1>2 DEF BootInv
    <3> QED BY <1>10, <2>3, <3>1
  <2>9. /\ {b \in Done : hdr'[b] = "CLEAN" /\ InBlock(items', b) = {}}
             = {b \in Done : hdr[b] = "CLEAN" /\ InBlock(items, b) = {}}
        /\ {b \in Done : hdr'[b] = "CLEAN" /\ InBlock(items', b) # {}}
             = {b \in Done : hdr[b] = "CLEAN" /\ InBlock(items, b) # {}}
    BY <1>5, <1>10, <2>2
  <2>10. BootInv'
    <3>1. /\ clean_blk_nums' = Cardinality({b \in Done' : hdr'[b] = "CLEAN" /\ InBlock(items', b) = {}})
          /\ job'.unclean = {b \in Done' : hdr'[b] = "CLEAN" /\ InBlock(items', b) # {}}
      BY <1>2, <1>3, <2>4, <2>6, <2>9 DEF BootInv
    <3>2. job'.step = "mark" => job'.mark = job'.blk /\ hdr'[job'.mark] = "USED"
      BY <1>10, <2>4, <2>5
    <3> QED BY <2>5, <2>6, <2>7, <2>8, <3>1, <3>2 DEF BootInv
  <2>11. job' \in [by : {"boot"}, step : Steps, pos : Nat, blk : Blocks, mark : Blocks,
                   unclean : SUBSET Blocks]
    BY <1>2, <2>4 DEF Steps
  <2>12. hdr' \in [Blocks -> {"BAD", "CLEAN", "USED", "DIRTY"}]
    BY <1>2, <1>10 DEF TypeOK
  <2> QED BY <1>1, <1>3, <2>1, <2>3, <2>10, <2>11, <2>12, BootKeeps
<1> QED BY <1>9, <1>10, RecoverIs

(* All blocks are scanned. *)
LEMMA SettleIs ==
  ASSUME KvInv, Settling
  PROVE  /\ job.by = "boot" /\ job.step = "settle" /\ Done = Blocks
         /\ \A b \in Blocks : Scanned(b) /\ hdr[b] \in {"CLEAN", "USED", "DIRTY"}
         /\ clean_blk_nums = Cardinality({b \in Blocks : hdr[b] = "CLEAN" /\ InBlock(items, b) = {}})
         /\ job.unclean = {b \in Blocks : hdr[b] = "CLEAN" /\ InBlock(items, b) # {}}
         /\ job \in [by : {"boot"}, step : {"settle"}, pos : Nat, blk : Blocks, mark : Blocks,
                     unclean : SUBSET Blocks]
<1>1. job.by = "boot" /\ job.step = "settle"
  BY DEF Settling
<1>2. TypeOK /\ ControlInv /\ BootInv
  BY <1>1, BootIs
<1>3. Done = Blocks
  BY <1>1 DEF Done
<1>4. \A b \in Blocks : Scanned(b) /\ hdr[b] \in {"CLEAN", "USED", "DIRTY"}
  BY <1>2, <1>3 DEF BootInv, Scanned, TypeOK
<1>5. job \in [by : {"boot"}, step : {"settle"}, pos : Nat, blk : Blocks, mark : Blocks,
               unclean : SUBSET Blocks]
  BY <1>1, <1>2 DEF ControlInv
<1> QED BY <1>1, <1>2, <1>3, <1>4, <1>5 DEF BootInv

(* The last of the unclean blocks. *)
LEMMA LastUnclean ==
  ASSUME KvInv, Settling, job.unclean # {}
  PROVE  /\ Max(job.unclean) \in job.unclean /\ Max(job.unclean) \in Blocks
         /\ hdr[Max(job.unclean)] = "CLEAN" /\ InBlock(items, Max(job.unclean)) # {}
<1>1. job.unclean = {b \in Blocks : hdr[b] = "CLEAN" /\ InBlock(items, b) # {}}
  BY SettleIs
<1>2. job.unclean \subseteq 0 .. 1
  BY <1>1, Sizes
<1>3. Max(job.unclean) \in job.unclean
  BY <1>2, MaxIs
<1> QED BY <1>1, <1>3

(* The target of a collection whose source is gone is kept. *)
LEMMA BootKeepStep ==
  ASSUME KvInv, BootKeep
  PROVE  KvInv'
<1> DEFINE b == Max(job.unclean)
<1>1. Settling /\ job.unclean # {} /\ clean_blk_nums >= 1
  BY DEF BootKeep, KV_GC_RESERVED
<1>2. /\ job.by = "boot" /\ job.step = "settle" /\ Done = Blocks
      /\ \A c \in Blocks : Scanned(c) /\ hdr[c] \in {"CLEAN", "USED", "DIRTY"}
      /\ clean_blk_nums = Cardinality({c \in Blocks : hdr[c] = "CLEAN" /\ InBlock(items, c) = {}})
      /\ job.unclean = {c \in Blocks : hdr[c] = "CLEAN" /\ InBlock(items, c) # {}}
      /\ job \in [by : {"boot"}, step : {"settle"}, pos : Nat, blk : Blocks, mark : Blocks,
                  unclean : SUBSET Blocks]
  BY <1>1, SettleIs
<1>3. TypeOK /\ FlashInv /\ ControlInv
  BY <1>2, BootIs
<1>4. b \in Blocks /\ hdr[b] = "CLEAN" /\ InBlock(items, b) # {}
  BY <1>1, LastUnclean
<1>5. /\ hdr' = [hdr EXCEPT ![b] = "DIRTY"] /\ info' = [info EXCEPT ![b].state = "DIRTY"]
      /\ job' = [job EXCEPT !.unclean = @ \ {b}]
      /\ UNCHANGED <<items, clean_blk_nums, write_pos, gcVars, pc, call>>
  BY DEF BootKeep
<1> HIDE DEF b
<1>6. \A c \in Blocks : c # b => hdr[c] = "CLEAN" /\ InBlock(items, c) = {}
  <2> DEFINE S == {c \in Blocks : hdr[c] = "CLEAN" /\ InBlock(items, c) = {}}
  <2>1. S # {}
    <3>1. Cardinality({}) = 0
      BY FS_EmptySet
    <3>2. Cardinality(S) >= 1
      BY <1>1, <1>2
    <3> HIDE DEF S
    <3> QED BY <3>1, <3>2
  <2>2. b \notin S
    BY <1>4
  <2> QED BY <2>1, <2>2, <1>4, Sizes
<1>7. FlashInv'
  BY <1>3, <1>4, <1>5, <1>6, FlashMark
<1>8. /\ hdr'[b] = "DIRTY" /\ (\A c \in Blocks : c # b => hdr'[c] = hdr[c] /\ info'[c] = info[c])
      /\ hdr' \in [Blocks -> {"BAD", "CLEAN", "USED", "DIRTY"}]
  BY <1>3, <1>4, <1>5 DEF TypeOK
<1>9. /\ info' \in [Blocks -> [state : {"NONE", "CLEAN", "USED", "DIRTY"}, space : 0 .. BLK_SIZE]]
      /\ info'[b] = [info[b] EXCEPT !.state = "DIRTY"]
  BY <1>3, <1>4, <1>5 DEF TypeOK
<1>10. /\ job' \in [by : {"boot"}, step : {"settle"}, pos : Nat, blk : Blocks, mark : Blocks,
                    unclean : SUBSET Blocks]
       /\ job'.unclean = job.unclean \ {b}
  BY <1>2, <1>5
<1>11. ASSUME NEW c \in Blocks PROVE Scanned(c)'
  <2>1. Scanned(c)
    BY <1>2
  <2>2. CASE c # b
    BY <1>5, <1>8, <2>1, <2>2, ScannedFrame
  <2>3. CASE c = b
    <3>1. info[c] = [state |-> hdr[c], space |-> SpaceOf(items, c)]
      BY <2>1 DEF Scanned
    <3>2. info'[c] = [state |-> hdr'[c], space |-> SpaceOf(items', c)]
      BY <1>5, <1>8, <1>9, <2>3, <3>1
    <3>3. \A i \in InBlock(items', c) : i.state # "TORN" /\ (i.state = "NORMAL" => Original(i)' = {})
      BY <1>5, <2>1 DEF Scanned, Original
    <3> QED BY <1>8, <2>3, <3>2, <3>3 DEF Scanned
  <2> QED BY <2>2, <2>3
<1>12. BootInv'
  <2>1. job'.step = "settle"
    BY <1>10
  <2>2. Done' = Blocks
    BY <2>1 DEF Done
  <2>3. /\ {c \in Blocks : hdr'[c] = "CLEAN" /\ InBlock(items', c) = {}}
             = {c \in Blocks : hdr[c] = "CLEAN" /\ InBlock(items, c) = {}}
        /\ {c \in Blocks : hdr'[c] = "CLEAN" /\ InBlock(items', c) # {}}
             = {c \in Blocks : hdr[c] = "CLEAN" /\ InBlock(items, c) # {}} \ {b}
    BY <1>4, <1>5, <1>8
  <2> QED BY <1>2, <1>5, <1>10, <1>11, <2>1, <2>2, <2>3 DEF BootInv
<1>13. job' \in [by : {"boot"}, step : Steps, pos : Nat, blk : Blocks, mark : Blocks,
                 unclean : SUBSET Blocks]
  BY <1>10 DEF Steps
<1> QED BY <1>2, <1>5, <1>7, <1>8, <1>9, <1>12, <1>13, BootKeeps

(* Only the target of a collection with its source beside it is erased. *)
LEMMA BootEraseIs ==
  ASSUME KvInv, BootErase
  PROVE  \E b, o \in Blocks :
           /\ b # o /\ hdr[b] = "CLEAN" /\ hdr[o] = "DIRTY" /\ clean_blk_nums = 0
           /\ Erase(b) /\ job' = [job EXCEPT !.unclean = @ \ {b}, !.blk = b, !.step = "format"]
<1> DEFINE b == Max(job.unclean)
           S == {c \in Blocks : hdr[c] = "CLEAN" /\ InBlock(items, c) = {}}
<1>1. Settling /\ clean_blk_nums < 1
  BY DEF BootErase, KV_GC_RESERVED
<1>2. /\ job.by = "boot"
      /\ \A c \in Blocks : hdr[c] \in {"CLEAN", "USED", "DIRTY"}
      /\ clean_blk_nums = Cardinality(S)
      /\ job.unclean = {c \in Blocks : hdr[c] = "CLEAN" /\ InBlock(items, c) # {}}
  BY <1>1, SettleIs
<1>3. TypeOK /\ FlashInv
  BY <1>2, BootIs
<1>4. clean_blk_nums = 0 /\ S = {}
  <2>1. Cardinality(S) = (IF 0 \in S THEN 1 ELSE 0) + (IF 1 \in S THEN 1 ELSE 0) /\ S \subseteq Blocks
    BY CountIs
  <2> HIDE DEF S
  <2> QED BY <1>1, <1>2, <2>1, Sizes
<1>5. job.unclean # {}
  <2>1. hdr[0] \in {"USED", "DIRTY"} /\ hdr[1] \in {"USED", "DIRTY"} => FALSE
    BY <1>3, Sizes DEF FlashInv
  <2> QED BY <1>2, <1>4, <2>1, Sizes
<1>6. b \in Blocks /\ hdr[b] = "CLEAN" /\ InBlock(items, b) # {}
  BY <1>1, <1>5, LastUnclean
<1>7. Erase(b) /\ job' = [job EXCEPT !.unclean = @ \ {b}, !.blk = b, !.step = "format"]
  BY <1>5 DEF BootErase
<1> HIDE DEF b
<1>8. PICK o \in Blocks : o # b
  BY <1>6, Sizes
<1>9. hdr[o] = "DIRTY"
  <2>1. PICK i \in items : Blk(i.pos) = b
    BY <1>6 DEF InBlock
  <2>2. hdr[o] = "DIRTY" \/ (hdr[o] \in {"BAD", "CLEAN"} /\ InBlock(items, o) = {})
    BY <1>3, <1>6, <1>8, <2>1 DEF FlashInv
  <2>3. ~ (hdr[o] = "CLEAN" /\ InBlock(items, o) = {})
    BY <1>4, <1>8
  <2> QED BY <1>2, <1>8, <2>2, <2>3
<1> QED BY <1>4, <1>6, <1>7, <1>8, <1>9

(* BootErase keeps the invariant. *)
LEMMA BootEraseStep ==
  ASSUME KvInv, BootErase
  PROVE  KvInv'
<1>1. PICK b \in Blocks, o \in Blocks :
        /\ b # o /\ hdr[b] = "CLEAN" /\ hdr[o] = "DIRTY" /\ clean_blk_nums = 0
        /\ Erase(b) /\ job' = [job EXCEPT !.unclean = @ \ {b}, !.blk = b, !.step = "format"]
  BY BootEraseIs
<1>2. /\ job.by = "boot" /\ Scanned(o)
      /\ job.unclean = {c \in Blocks : hdr[c] = "CLEAN" /\ InBlock(items, c) # {}}
      /\ job \in [by : {"boot"}, step : {"settle"}, pos : Nat, blk : Blocks, mark : Blocks,
                  unclean : SUBSET Blocks]
  BY SettleIs DEF BootErase
<1>3. TypeOK /\ FlashInv /\ ControlInv /\ ItemsLaid(items)
  BY <1>2, BootIs
<1>4. UNCHANGED <<info, clean_blk_nums, write_pos, gcVars, pc, call>>
  BY DEF BootErase
<1>5. FlashInv'
  BY <1>1, <1>3, FlashErase
<1>6. items' = items \ InBlock(items, b) /\ hdr' = [hdr EXCEPT ![b] = "BAD"]
  BY <1>1 DEF Erase
<1>7. /\ hdr'[b] = "BAD" /\ hdr'[o] = hdr[o]
      /\ hdr' \in [Blocks -> {"BAD", "CLEAN", "USED", "DIRTY"}]
  BY <1>1, <1>3, <1>6 DEF TypeOK
<1>8. InBlock(items', o) = InBlock(items, o) /\ SpaceOf(items', o) = SpaceOf(items, o)
  <2>1. ItemsLaid(items) /\ b # o /\ items' = items \ InBlock(items, b)
    BY <1>1, <1>3, <1>6
  <2> QED BY <2>1, ErasedOther
<1>9. /\ job' \in [by : {"boot"}, step : {"format"}, pos : Nat, blk : {b}, mark : Blocks,
                   unclean : SUBSET Blocks]
      /\ job'.unclean = job.unclean \ {b}
  BY <1>1, <1>2
<1>10. job'.step = "format" /\ job'.blk = b
  BY <1>9
<1>11. Done' = {o}
  <2>1. Done' = Blocks \ {b}
    BY <1>10 DEF Done
  <2> QED BY <2>1, <1>1, Sizes
<1>12. Scanned(o)'
  <2>1. \A i \in items' : i \in items
    BY <1>6
  <2> QED BY <1>2, <1>4, <1>7, <1>8, <2>1, ScannedFrame
<1>13. BootInv'
  <2>1. {c \in Done' : hdr'[c] = "CLEAN" /\ InBlock(items', c) = {}} = {}
    BY <1>1, <1>7, <1>11
  <2>2. clean_blk_nums' = Cardinality({c \in Done' : hdr'[c] = "CLEAN" /\ InBlock(items', c) = {}})
    BY <1>1, <1>4, <2>1, FS_EmptySet
  <2>3. job'.unclean = {} /\ {c \in Done' : hdr'[c] = "CLEAN" /\ InBlock(items', c) # {}} = {}
    <3>1. \A c \in Blocks : c # b => c = o
      BY <1>1, Sizes
    <3>2. o \notin job.unclean /\ job.unclean \subseteq Blocks
      BY <1>1, <1>2
    <3>3. job'.unclean = {}
      BY <1>9, <3>1, <3>2
    <3>4. {c \in Done' : hdr'[c] = "CLEAN" /\ InBlock(items', c) # {}} = {}
      BY <1>1, <1>7, <1>11
    <3> QED BY <3>3, <3>4
  <2>4. \A c \in Done' : Scanned(c)'
    BY <1>11, <1>12
  <2> QED BY <1>1, <1>4, <1>7, <1>10, <2>2, <2>3, <2>4 DEF BootInv
<1>14. job' \in [by : {"boot"}, step : Steps, pos : Nat, blk : Blocks, mark : Blocks,
                 unclean : SUBSET Blocks]
  BY <1>1, <1>9 DEF Steps
<1>15. info' \in [Blocks -> [state : {"NONE", "CLEAN", "USED", "DIRTY"}, space : 0 .. BLK_SIZE]]
  BY <1>3, <1>4 DEF TypeOK
<1> QED BY <1>2, <1>4, <1>5, <1>7, <1>13, <1>14, <1>15, BootKeeps


(* The erased block gets its header. *)
LEMMA BootFormatStep ==
  ASSUME KvInv, BootFormat
  PROVE  KvInv'
<1> DEFINE b == job.blk
<1>1. job.by = "boot" /\ job.step = "format"
  BY BlockZeroKept DEF BootFormat
<1>2. TypeOK /\ FlashInv /\ ControlInv /\ BootInv /\ b \in Blocks
  BY <1>1, BootIs
<1>3. Done = Blocks \ {b}
  BY <1>1 DEF Done
<1>4. /\ hdr[b] = "BAD" /\ clean_blk_nums = 0
      /\ \A c \in Blocks : c # b => Scanned(c)
      /\ clean_blk_nums = Cardinality({c \in Done : hdr[c] = "CLEAN" /\ InBlock(items, c) = {}})
      /\ job.unclean = {c \in Done : hdr[c] = "CLEAN" /\ InBlock(items, c) # {}}
  BY <1>1, <1>2, <1>3 DEF BootInv
<1>5. WriteHeader(b) /\ job' = [job EXCEPT !.step = "settle"] /\ items' = items
  BY <1>1 DEF BootFormat
<1>6. UNCHANGED <<write_pos, gcVars, pc, call>>
  BY DEF BootFormat
<1> HIDE DEF b
<1>7. /\ FlashInv'
      /\ hdr'[b] = "CLEAN" /\ \A c \in Blocks : c # b => hdr'[c] = hdr[c] /\ info'[c] = info[c]
      /\ info'[b] = [state |-> "CLEAN", space |-> SpaceOf(items', b)]
      /\ InBlock(items', b) = {} /\ clean_blk_nums' = clean_blk_nums + 1
      /\ hdr' \in [Blocks -> {"BAD", "CLEAN", "USED", "DIRTY"}]
      /\ info' \in [Blocks -> [state : {"NONE", "CLEAN", "USED", "DIRTY"}, space : 0 .. BLK_SIZE]]
  BY <1>2, <1>4, <1>5, HeaderIs
<1>8. job \in [by : {"boot"}, step : {"format"}, pos : Nat, blk : Blocks, mark : Blocks,
               unclean : SUBSET Blocks]
  BY <1>1, <1>2 DEF ControlInv
<1>9. /\ job' \in [by : {"boot"}, step : {"settle"}, pos : Nat, blk : Blocks, mark : Blocks,
                   unclean : SUBSET Blocks]
      /\ job'.unclean = job.unclean /\ job'.step = "settle"
  BY <1>5, <1>8
<1>10. Done' = Blocks
  BY <1>9 DEF Done
<1>11. ASSUME NEW c \in Blocks PROVE Scanned(c)'
  <2>1. CASE c # b
    <3>1. Scanned(c) /\ hdr'[c] = hdr[c] /\ info'[c] = info[c]
      BY <1>4, <1>7, <2>1
    <3> QED BY <1>5, <3>1, ScannedFrame
  <2>2. CASE c = b
    BY <1>7, <2>2 DEF Scanned
  <2> QED BY <2>1, <2>2
<1>12. BootInv'
  <2> DEFINE S == {c \in Blocks : hdr'[c] = "CLEAN" /\ InBlock(items', c) = {}}
             U == {c \in Done : hdr[c] = "CLEAN" /\ InBlock(items, c) = {}}
  <2>1. U = S \ {b} /\ b \in S /\ S \subseteq Blocks
    BY <1>2, <1>3, <1>5, <1>7
  <2>2. job.unclean = {c \in Blocks : hdr'[c] = "CLEAN" /\ InBlock(items', c) # {}}
    BY <1>3, <1>4, <1>5, <1>7
  <2>3. clean_blk_nums' = Cardinality(S)
    <3>1. Cardinality(U) = clean_blk_nums
      BY <1>4
    <3> HIDE DEF S, U
    <3>2. U \subseteq Blocks
      BY <2>1
    <3>3. /\ Cardinality(S) = (IF 0 \in S THEN 1 ELSE 0) + (IF 1 \in S THEN 1 ELSE 0)
          /\ Cardinality(U) = (IF 0 \in U THEN 1 ELSE 0) + (IF 1 \in U THEN 1 ELSE 0)
      BY <2>1, <3>2, CountIs
    <3> QED BY <1>2, <1>4, <1>7, <2>1, <3>1, <3>3, Sizes
  <2> QED BY <1>9, <1>10, <1>11, <2>2, <2>3 DEF BootInv
<1>13. job' \in [by : {"boot"}, step : Steps, pos : Nat, blk : Blocks, mark : Blocks,
                 unclean : SUBSET Blocks]
  BY <1>9 DEF Steps
<1> QED BY <1>1, <1>6, <1>7, <1>12, <1>13, BootKeeps


(* kv_init ends when one block is clean and empty and the other holds all there is. *)
LEMMA ReadyFlash ==
  ASSUME KvInv, Settling, job.unclean = {}, clean_blk_nums # 0
  PROVE  \E c, u \in Blocks :
           /\ c # u /\ hdr[c] = "CLEAN" /\ InBlock(items, c) = {} /\ \A i \in items : Blk(i.pos) = u
           /\ \/ clean_blk_nums = 2 /\ u = 0 /\ hdr[u] = "CLEAN" /\ items = {}
              \/ clean_blk_nums = 1 /\ hdr[u] \in {"USED", "DIRTY"}
<1> DEFINE S == {c \in Blocks : hdr[c] = "CLEAN" /\ InBlock(items, c) = {}}
<1>1. /\ job.by = "boot"
      /\ \A c \in Blocks : hdr[c] \in {"CLEAN", "USED", "DIRTY"}
      /\ clean_blk_nums = Cardinality(S)
      /\ \A c \in Blocks : hdr[c] = "CLEAN" => InBlock(items, c) = {}
  BY SettleIs
<1>2. \A i \in items : Blk(i.pos) \in Blocks
  BY <1>1, BootIs, LaidItem
<1>3. /\ Cardinality(S) = (IF 0 \in S THEN 1 ELSE 0) + (IF 1 \in S THEN 1 ELSE 0)
  BY CountIs
<1>4. CASE S = Blocks
  <2>1. 0 \in Blocks /\ 1 \in Blocks /\ \A i \in items : Blk(i.pos) \in {0, 1}
    BY <1>2, Sizes
  <2>2. InBlock(items, 0) = {} /\ InBlock(items, 1) = {} /\ hdr[0] = "CLEAN" /\ hdr[1] = "CLEAN"
    BY <1>4, <2>1
  <2>3. items = {}
    BY <2>1, <2>2 DEF InBlock
  <2>4. clean_blk_nums = 2
    BY <1>1, <1>3, <1>4, <2>1
  <2> QED BY <2>1, <2>2, <2>3, <2>4
<1>5. CASE S # Blocks
  <2>1. PICK u \in Blocks : u \notin S
    BY <1>5
  <2>2. hdr[u] \in {"USED", "DIRTY"}
    BY <1>1, <2>1
  <2>3. PICK c \in Blocks : c # u
    BY Sizes
  <2>4. \A d \in Blocks : d = c \/ d = u
    BY <2>3, Sizes
  <2>5. c \in S /\ clean_blk_nums = 1
    <3> HIDE DEF S
    <3> QED BY <1>1, <1>3, <2>1, <2>3, <2>4, Sizes
  <2>6. \A i \in items : Blk(i.pos) = u
    BY <1>2, <2>4, <2>5 DEF InBlock
  <2> QED BY <2>2, <2>3, <2>5, <2>6
<1> QED BY <1>4, <1>5

(* The block in use, where writing goes on, and block_info. *)
LEMMA ReadyIs ==
  ASSUME KvInv, BootReady
  PROVE  \E c, u \in Blocks :
           /\ c # u /\ hdr'[c] = "CLEAN" /\ InBlock(items, c) = {} /\ \A i \in items : Blk(i.pos) = u
           /\ hdr'[u] \in {"USED", "DIRTY"} /\ (hdr'[u] = "USED" => hdr[u] = "USED" \/ items = {})
           /\ clean_blk_nums' = 1 /\ write_pos' = FreePos(items, u)
           /\ \A d \in Blocks : info'[d] = [state |-> hdr'[d], space |-> SpaceOf(items, d)]
           /\ FlashInv'
           /\ hdr' \in [Blocks -> {"BAD", "CLEAN", "USED", "DIRTY"}]
           /\ info' \in [Blocks -> [state : {"NONE", "CLEAN", "USED", "DIRTY"}, space : 0 .. BLK_SIZE]]
<1>1. Settling /\ job.unclean = {} /\ clean_blk_nums # 0 /\ items' = items
  BY BlockZeroKept DEF BootReady
<1>2. job.by = "boot" /\ \A d \in Blocks : Scanned(d)
  BY <1>1, SettleIs
<1>3. TypeOK /\ FlashInv /\ ItemsLaid(items)
  BY <1>2, BootIs
<1>4. \A d \in Blocks : info[d] = [state |-> hdr[d], space |-> SpaceOf(items, d)]
  BY <1>2 DEF Scanned
<1>5. PICK c \in Blocks, u \in Blocks :
           /\ c # u /\ hdr[c] = "CLEAN" /\ InBlock(items, c) = {} /\ \A i \in items : Blk(i.pos) = u
           /\ \/ clean_blk_nums = 2 /\ u = 0 /\ hdr[u] = "CLEAN" /\ items = {}
              \/ clean_blk_nums = 1 /\ hdr[u] \in {"USED", "DIRTY"}
  BY <1>1, ReadyFlash
<1>6. \A d \in Blocks : d # u => d = c
  BY <1>5, Sizes
<1>7. CASE clean_blk_nums = 2
  <2>1. u = 0 /\ hdr[u] = "CLEAN" /\ items = {}
    BY <1>5, <1>7
  <2>2. /\ hdr' = [hdr EXCEPT ![u] = "USED"] /\ info' = [info EXCEPT ![u].state = "USED"]
        /\ clean_blk_nums' = clean_blk_nums - 1 /\ write_pos' = BLK_HDR_SIZE
    BY <1>7, <2>1, Sizes DEF BootReady
  <2>3. FlashInv'
    <3>1. \A d \in Blocks : d # u => hdr[d] = "CLEAN" /\ InBlock(items, d) = {}
      BY <1>5, <1>6
    <3> QED BY <1>1, <1>3, <2>2, <3>1, FlashMark
  <2>4. /\ hdr'[u] = "USED" /\ hdr'[c] = hdr[c] /\ info'[c] = info[c]
        /\ hdr' \in [Blocks -> {"BAD", "CLEAN", "USED", "DIRTY"}]
        /\ info' \in [Blocks -> [state : {"NONE", "CLEAN", "USED", "DIRTY"}, space : 0 .. BLK_SIZE]]
    BY <1>3, <1>5, <2>2 DEF TypeOK
  <2>5. info'[u] = [state |-> "USED", space |-> SpaceOf(items, u)]
    <3>1. info'[u] = [info[u] EXCEPT !.state = "USED"]
      BY <1>3, <1>5, <2>2 DEF TypeOK
    <3>2. info[u] = [state |-> hdr[u], space |-> SpaceOf(items, u)]
      BY <1>4
    <3> QED BY <3>1, <3>2
  <2>6. \A d \in Blocks : info'[d] = [state |-> hdr'[d], space |-> SpaceOf(items, d)]
    BY <1>4, <1>6, <2>4, <2>5
  <2>7. write_pos' = FreePos(items, u)
    <3>1. InBlock(items, u) = {}
      BY <2>1 DEF InBlock
    <3>2. FreePos(items, u) = Start(u) + BLK_HDR_SIZE
      BY <1>3, <3>1, SpaceIs
    <3> QED BY <2>1, <2>2, <3>2, Sizes
  <2>8. clean_blk_nums' = 1
    BY <1>7, <2>2
  <2> QED BY <1>5, <2>1, <2>3, <2>4, <2>6, <2>7, <2>8
<1>8. CASE clean_blk_nums = 1
  <2>1. hdr[u] \in {"USED", "DIRTY"}
    BY <1>5, <1>8
  <2>2. /\ UNCHANGED <<hdr, info, clean_blk_nums>>
        /\ write_pos' = IF InUse = {} THEN 0 ELSE Start(Min(InUse)) + BLK_SIZE - info[Min(InUse)].space
    BY <1>8, Sizes DEF BootReady
  <2>3. \A d \in Blocks : info[d].state = hdr[d] /\ info[d].space = SpaceOf(items, d)
    <3>1. ASSUME NEW d \in Blocks PROVE info[d].state = hdr[d] /\ info[d].space = SpaceOf(items, d)
      <4>1. info[d] = [state |-> hdr[d], space |-> SpaceOf(items, d)]
        BY <1>4
      <4> QED BY <4>1
    <3> QED BY <3>1
  <2>4. (u + 1) % BLK_NUMS = c
    BY <1>5, Sizes
  <2>5. InUse = {u}
    BY <1>5, <1>6, <2>1, <2>3, <2>4 DEF InUse
  <2>6. Min(InUse) = u
    <3>1. u >= u /\ u =< u
      BY Sizes
    <3> QED BY <2>5, <3>1 DEF Min
  <2>7. write_pos' = FreePos(items, u)
    <3>1. SpaceOf(items, u) = Start(u) + BLK_SIZE - FreePos(items, u) /\ FreePos(items, u) \in Nat
      BY <1>3, SpaceIs, FreePosIs
    <3>2. write_pos' = Start(u) + BLK_SIZE - SpaceOf(items, u)
      BY <2>2, <2>3, <2>5, <2>6
    <3> QED BY <3>1, <3>2, StartIs, Sizes
  <2>8. FlashInv'
    BY <1>1, <1>3, <2>2, FlashFrame DEF flash
  <2>9. /\ hdr' \in [Blocks -> {"BAD", "CLEAN", "USED", "DIRTY"}]
        /\ info' \in [Blocks -> [state : {"NONE", "CLEAN", "USED", "DIRTY"}, space : 0 .. BLK_SIZE]]
    BY <1>3, <2>2 DEF TypeOK
  <2> QED BY <1>4, <1>5, <1>8, <2>1, <2>2, <2>7, <2>8, <2>9
<1> QED BY <1>5, <1>7, <1>8

(* The store comes up. *)
LEMMA BootReadyStep ==
  ASSUME KvInv, BootReady
  PROVE  KvInv'
<1>1. PICK c \in Blocks, u \in Blocks :
           /\ c # u /\ hdr'[c] = "CLEAN" /\ InBlock(items, c) = {} /\ \A i \in items : Blk(i.pos) = u
           /\ hdr'[u] \in {"USED", "DIRTY"} /\ (hdr'[u] = "USED" => hdr[u] = "USED" \/ items = {})
           /\ clean_blk_nums' = 1 /\ write_pos' = FreePos(items, u)
           /\ \A d \in Blocks : info'[d] = [state |-> hdr'[d], space |-> SpaceOf(items, d)]
           /\ FlashInv'
           /\ hdr' \in [Blocks -> {"BAD", "CLEAN", "USED", "DIRTY"}]
           /\ info' \in [Blocks -> [state : {"NONE", "CLEAN", "USED", "DIRTY"}, space : 0 .. BLK_SIZE]]
  BY ReadyIs
<1>2. Settling /\ UNCHANGED <<items, pc, call>> /\ job' = Free
  BY BlockZeroKept DEF BootReady
<1>3. job.by = "boot" /\ \A d \in Blocks : Scanned(d)
  BY <1>2, SettleIs
<1>4. TypeOK /\ FlashInv /\ ControlInv /\ ItemsLaid(items)
  BY <1>3, BootIs
<1>5. job'.by = None /\ job'.step = "free"
  BY <1>2, Owners
<1>6. /\ FreePos(items, u) \in Nat /\ Blk(FreePos(items, u)) = u /\ FreePos(items, u) < Start(u) + BLK_SIZE
  BY <1>4, FreePosIs
<1>7. \A d \in Blocks : d # u => d = c
  BY <1>1, Sizes
<1>8. UpInv'
  <2>1. Blk(write_pos') = u /\ write_pos' = FreePos(items', u)
    BY <1>1, <1>2, <1>6
  <2>2. \A i, j \in items' : ~ Twins(i, j)
    <3> SUFFICES ASSUME NEW i \in items, NEW j \in items, Twins(i, j) PROVE FALSE
      BY <1>2
    <3>1. i.state = "NORMAL" /\ j.state = "NORMAL" /\ i.key = j.key /\ i.pos < j.pos
      BY DEF Twins
    <3>2. Blk(i.pos) = u /\ Blk(j.pos) = u
      BY <1>1
    <3>3. j.origin = i.pos
      BY <1>4, <3>2 DEF FlashInv
    <3>4. i.pos \in Nat /\ j.pos \in Nat
      BY <1>4, LaidItem
    <3>5. i \in Original(j)
      BY <3>1, <3>3, <3>4 DEF Original, Normal
    <3>6. Original(j) = {}
      BY <1>3, <3>1, <3>2 DEF Scanned, InBlock
    <3> QED BY <3>5, <3>6
  <2>3. \A i \in items' : /\ Blk(i.pos) = u /\ i.state # "TORN"
                          /\ hdr'[u] = "USED" => i.state = "NORMAL"
    <3>1. \A i \in items : Blk(i.pos) = u /\ i.state # "TORN" /\ (hdr[u] = "USED" => i.state = "NORMAL")
      BY <1>1, <1>3 DEF Scanned, InBlock
    <3> QED BY <1>1, <1>2, <3>1
  <2>4. \A d \in Blocks : /\ d # u => hdr'[d] = "CLEAN"
                          /\ info'[d] = [state |-> hdr'[d], space |-> SpaceOf(items', d)]
    BY <1>1, <1>2, <1>7
  <2> QED BY <1>1, <1>5, <2>1, <2>2, <2>3, <2>4 DEF UpInv
<1>9. TypeOK'
  <2>1. clean_blk_nums' \in 0 .. BLK_NUMS
    BY <1>1, Sizes
  <2>2. write_pos' \in 0 .. BLK_NUMS * BLK_SIZE - 1
    <3>1. BLK_NUMS * BLK_SIZE = BLK_SIZE + BLK_SIZE /\ Start(u) <= BLK_SIZE /\ Start(u) \in Nat
      BY Sizes
    <3> QED BY <1>1, <1>6, <3>1, Sizes
  <2>3. gc_trigger' \in BOOLEAN /\ gc_waiter' \in BOOLEAN /\ UNCHANGED <<gc_sem, ending>>
    <3>1. TriggerGc(info[Blk(write_pos')].space < ITEM_MAX_LEN /\ clean_blk_nums' < KV_GC_RESERVED + 1)
      BY DEF BootReady
    <3> QED BY <1>4, <3>1, TriggerIs
  <2> QED BY <1>1, <1>2, <1>4, <1>5, <2>1, <2>2, <2>3 DEF TypeOK
<1>10. ControlInv'
  <2>1. job' \in [by : Task \cup {None, "gc", "boot"}, step : Steps, pos : Nat, blk : Blocks,
                  mark : Blocks, unclean : SUBSET Blocks]
    BY <1>2, Sizes DEF Free, Job, Steps
  <2> QED BY <2>1, <1>2, <1>4, <1>5, Owners DEF ControlInv
<1> QED BY <1>1, <1>5, <1>8, <1>9, <1>10, Owners DEF KvInv


-----------------------------------------------------------------------------
(* The invariant. *)

(* A flash without headers, and kv_init before its first block. *)
LEMMA InitInv == Init => KvInv
<1> SUFFICES ASSUME Init PROVE KvInv
  OBVIOUS
<1>1. /\ hdr = [b \in Blocks |-> "BAD"] /\ items = {} /\ job = Job("boot", "scan", 0, 0)
      /\ info = [b \in Blocks |-> [state |-> "NONE", space |-> 0]]
      /\ clean_blk_nums = 0 /\ write_pos = 0
      /\ gc_trigger = FALSE /\ gc_waiter = FALSE /\ gc_sem = 0 /\ ending = 0
      /\ pc = [t \in Task |-> "idle"] /\ call = [t \in Task |-> NoCall]
  BY DEF Init
<1>2. job \in [by : {"boot"}, step : {"scan"}, pos : Nat, blk : {0}, mark : Blocks, unclean : {{}}]
  BY <1>1, Sizes DEF Job
<1>3. TypeOK
  <2>1. 0 \in 0 .. BLK_SIZE /\ 0 \in 0 .. BLK_NUMS /\ 0 \in 0 .. BLK_NUMS * BLK_SIZE - 1
    <3>1. BLK_NUMS * BLK_SIZE = BLK_SIZE + BLK_SIZE
      BY Sizes
    <3> QED BY <3>1, Sizes
  <2>2. info \in [Blocks -> [state : {"NONE", "CLEAN", "USED", "DIRTY"}, space : 0 .. BLK_SIZE]]
    BY <1>1, <2>1
  <2>3. /\ gc_trigger \in BOOLEAN /\ gc_waiter \in BOOLEAN /\ gc_sem \in Nat /\ ending \in Nat
        /\ pc \in [Task -> {"idle", "count", "take", "blocked", "lock"}]
        /\ call \in [Task -> Requests \cup {NoCall}]
    BY <1>1
  <2>4. hdr \in [Blocks -> {"BAD", "CLEAN", "USED", "DIRTY"}] /\ items \subseteq ItemType
    BY <1>1
  <2>5. job.by \in Task \cup {None, "gc", "boot"}
    BY <1>2
  <2> QED BY <1>1, <2>1, <2>2, <2>3, <2>4, <2>5 DEF TypeOK
<1>4. FlashInv
  BY <1>1 DEF FlashInv, ItemsLaid
<1>5. ControlInv
  BY <1>1, <1>2, Owners, Sizes DEF ControlInv, Steps
<1>6. BootInv
  <2>1. Done = {}
    BY <1>2, Sizes DEF Done
  <2>2. \A b \in Blocks : info[b].state = "NONE"
    BY <1>1
  <2> QED BY <1>1, <1>2, <2>1, <2>2, FS_EmptySet DEF BootInv
<1>7. job.by = "boot"
  BY <1>2
<1> QED BY <1>3, <1>4, <1>5, <1>6, <1>7, Owners DEF KvInv

(* A step that changes nothing. *)
LEMMA StutterInv ==
  ASSUME KvInv, UNCHANGED vars
  PROVE  KvInv'
<1>1. UNCHANGED <<flash, info, clean_blk_nums, write_pos, gcVars, pc, call, job>>
  BY DEF vars
<1>2. TypeOK'
  BY <1>1 DEF KvInv, TypeOK, flash, gcVars
<1>3. FlashInv'
  BY <1>1, FlashFrame DEF KvInv
<1>4. ControlInv'
  BY <1>1 DEF KvInv, ControlInv
<1>5. job.by \in Task \cup {None} => UpInv'
  BY <1>1, UpFrame DEF KvInv
<1>6. job.by = "gc" => GcInv'
  BY <1>1, GcFrame DEF KvInv
<1>7. job.by = "boot" => BootInv'
  BY <1>1, BootFrame DEF KvInv
<1> QED BY <1>1, <1>2, <1>3, <1>4, <1>5, <1>6, <1>7 DEF KvInv

(* Every step keeps the invariant, one lemma above for each action. *)
LEMMA InvStep == KvInv /\ [Next]_vars => KvInv'
<1> SUFFICES ASSUME KvInv, [Next]_vars PROVE KvInv'
  OBVIOUS
<1>1. ASSUME NEW t \in Task, Invoke(t) \/ CountWaiter(t) \/ TakeGcSem(t) PROVE KvInv'
  BY <1>1, OutsideStep
<1>2. ASSUME NEW t \in Task, Return(t) \/ Get(t) \/ SetSame(t) \/ SetFull(t) PROVE KvInv'
  BY <1>2, AnswerStep
<1>3. ASSUME NEW t \in Task, SetStore(t) \/ SetDelete(t) \/ Del(t) \/ DelByPrefix(t) \/ SetTorn(t)
      PROVE  KvInv'
  BY <1>3, StoreStep, SetDeleteStep, DelStep, PrefixStep, SetTornStep
<1>4. CASE GcSignal
  BY <1>4, OutsideStep
<1>5. CASE GcStart \/ GcCopy \/ GcErase \/ GcFormat \/ GcUse \/ GcTorn
  BY <1>5, GcStartStep, GcCopyStep, GcEraseStep, GcFormatStep, GcUseStep, GcTornStep
<1>6. CASE BootStep
  BY <1>6, BootNoHeaderStep, RecoverStep, BootBlockStep, BootKeepStep, BootEraseStep, BootFormatStep,
     BootReadyStep DEF BootStep
<1>7. CASE MarkDirty \/ PowerFail \/ Deinit
  BY <1>7, MarkStep, FailStep
<1>8. CASE UNCHANGED vars
  BY <1>8, StutterInv
<1> QED BY <1>1, <1>2, <1>3, <1>4, <1>5, <1>6, <1>7, <1>8 DEF Next, TaskStep, GcStep


(* The mutex is free. *)
LEMMA FreeIs ==
  ASSUME KvInv, job.by = None
  PROVE  TypeOK /\ FlashInv /\ UpInv /\ ItemsLaid(items) /\ job.step = "free"
  BY Owners DEF KvInv, FlashInv, ControlInv

(* UpInv is what the collector needs. *)
LEMMA ReserveInv == KvInv => Reserve
<1> SUFFICES ASSUME KvInv, job.by = None
             PROVE  \E c \in Blocks :
                      /\ CleanBlocks = {c} /\ clean_blk_nums = 1 /\ InBlock(items, c) = {}
                      /\ \A b \in Blocks :
                           /\ hdr[b] = info[b].state
                           /\ hdr[b] = "USED" => InBlock(items, b) = Normal(InBlock(items, b))
                      /\ LET u == Blk(write_pos)
                         IN  /\ u # c /\ write_pos = FreePos(items, u)
                             /\ info[u].space = SpaceOf(items, u)
  BY DEF Reserve
<1> DEFINE u == Blk(write_pos)
<1>1. TypeOK /\ FlashInv /\ UpInv /\ ItemsLaid(items) /\ job.step = "free"
  BY FreeIs
<1>2. u \in Blocks /\ write_pos = FreePos(items, u) /\ hdr[u] \in {"USED", "DIRTY"} /\ clean_blk_nums = 1
  BY <1>1 DEF UpInv
<1>3. PICK c \in Blocks : c # u
  BY <1>2, Sizes
<1>4. \A d \in Blocks : d # u => d = c
  BY <1>2, <1>3, Sizes
<1>5. /\ hdr[c] = "CLEAN"
      /\ \A i \in items : Blk(i.pos) = u /\ (hdr[u] = "USED" => i.state = "NORMAL")
  BY <1>1, <1>3 DEF UpInv
<1>6. \A d \in Blocks : info[d].state = hdr[d] /\ info[d].space = SpaceOf(items, d)
  <2>1. ASSUME NEW d \in Blocks PROVE info[d].state = hdr[d] /\ info[d].space = SpaceOf(items, d)
    <3>1. info[d] = [state |-> hdr[d], space |-> SpaceOf(items, d)]
      BY <1>1 DEF UpInv
    <3> QED BY <3>1
  <2> QED BY <2>1
<1> HIDE DEF u
<1>7. CleanBlocks = {c}
  BY <1>2, <1>4, <1>5, <1>6 DEF CleanBlocks
<1>8. InBlock(items, c) = {}
  BY <1>3, <1>5 DEF InBlock
<1>9. \A b \in Blocks : hdr[b] = "USED" => InBlock(items, b) = Normal(InBlock(items, b))
  BY <1>4, <1>5 DEF InBlock, Normal
<1>10. u # c /\ write_pos = FreePos(items, u) /\ info[u].space = SpaceOf(items, u)
  BY <1>2, <1>3, <1>6
<1>11. /\ CleanBlocks = {c} /\ clean_blk_nums = 1 /\ InBlock(items, c) = {}
       /\ \A b \in Blocks :
            /\ hdr[b] = info[b].state
            /\ hdr[b] = "USED" => InBlock(items, b) = Normal(InBlock(items, b))
  BY <1>2, <1>6, <1>7, <1>8, <1>9
<1> QED BY <1>10, <1>11 DEF u

(* Two items of a key would be twins. *)
LEMMA OneItemInv == KvInv => OneItemPerKey
<1> SUFFICES ASSUME KvInv, job.by = None
             PROVE  /\ \A i, j \in Normal(items) : i.key = j.key => i = j
                    /\ \A i \in items : i.state # "TORN"
  BY DEF OneItemPerKey
<1>1. TypeOK /\ FlashInv /\ UpInv /\ ItemsLaid(items) /\ job.step = "free"
  BY FreeIs
<1>2. ASSUME NEW i \in Normal(items), NEW j \in Normal(items), i.key = j.key PROVE i = j
  <2>1. i \in items /\ j \in items /\ ~ Twins(i, j) /\ ~ Twins(j, i)
    BY <1>1 DEF UpInv, Normal
  <2>2. i.pos \in Nat /\ j.pos \in Nat /\ (i.pos = j.pos => i = j)
    BY <1>1, <2>1, LaidItem DEF ItemsLaid
  <2> QED BY <1>2, <2>1, <2>2 DEF Twins, Normal
<1>3. \A i \in items : i.state # "TORN"
  BY <1>1 DEF UpInv
<1> QED BY <1>2, <1>3

(* The inductive invariant holds for any number of tasks, any keys, values and calls,
   and any number of power failures, inside copies too: kvmgr.c never writes over an
   item, and whoever takes the mutex finds the flash and g_kv_mgr as UpInv, GcInv and
   BootInv say. *)
THEOREM KvInvariant == Spec => []KvInv
<1>1. Init => KvInv
  BY InitInv
<1>2. KvInv /\ [Next]_vars => KvInv'
  BY InvStep
<1> QED BY <1>1, <1>2, PTL DEF Spec

(* The variables of kvmgr.c keep their ranges: clean_blk_nums never wraps below 0 in
   GcUse and BootReady, write_pos stays inside the partition, and the space noted of a
   block inside the block. *)
THEOREM KvTypeCorrect == Spec => []TypeOK
<1>1. KvInv => TypeOK
  BY DEF KvInv
<1> QED BY <1>1, KvInvariant, PTL

(* KV_GC_RESERVED: whenever the mutex is free one block is clean and empty, block_info
   mirrors the flash, and write_pos is the end of the items of the other block. *)
THEOREM ReserveKept == Spec => []Reserve
BY ReserveInv, KvInvariant, PTL

(* Whenever the mutex is free a key has one item at most and none is torn, whatever
   power failures aos_kv_set, kv_gc_task and kv_init were cut off by. *)
THEOREM OneItem == Spec => []OneItemPerKey
BY OneItemInv, KvInvariant, PTL


-----------------------------------------------------------------------------
(* The map the callers see. *)

(* The items of a key. *)
OfKey(its, k) == {i \in Normal(its) : i.key = k}

(* A key is in the map if it has an item, with a value of one of its items. *)
LEMMA ViewIs ==
  ASSUME NEW its, ItemsLaid(its), NEW k \in Keys
  PROVE  /\ OfKey(its, k) = {} => ViewOf(its)[k] = None
         /\ OfKey(its, k) # {} => /\ First(OfKey(its, k)) \in OfKey(its, k)
                                  /\ ViewOf(its)[k] = First(OfKey(its, k)).val
                                  /\ ViewOf(its)[k] \in Values /\ ViewOf(its)[k] # None
         /\ ViewOf(its)[k] \in Values \cup {None}
<1>1. ViewOf(its)[k] = IF OfKey(its, k) = {} THEN None ELSE First(OfKey(its, k)).val
  BY DEF ViewOf, OfKey
<1>2. ASSUME OfKey(its, k) # {} PROVE First(OfKey(its, k)) \in OfKey(its, k)
  <2>1. OfKey(its, k) \subseteq ItemType
    BY LaidItem DEF OfKey, Normal
  <2> QED BY <1>2, <2>1, FirstIs
<1>3. \A i \in OfKey(its, k) : i.val \in Values
  BY LaidItem DEF OfKey, Normal
<1> QED BY <1>1, <1>2, <1>3, Owners

(* All items of the key agree. *)
LEMMA ViewAgreed ==
  ASSUME NEW its, ItemsLaid(its), NEW k \in Keys, NEW v, NEW i \in OfKey(its, k),
         \A j \in OfKey(its, k) : j.val = v
  PROVE  ViewOf(its)[k] = v
BY ViewIs

(* The first item of a key. *)
LEMMA ViewFirst ==
  ASSUME NEW its, ItemsLaid(its), NEW k \in Keys, NEW i \in OfKey(its, k),
         \A j \in OfKey(its, k) : j = i \/ i.pos < j.pos
  PROVE  ViewOf(its)[k] = i.val
<1>1. OfKey(its, k) \subseteq ItemType /\ \A j \in OfKey(its, k) : j.pos \in Nat
  BY LaidItem DEF OfKey, Normal
<1>2. First(OfKey(its, k)) \in OfKey(its, k) /\ First(OfKey(its, k)).pos <= i.pos
  BY <1>1, FirstIs
<1>3. First(OfKey(its, k)) = i
  BY <1>1, <1>2
<1> QED BY <1>3, ViewIs

(* The items of the key are the same. *)
LEMMA ViewSame ==
  ASSUME NEW its, NEW new, NEW k \in Keys, OfKey(new, k) = OfKey(its, k)
  PROVE  ViewOf(new)[k] = ViewOf(its)[k]
BY DEF ViewOf, OfKey

(* Maps are equal key by key. *)
LEMMA ViewEqual ==
  ASSUME NEW its, NEW new, \A k \in Keys : ViewOf(new)[k] = ViewOf(its)[k]
  PROVE  ViewOf(new) = ViewOf(its)
<1>1. ViewOf(its) = [k \in Keys |-> ViewOf(its)[k]] /\ ViewOf(new) = [k \in Keys |-> ViewOf(new)[k]]
  BY DEF ViewOf
<1> HIDE DEF ViewOf
<1>2. [k \in Keys |-> ViewOf(its)[k]] = [k \in Keys |-> ViewOf(new)[k]]
  OBVIOUS
<1> QED BY <1>1, <1>2

(* One key changes. *)
OthersSame(its, new, k) == \A x \in Keys : x # k => OfKey(new, x) = OfKey(its, x)

LEMMA ViewChange ==
  ASSUME NEW its, NEW new, NEW k \in Keys, NEW v, ViewOf(new)[k] = v, OthersSame(its, new, k)
  PROVE  ViewOf(new) = [ViewOf(its) EXCEPT ![k] = v]
<1>1. \A x \in Keys : x # k => ViewOf(new)[x] = ViewOf(its)[x]
  BY ViewSame DEF OthersSame
<1>2. ViewOf(its) = [x \in Keys |-> ViewOf(its)[x]] /\ ViewOf(new) = [x \in Keys |-> ViewOf(new)[x]]
  BY DEF ViewOf
<1>3. [x \in Keys |-> ViewOf(new)[x]] = [[x \in Keys |-> ViewOf(its)[x]] EXCEPT ![k] = v]
  BY <1>1
<1> QED BY <1>2, <1>3

(* An item is written: no other key is concerned. *)
LEMMA KeysAppended ==
  ASSUME NEW its, NEW i, NEW k, i.state = "NORMAL", i.key = k, NEW new, new = its \cup {i}
  PROVE  /\ OfKey(new, k) = OfKey(its, k) \cup {i}
         /\ \A x : x # k => OfKey(new, x) = OfKey(its, x)
BY DEF OfKey, Normal

(* An item is deleted. *)
LEMMA KeysDeleted ==
  ASSUME NEW its, NEW i, i \in its, i.state = "NORMAL", NEW new, new = Deleted(its, i)
  PROVE  /\ OfKey(new, i.key) = OfKey(its, i.key) \ {i}
         /\ \A x : x # i.key => OfKey(new, x) = OfKey(its, x)
<1>1. Rest("DELETE", i.pos, i.len).state = "DELETE"
  BY DEF Rest
<1>2. Normal(new) = Normal(its) \ {i}
  BY <1>1 DEF Normal, Deleted
<1> QED BY <1>2 DEF OfKey

(* A write that concerns no NORMAL item is not seen. *)
LEMMA ViewUnseen ==
  ASSUME NEW its, NEW new, Normal(new) = Normal(its)
  PROVE  ViewOf(new) = ViewOf(its)
BY DEF ViewOf


-----------------------------------------------------------------------------
(* The steps of the abstract map. *)

(* A step of KvMap, or nothing to be seen there. *)
AbsStep == Abs!Next \/ UNCHANGED <<View, call, req, ans>>

(* The two modules speak of the same changes. *)
LEMMA SameNames ==
  /\ Abs!NoCall = NoCall
  /\ \A c : Abs!Changes(c) = Changes(c)
  /\ \A r : Abs!Unmade(r, View') = Unmade(r)
  /\ View = ViewOf(items) /\ View' = ViewOf(items')
BY DEF Abs!NoCall, NoCall, Abs!Changes, Changes, Abs!Unmade, Unmade, View

(* Nothing to be seen. *)
LEMMA AbsSame ==
  ASSUME ViewOf(items') = ViewOf(items), UNCHANGED <<call, req, ans>>
  PROVE  AbsStep
BY DEF AbsStep, View

(* A change is made. *)
LEMMA AbsApply ==
  ASSUME NEW o \in Task \cup {None}, NEW k, NEW v, <<k, v>> \in req[o],
         ViewOf(items') = [ViewOf(items) EXCEPT ![k] = v],
         req' = [req EXCEPT ![o] = Unmade(req[o])], UNCHANGED <<call, ans>>
  PROVE  AbsStep
<1>1. \E c \in req[o] : View' = [View EXCEPT ![c[1]] = c[2]]
  <2>1. <<k, v>>[1] = k /\ <<k, v>>[2] = v
    OBVIOUS
  <2>2. View' = [View EXCEPT ![<<k, v>>[1]] = <<k, v>>[2]]
    BY <2>1, SameNames
  <2> QED BY <2>2
<1>2. req' = [req EXCEPT ![o] = Abs!Unmade(req[o], View')]
  BY SameNames
<1>3. Abs!Apply(o)
  BY <1>1, <1>2 DEF Abs!Apply
<1> QED BY <1>3 DEF AbsStep, Abs!Next

(* A call is answered. *)
LEMMA AbsAnswer ==
  ASSUME NEW t \in Task, NEW res \in {"RES_OK", "RES_NO_SPACE", "RES_ITEM_NOT_FOUND"} \cup Values,
         Abs!Fits(t, res), call[t] # NoCall, Finish(t, res), items' = items
  PROVE  AbsStep
<1>1. /\ ans' = [ans EXCEPT ![t] = res] /\ call' = [call EXCEPT ![t] = Abs!NoCall]
      /\ req' = [req EXCEPT ![t] = {}] /\ call[t] # Abs!NoCall
  BY SameNames DEF Finish
<1>2. View' = View
  BY SameNames
<1>3. Abs!Answer(t)
  BY <1>1, <1>2 DEF Abs!Answer
<1> QED BY <1>3 DEF AbsStep, Abs!Next

(* Power fails. *)
LEMMA AbsFail ==
  ASSUME RamLost, ViewOf(items') = ViewOf(items)
  PROVE  AbsStep
<1>1. View' = View
  BY SameNames
<1>2. Abs!PowerFail
  BY <1>1, SameNames DEF Abs!PowerFail, RamLost
<1> QED BY <1>2 DEF AbsStep, Abs!Next

-----------------------------------------------------------------------------
(* What the calls have still to change: ReqInv. *)

(* The types of the changes. *)
LEMMA ChangesIs ==
  ASSUME NEW c \in Requests \cup {NoCall}
  PROVE  /\ Changes(c) \subseteq Keys \X (Values \cup {None})
         /\ Changes(NoCall) = {}
         /\ \A k, v : c.op # "get" => (<<k, v>> \in Changes(c) <=> k \in c.keys /\ v = c.val)
         /\ \A d \in Changes(c) : \E k \in c.keys : d = <<k, c.val>>
<1>1. NoCall.keys = {} /\ NoCall.val = None
  BY DEF NoCall
<1>2. c.keys \subseteq Keys /\ c.val \in Values \cup {None}
  BY <1>1, RequestIs
<1> QED BY <1>1, <1>2 DEF Changes

(* A step of no task, and of no change. *)
LEMMA ReqAway ==
  ASSUME ReqInv, UNCHANGED <<call, req>>, job.by \notin Task, job'.by \notin Task,
         job.by = "boot" => job'.by = "boot"
  PROVE  ReqInv'
BY DEF ReqInv

(* The steps of a call before it has the mutex, and of a collector after it. *)
LEMMA ReqOutside ==
  ASSUME KvInv, ReqInv, GcSignal \/ \E t \in Task : Invoke(t) \/ CountWaiter(t) \/ TakeGcSem(t)
  PROVE  ReqInv' /\ AbsStep
<1>1. job' = job /\ items' = items /\ ans' = ans
  BY DEF GcSignal, Invoke, CountWaiter, TakeGcSem, flash
<1>2. CASE UNCHANGED <<call, req>>
  <2>1. ReqInv'
    BY <1>1, <1>2 DEF ReqInv, View
  <2> QED BY <1>1, <1>2, <2>1, AbsSame
<1>3. ASSUME NEW t \in Task, Invoke(t) PROVE ReqInv' /\ AbsStep
  <2>1. PICK c \in Requests : call' = [call EXCEPT ![t] = c] /\ req' = [req EXCEPT ![t] = Changes(c)]
    BY <1>3 DEF Invoke
  <2>2. pc[t] = "idle" /\ job.by # "boot"
    BY <1>3 DEF Invoke, Up
  <2>3. TypeOK /\ ControlInv
    BY DEF KvInv
  <2>4. job.by # t /\ call[t] = NoCall
    BY <2>2, <2>3 DEF ControlInv
  <2>5. Changes(c) \in SUBSET (Keys \X (Values \cup {None}))
    BY ChangesIs
  <2>6. req' \in [Task \cup {None} -> SUBSET (Keys \X (Values \cup {None}))]
    BY <2>1, <2>5 DEF ReqInv
  <2>7. ASSUME NEW u \in Task
        PROVE  IF u = t THEN call'[u] = c /\ req'[u] = Changes(c)
                        ELSE call'[u] = call[u] /\ req'[u] = req[u]
    BY <2>1, <2>3 DEF TypeOK, ReqInv
  <2>8. t # None /\ req'[None] = req[None]
    BY <2>1, Owners DEF ReqInv
  <2>9. ReqInv'
    BY <1>1, <2>4, <2>6, <2>7, <2>8 DEF ReqInv, View
  <2>10. Abs!Invoke(t)
    BY <1>1, <2>1, <2>4, SameNames DEF Abs!Invoke
  <2> QED BY <2>9, <2>10 DEF AbsStep, Abs!Next
<1> QED BY <1>2, <1>3 DEF GcSignal, CountWaiter, TakeGcSem

(* A call ends. *)
LEMMA ReqFinish ==
  ASSUME KvInv, ReqInv, NEW t \in Task, NEW res, Finish(t, res), job.by \in {t, None}
  PROVE  ReqInv'
<1>1. /\ job' = Free /\ call' = [call EXCEPT ![t] = NoCall] /\ req' = [req EXCEPT ![t] = {}]
  BY DEF Finish
<1>2. job'.by = None /\ t # None /\ t # "boot" /\ None # "boot"
  BY <1>1, Owners
<1>3. TypeOK
  BY DEF KvInv
<1>4. req' \in [Task \cup {None} -> SUBSET (Keys \X (Values \cup {None}))] /\ req'[None] = {}
  BY <1>1, <1>2 DEF ReqInv
<1>5. ASSUME NEW u \in Task PROVE job'.by # u /\ req'[u] = Changes(call'[u])
  <2>1. CASE u = t
    <3>1. req'[u] = {} /\ call'[u] = NoCall
      BY <1>1, <1>3, <2>1 DEF TypeOK, ReqInv
    <3> QED BY <1>2, <3>1, Owners, ChangesIs
  <2>2. CASE u # t
    <3>1. req'[u] = req[u] /\ call'[u] = call[u] /\ job.by # u
      BY <1>1, <1>3, <2>2, Owners DEF TypeOK, ReqInv
    <3> QED BY <1>2, <3>1, Owners DEF ReqInv
  <2> QED BY <2>1, <2>2
<1> QED BY <1>2, <1>4, <1>5 DEF ReqInv

(* A power failure leaves no call. *)
LEMMA ReqLost ==
  ASSUME ReqInv, RamLost
  PROVE  /\ ReqInv'
         /\ \A o \in Task \cup {None} : req[o] \subseteq req'[None]
<1>1. /\ job' = Job("boot", "scan", 0, 0) /\ call' = [t \in Task |-> NoCall]
      /\ req' = [o \in Task \cup {None} |->
                   IF o = None THEN UNION {req[p] : p \in Task \cup {None}} ELSE {}]
  BY DEF RamLost
<1>2. job'.by = "boot"
  BY <1>1 DEF Job
<1>3. req'[None] = UNION {req[p] : p \in Task \cup {None}}
  BY <1>1
<1>4. req'[None] \subseteq Keys \X (Values \cup {None})
  BY <1>3 DEF ReqInv
<1>5. req' \in [Task \cup {None} -> SUBSET (Keys \X (Values \cup {None}))]
  BY <1>1, <1>3, <1>4
<1>6. \A t \in Task : req'[t] = Changes(call'[t])
  BY <1>1, Owners, ChangesIs
<1> QED BY <1>2, <1>3, <1>5, <1>6, Owners DEF ReqInv

(* The owner of the mutex makes a change. *)
LEMMA ReqOwn ==
  ASSUME KvInv, ReqInv, NEW t \in Task, job.by \in {t, None}, job'.by = t, call' = call,
         req' = [req EXCEPT ![t] = Unmade(req[t])],
         IF call[t].op = "prefix"
         THEN /\ Unmade(req[t]) \subseteq Changes(call[t])
              /\ \A k \in call[t].keys : ViewOf(items')[k] # None => <<k, None>> \in Unmade(req[t])
         ELSE IF job'.step = "delete" THEN Unmade(req[t]) = Changes(call[t])
         ELSE \A k \in call[t].keys : Unmade(req[t]) \subseteq {<<k, ViewOf(items')[k]>>}
  PROVE  ReqInv'
<1>1. t # None /\ t # "boot" /\ job.by # "boot"
  BY Owners
<1>2. Unmade(req[t]) \subseteq req[t]
  BY DEF Unmade
<1>3. /\ req' \in [Task \cup {None} -> SUBSET (Keys \X (Values \cup {None}))] /\ req'[None] = {}
      /\ req'[t] = Unmade(req[t])
      /\ \A u \in Task : u # t => req'[u] = req[u]
  BY <1>1, <1>2 DEF ReqInv
<1>4. \A u \in Task : u # t => job'.by # u /\ req'[u] = Changes(call'[u])
  BY <1>3, Owners DEF ReqInv
<1>5. View' = ViewOf(items')
  BY DEF View
<1> QED BY <1>3, <1>4, <1>5 DEF ReqInv


-----------------------------------------------------------------------------
(* The calls, as steps of the map. *)

(* A call that has the mutex has all its changes to make. *)
LEMMA ReqAtLock ==
  ASSUME KvInv, ReqInv, NEW t \in Task, job.by = None
  PROVE  req[t] = Changes(call[t])
BY Owners DEF ReqInv

(* One key is one change. *)
LEMMA OneChange ==
  ASSUME NEW t \in Task, NEW k, call[t].op # "get", call[t].keys = {k}
  PROVE  Changes(call[t]) = {<<k, call[t].val>>}
<1>1. \A a, b : {a} \X {b} = {<<a, b>>}
  OBVIOUS
<1> QED BY <1>1 DEF Changes

(* The answers that are results. *)
LEMMA FitsIs ==
  ASSUME NEW t \in Task
  PROVE  /\ call[t].op # "get" /\ Abs!Unmade(req[t], View) = {} => Abs!Fits(t, "RES_OK")
         /\ call[t].op = "set" /\ req[t] = Changes(call[t]) => Abs!Fits(t, "RES_NO_SPACE")
         /\ call[t].op \in {"get", "del"} /\ (\A k \in call[t].keys : View[k] = None) =>
              Abs!Fits(t, "RES_ITEM_NOT_FOUND")
         /\ \A v \in Values : call[t].op = "get" /\ (\A k \in call[t].keys : View[k] = v) => Abs!Fits(t, v)
<1>1. \A v \in Values : v # "RES_OK" /\ v # "RES_NO_SPACE" /\ v # "RES_ITEM_NOT_FOUND"
  BY KvAssumption
<1>2. call[t].op # "get" /\ Abs!Unmade(req[t], View) = {} => Abs!Fits(t, "RES_OK")
  BY DEF Abs!Fits
<1>3. call[t].op = "set" /\ req[t] = Changes(call[t]) => Abs!Fits(t, "RES_NO_SPACE")
  BY SameNames DEF Abs!Fits
<1>4. call[t].op \in {"get", "del"} /\ (\A k \in call[t].keys : View[k] = None) =>
        Abs!Fits(t, "RES_ITEM_NOT_FOUND")
  BY DEF Abs!Fits
<1>5. \A v \in Values : call[t].op = "get" /\ (\A k \in call[t].keys : View[k] = v) => Abs!Fits(t, v)
  BY <1>1 DEF Abs!Fits
<1> QED BY <1>2, <1>3, <1>4, <1>5

(* kv_item_get finds what the map holds. *)
LEMMA FoundIs ==
  ASSUME KvInv, NEW t \in Task, NEW op \in {"get", "set", "del"}, Locks(t, op)
  PROVE  /\ KeyOf(t) \in Keys /\ call[t].keys = {KeyOf(t)} /\ call[t] # NoCall
         /\ Candidates(KeyOf(t)) = OfKey(items, KeyOf(t))
         /\ Candidates(KeyOf(t)) = {} => View[KeyOf(t)] = None
         /\ Candidates(KeyOf(t)) # {} => /\ View[KeyOf(t)] = First(Candidates(KeyOf(t))).val
                                         /\ View[KeyOf(t)] \in Values
                                         /\ First(Candidates(KeyOf(t))) \in OfKey(items, KeyOf(t))
         /\ \A i \in OfKey(items, KeyOf(t)) : OfKey(items, KeyOf(t)) = {i}
<1>1. /\ TypeOK /\ FlashInv /\ ControlInv /\ UpInv /\ job.step = "free"
      /\ pc[t] = "lock" /\ call[t].op = op /\ call[t] \in Requests
  BY LockIs
<1>2. KeyOf(t) \in Keys /\ call[t].keys = {KeyOf(t)}
  BY <1>1, KeyIs
<1>3. Candidates(KeyOf(t)) = OfKey(items, KeyOf(t)) /\ \A i \in Candidates(KeyOf(t)) : First(Candidates(KeyOf(t))) = i
  BY <1>1, CandidatesIs DEF OfKey, Normal
<1>4. ItemsLaid(items)
  BY <1>1 DEF FlashInv
<1>5. call[t] # NoCall
  BY <1>1, RequestIs
<1> QED BY <1>2, <1>3, <1>4, <1>5, ViewIs DEF View

(* The calls that write nothing. *)
LEMMA AnswerMap ==
  ASSUME KvInv, ReqInv, NEW t \in Task, Return(t) \/ Get(t) \/ SetSame(t) \/ SetFull(t)
  PROVE  ReqInv' /\ AbsStep
<1>1. CASE Return(t)
  <2>1. job.by = t /\ job.step = "return" /\ Finish(t, "RES_OK") /\ items' = items
    BY <1>1 DEF Return, flash
  <2>2. TypeOK /\ ControlInv /\ pc[t] = "lock" /\ call[t] \in Requests
    BY <2>1, OwnerIs
  <2>3. call[t].op \in {"set", "del"}
    BY <2>1, <2>2 DEF ControlInv
  <2>4. PICK k \in Keys : call[t].keys = {k}
    BY <2>2, <2>3, RequestIs
  <2>5. req[t] \subseteq {<<k, View[k]>>}
    BY <2>1, <2>3, <2>4 DEF ReqInv
  <2>6. Abs!Unmade(req[t], View) = {}
    BY <2>5 DEF Abs!Unmade
  <2>7. Abs!Fits(t, "RES_OK")
    BY <2>3, <2>6, FitsIs
  <2>8. call[t] # NoCall
    BY <2>2, RequestIs
  <2> QED BY <2>1, <2>7, <2>8, AbsAnswer, ReqFinish
<1>2. CASE Get(t)
  <2> DEFINE f == Candidates(KeyOf(t))
             res == IF f = {} THEN "RES_ITEM_NOT_FOUND" ELSE First(f).val
  <2>1. Locks(t, "get") /\ Finish(t, res) /\ items' = items
    BY <1>2 DEF Get, flash
  <2>2. job.by = None /\ call[t].op = "get"
    BY <2>1, LockIs
  <2>3. /\ call[t].keys = {KeyOf(t)} /\ call[t] # NoCall
        /\ f = {} => View[KeyOf(t)] = None
        /\ f # {} => View[KeyOf(t)] = First(f).val /\ View[KeyOf(t)] \in Values
    BY <2>1, FoundIs
  <2> HIDE DEF f
  <2>4. CASE f = {}
    <3>1. Abs!Fits(t, "RES_ITEM_NOT_FOUND") /\ Finish(t, "RES_ITEM_NOT_FOUND")
      BY <2>1, <2>2, <2>3, <2>4, FitsIs
    <3> QED BY <2>1, <2>2, <2>3, <3>1, AbsAnswer, ReqFinish
  <2>5. CASE f # {}
    <3>1. Abs!Fits(t, First(f).val) /\ Finish(t, First(f).val) /\ First(f).val \in Values
      BY <2>1, <2>2, <2>3, <2>5, FitsIs
    <3> QED BY <2>1, <2>2, <2>3, <3>1, AbsAnswer, ReqFinish
  <2> QED BY <2>4, <2>5
<1>3. CASE SetSame(t)
  <2> DEFINE f == Candidates(KeyOf(t))
  <2>1. Locks(t, "set") /\ Finish(t, "RES_OK") /\ items' = items /\ f # {} /\ First(f).val = call[t].val
    BY <1>3 DEF SetSame, Same, flash
  <2>2. job.by = None /\ call[t].op = "set" /\ call[t] \in Requests
    BY <2>1, LockIs
  <2>3. /\ call[t].keys = {KeyOf(t)} /\ call[t] # NoCall /\ View[KeyOf(t)] = call[t].val
    BY <2>1, FoundIs
  <2>4. req[t] = {<<KeyOf(t), call[t].val>>}
    BY <2>2, <2>3, ReqAtLock, OneChange
  <2>5. Abs!Unmade(req[t], View) = {}
    BY <2>3, <2>4 DEF Abs!Unmade
  <2>6. Abs!Fits(t, "RES_OK")
    BY <2>2, <2>5, FitsIs
  <2> QED BY <2>1, <2>2, <2>3, <2>6, AbsAnswer, ReqFinish
<1>4. CASE SetFull(t)
  <2>1. Locks(t, "set") /\ Finish(t, "RES_NO_SPACE") /\ items' = items
    BY <1>4 DEF SetFull, flash
  <2>2. job.by = None /\ call[t].op = "set" /\ call[t] # NoCall
    BY <2>1, LockIs, FoundIs
  <2>3. req[t] = Changes(call[t])
    BY <2>2, ReqAtLock
  <2>4. Abs!Fits(t, "RES_NO_SPACE")
    BY <2>2, <2>3, FitsIs
  <2> QED BY <2>1, <2>2, <2>4, AbsAnswer, ReqFinish
<1> QED BY <1>1, <1>2, <1>3, <1>4

(* What is unmade of one change. *)
LEMMA UnmadeOne ==
  ASSUME NEW k, NEW v, NEW r, r = {<<k, v>>}
  PROVE  /\ ViewOf(items')[k] = v => Unmade(r) = {}
         /\ ViewOf(items')[k] # v => Unmade(r) = r
BY DEF Unmade

(* aos_kv_set writes the item: the change is made, or waits for the delete. *)
LEMMA StoreMap ==
  ASSUME KvInv, ReqInv, NEW t \in Task, SetStore(t), KvInv'
  PROVE  ReqInv' /\ AbsStep
<1> DEFINE k == KeyOf(t)
           v == call[t].val
           f == Candidates(k)
           old == IF f = {} THEN 0 ELSE First(f).pos
           i == Item(write_pos, k, v, old)
<1>1. Locks(t, "set") /\ ~ Same(t)
  BY DEF SetStore
<1>2. /\ TypeOK /\ FlashInv /\ UpInv /\ job.by = None /\ call[t].op = "set" /\ call[t] \in Requests
  BY <1>1, LockIs
<1>3. /\ k \in Keys /\ call[t].keys = {k}
      /\ f = OfKey(items, k)
      /\ f = {} => View[k] = None
      /\ f # {} => View[k] = First(f).val /\ View[k] \in Values /\ First(f) \in OfKey(items, k)
      /\ \A x \in OfKey(items, k) : OfKey(items, k) = {x}
  BY <1>1, FoundIs
<1>4. v \in Values /\ v # None
  BY <1>2, RequestIs, Owners
<1>5. /\ items' = items \cup {i} /\ job' = Job(t, IF f = {} THEN "return" ELSE "delete", old, 0)
      /\ req' = [req EXCEPT ![t] = Unmade(req[t])] /\ UNCHANGED <<call, ans>>
  BY DEF SetStore, WriteItem
<1>6. f # {} => View[k] # v
  BY <1>1, <1>3 DEF Same
<1>7. ItemsLaid(items) /\ ItemsLaid(items')
  BY <1>2 DEF KvInv, FlashInv
<1>8. i.state = "NORMAL" /\ i.key = k /\ i.val = v /\ i.pos = write_pos
  BY DEF Item
<1>9. job'.by = t /\ job'.step = IF f = {} THEN "return" ELSE "delete"
  BY <1>5 DEF Job
<1> HIDE DEF k, v, f, i
<1>10. /\ OfKey(items', k) = f \cup {i}
       /\ \A x \in Keys : x # k => OfKey(items', x) = OfKey(items, x)
  <2>1. i.key = k /\ i.state = "NORMAL"
    BY <1>8
  <2> QED BY <2>1, <1>3, <1>5, KeysAppended
<1>11. req[t] = {<<k, v>>}
  <2>1. Changes(call[t]) = {<<k, call[t].val>>}
    BY <1>2, <1>3, OneChange
  <2> QED BY <1>2, <2>1, ReqAtLock DEF v
<1>12. View = ViewOf(items)
  BY DEF View
<1>13. CASE f = {}
  <2>1. ViewOf(items')[k] = v
    <3>1. i \in OfKey(items', k) /\ \A j \in OfKey(items', k) : j.val = v
      BY <1>8, <1>10, <1>13
    <3> QED BY <1>3, <1>7, <3>1, ViewAgreed
  <2>2. ViewOf(items') = [ViewOf(items) EXCEPT ![k] = v]
    <3>1. OthersSame(items, items', k)
      BY <1>10 DEF OthersSame
    <3> QED BY <1>3, <2>1, <3>1, ViewChange
  <2>3. Unmade(req[t]) = {}
    BY <1>11, <2>1, UnmadeOne
  <2>4. ReqInv'
    BY <1>2, <1>5, <1>9, <1>13, <2>3, ReqOwn
  <2>5. AbsStep
    BY <1>5, <1>11, <2>2, AbsApply
  <2> QED BY <2>4, <2>5
<1>14. CASE f # {}
  <2>1. PICK x \in f : TRUE
    BY <1>14
  <2>2. f = {x} /\ View[k] = x.val
    BY <1>3, <1>14, <2>1
  <2>3. x.pos < write_pos
    <3>1. x \in items /\ Blk(x.pos) = Blk(write_pos)
      BY <1>2, <1>3, <2>1 DEF OfKey, Normal, UpInv
    <3>2. Blk(write_pos) \in Blocks /\ write_pos = FreePos(items, Blk(write_pos))
      BY <1>2 DEF UpInv
    <3>3. x.pos + x.len <= write_pos /\ write_pos \in Nat
      BY <1>7, <3>1, <3>2, FreePosIs
    <3>4. x.pos \in Nat /\ x.len \in Nat /\ x.len > 0
      BY <1>7, <3>1, LaidItem
    <3> QED BY <3>3, <3>4
  <2>4. ViewOf(items')[k] = x.val
    <3>1. x \in OfKey(items', k) /\ \A j \in OfKey(items', k) : j = x \/ x.pos < j.pos
      BY <1>8, <1>10, <2>2, <2>3
    <3> QED BY <1>3, <1>7, <3>1, ViewFirst
  <2>5. ViewOf(items') = ViewOf(items)
    <3>1. \A y \in Keys : y # k => ViewOf(items')[y] = ViewOf(items)[y]
      BY <1>10, ViewSame
    <3>2. ViewOf(items')[k] = ViewOf(items)[k]
      BY <1>12, <2>2, <2>4
    <3> QED BY <3>1, <3>2, ViewEqual
  <2>6. Unmade(req[t]) = req[t]
    <3>1. ViewOf(items')[k] # v
      BY <1>6, <1>14, <2>2, <2>4
    <3> QED BY <1>11, <3>1, UnmadeOne
  <2>7. req' = req
    BY <1>5, <2>6 DEF ReqInv
  <2>8. ReqInv'
    <3>1. Unmade(req[t]) = Changes(call[t])
      BY <1>2, <2>6, ReqAtLock
    <3> QED BY <1>2, <1>5, <1>9, <1>14, <3>1, ReqOwn
  <2>9. AbsStep
    BY <1>5, <2>5, <2>7, AbsSame
  <2> QED BY <2>8, <2>9
<1> QED BY <1>13, <1>14


(* An item of a key is deleted: the others agree on the value, or there is none. *)
LEMMA ViewDeleted ==
  ASSUME ItemsLaid(items), ItemsLaid(items'), NEW i \in items, i.state = "NORMAL",
         items' = Deleted(items, i), NEW v,
         \/ OfKey(items, i.key) = {i} /\ v = None
         \/ /\ \E j \in OfKey(items, i.key) : j # i
            /\ \A j \in OfKey(items, i.key) : j # i => j.val = v
  PROVE  i.key \in Keys /\ ViewOf(items')[i.key] = v /\ ViewOf(items') = [ViewOf(items) EXCEPT ![i.key] = v]
<1> DEFINE k == i.key
<1>1. k \in Keys
  BY LaidItem
<1>2. /\ OfKey(items', k) = OfKey(items, k) \ {i}
      /\ \A x : x # k => OfKey(items', x) = OfKey(items, x)
  BY KeysDeleted
<1> HIDE DEF k
<1>3. ASSUME OfKey(items, k) = {i}, v = None PROVE ViewOf(items')[k] = v
  <2>1. OfKey(items', k) = {}
    BY <1>2, <1>3
  <2> QED BY <1>1, <1>3, <2>1, ViewIs
<1>4. ASSUME NEW j \in OfKey(items, k), j # i, \A x \in OfKey(items, k) : x # i => x.val = v
      PROVE  ViewOf(items')[k] = v
  <2>1. j \in OfKey(items', k) /\ \A x \in OfKey(items', k) : x.val = v
    BY <1>2, <1>4
  <2>2. /\ First(OfKey(items', k)) \in OfKey(items', k)
        /\ ViewOf(items')[k] = First(OfKey(items', k)).val
    BY <1>1, <2>1, ViewIs
  <2> QED BY <2>1, <2>2
<1>5. ViewOf(items')[k] = v
  BY <1>3, <1>4 DEF k
<1>6. ViewOf(items') = [ViewOf(items) EXCEPT ![k] = v]
  <2>1. OthersSame(items, items', k)
    BY <1>2 DEF OthersSame
  <2> QED BY <1>1, <1>5, <2>1, ViewChange
<1> QED BY <1>1, <1>5, <1>6 DEF k

(* aos_kv_set deletes the old item: now the change is made. *)
LEMMA SetDeleteMap ==
  ASSUME KvInv, ReqInv, NEW t \in Task, SetDelete(t), KvInv'
  PROVE  ReqInv' /\ AbsStep
<1>1. /\ job.by = t /\ job.step = "delete" /\ req' = [req EXCEPT ![t] = Unmade(req[t])]
      /\ UNCHANGED <<call, ans>>
  BY DEF SetDelete
<1>2. TypeOK /\ FlashInv /\ ControlInv /\ UpInv /\ call[t] \in Requests
  BY <1>1, OwnerIs
<1>3. PICK i \in items, j \in items :
        /\ Twins(i, j) /\ i.key \in call[t].keys /\ j.val = call[t].val
        /\ \A x, y \in items : Twins(x, y) => x = i
        /\ items' = Deleted(items, i)
        /\ job' = IF info[Blk(i.pos)].state = "USED"
                  THEN [job EXCEPT !.step = "mark", !.mark = Blk(i.pos)]
                  ELSE [job EXCEPT !.step = "return"]
  BY SetDeleteIs
<1>4. call[t].op = "set"
  BY <1>1, <1>2 DEF ControlInv
<1>5. call[t].keys = {i.key}
  BY <1>2, <1>3, <1>4, RequestIs
<1>6. ItemsLaid(items) /\ ItemsLaid(items')
  BY <1>2 DEF KvInv, FlashInv
<1>7. i.state = "NORMAL" /\ j.state = "NORMAL" /\ i.key = j.key /\ i.pos < j.pos
  BY <1>3 DEF Twins
<1>8. ASSUME NEW x \in OfKey(items, i.key), x # i PROVE x.val = call[t].val
  <2>1. x \in items /\ x.state = "NORMAL" /\ x.key = i.key
    BY DEF OfKey, Normal
  <2>2. x.pos \in Nat /\ j.pos \in Nat /\ i.pos \in Nat /\ (x.pos = j.pos => x = j)
    BY <1>6, <2>1, LaidItem DEF ItemsLaid
  <2>3. j # i
    BY <1>7, <2>2
  <2>4. ~ Twins(x, j) /\ ~ Twins(j, x)
    BY <1>3, <1>8, <2>1, <2>3
  <2>5. x = j
    BY <1>7, <2>1, <2>2, <2>4 DEF Twins
  <2> QED BY <1>3, <2>5
<1>9. j \in OfKey(items, i.key) /\ j # i
  <2>1. j.pos \in Nat /\ i.pos \in Nat
    BY <1>6, LaidItem
  <2> QED BY <1>7, <2>1 DEF OfKey, Normal
<1>10. /\ ViewOf(items')[i.key] = call[t].val
       /\ ViewOf(items') = [ViewOf(items) EXCEPT ![i.key] = call[t].val]
  BY <1>3, <1>6, <1>7, <1>8, <1>9, ViewDeleted
<1>11. req[t] = {<<i.key, call[t].val>>}
  <2>1. req[t] = Changes(call[t])
    BY <1>1, <1>4 DEF ReqInv
  <2> QED BY <1>4, <1>5, <2>1, OneChange
<1>12. Unmade(req[t]) = {}
  BY <1>10, <1>11, UnmadeOne
<1>13. job'.by = t /\ job'.step \in {"mark", "return"}
  <2>1. job \in [by : Task \cup {None, "gc", "boot"}, step : Steps, pos : Nat, blk : Blocks,
                 mark : Blocks, unclean : SUBSET Blocks]
    BY <1>2 DEF ControlInv
  <2> QED BY <1>1, <1>3, <2>1
<1>14. ReqInv'
  BY <1>1, <1>4, <1>12, <1>13, ReqOwn
<1>15. AbsStep
  <2>1. PICK k, v : k = i.key /\ v = call[t].val
    OBVIOUS
  <2>2. <<k, v>> \in req[t] /\ ViewOf(items') = [ViewOf(items) EXCEPT ![k] = v]
    BY <1>10, <1>11, <2>1
  <2> QED BY <1>1, <2>2, AbsApply
<1> QED BY <1>14, <1>15

(* aos_kv_del. *)
LEMMA DelMap ==
  ASSUME KvInv, ReqInv, NEW t \in Task, Del(t), KvInv'
  PROVE  ReqInv' /\ AbsStep
<1> DEFINE k == KeyOf(t)
<1>1. Locks(t, "del")
  BY DEF Del
<1>2. TypeOK /\ FlashInv /\ UpInv /\ job.by = None /\ call[t].op = "del" /\ call[t] \in Requests
  BY <1>1, LockIs
<1>3. /\ k \in Keys /\ call[t].keys = {k} /\ call[t] # NoCall
      /\ \A i \in OfKey(items, k) : OfKey(items, k) = {i}
  BY <1>1, FoundIs
<1>4. ItemsLaid(items) /\ ItemsLaid(items')
  BY <1>2 DEF KvInv, FlashInv
<1>5. CASE /\ {i \in items : i.state = "NORMAL" /\ i.key = k} = {}
           /\ Finish(t, "RES_ITEM_NOT_FOUND")
           /\ UNCHANGED <<flash, info, clean_blk_nums, write_pos, gcVars, counters>>
  <2>1. OfKey(items, k) = {}
    BY <1>5 DEF OfKey, Normal
  <2>2. View[k] = None
    BY <1>3, <1>4, <2>1, ViewIs DEF View
  <2>3. Abs!Fits(t, "RES_ITEM_NOT_FOUND")
    BY <1>2, <1>3, <2>2, FitsIs
  <2>4. items' = items
    BY <1>5 DEF flash
  <2> QED BY <1>2, <1>3, <1>5, <2>3, <2>4, AbsAnswer, ReqFinish
<1>6. ASSUME UNCHANGED <<hdr, info, clean_blk_nums, write_pos, gcVars, pc, call, ans, counters>>,
             req' = [req EXCEPT ![t] = Unmade(req[t])],
             NEW i \in items, i.state = "NORMAL", i.key = k, items' = Deleted(items, i),
             job' = IF info[Blk(i.pos)].state = "USED"
                    THEN [Job(t, "delete", 0, 0) EXCEPT !.step = "mark", !.mark = Blk(i.pos)]
                    ELSE [Job(t, "delete", 0, 0) EXCEPT !.step = "return"]
      PROVE  ReqInv' /\ AbsStep
  <2>1. OfKey(items, i.key) = {i}
    BY <1>3, <1>6 DEF OfKey, Normal
  <2>2. /\ ViewOf(items')[i.key] = None /\ ViewOf(items') = [ViewOf(items) EXCEPT ![i.key] = None]
    BY <1>4, <1>6, <2>1, ViewDeleted
  <2>3. req[t] = {<<i.key, None>>}
    <3>1. Changes(call[t]) = {<<k, call[t].val>>} /\ call[t].val = None
      BY <1>2, <1>3, OneChange, RequestIs
    <3> QED BY <1>2, <1>6, <3>1, ReqAtLock
  <2>4. Unmade(req[t]) = {}
    BY <2>2, <2>3, UnmadeOne
  <2>5. job'.by = t /\ job'.step \in {"mark", "return"}
    BY <1>6 DEF Job
  <2>6. ReqInv'
    BY <1>2, <1>6, <2>4, <2>5, ReqOwn
  <2>7. AbsStep
    BY <1>6, <2>2, <2>3, AbsApply
  <2> QED BY <2>6, <2>7
<1> QED BY <1>5, <1>6, DelIs

(* aos_kv_del_by_prefix: one key after the other. *)
LEMMA PrefixMap ==
  ASSUME KvInv, ReqInv, NEW t \in Task, DelByPrefix(t), KvInv'
  PROVE  ReqInv' /\ AbsStep
<1>1. /\ TypeOK /\ FlashInv /\ ControlInv /\ UpInv
      /\ job.by \in {t, None} /\ job.step \in {"free", "prefix"}
      /\ call[t].op = "prefix" /\ call[t] \in Requests
  BY PrefixIs
<1>2. ItemsLaid(items) /\ ItemsLaid(items')
  BY <1>1 DEF KvInv, FlashInv
<1>3. call[t].keys \subseteq Keys /\ call[t].val = None /\ call[t] # NoCall
  BY <1>1, RequestIs
<1>4. \A x, v : <<x, v>> \in Changes(call[t]) <=> x \in call[t].keys /\ v = None
  BY <1>1, <1>3, ChangesIs
<1>5. \A d \in Changes(call[t]) : \E x \in call[t].keys : d = <<x, None>>
  BY <1>1, <1>3, ChangesIs
<1>6. /\ req[t] \subseteq Changes(call[t])
      /\ \A x \in call[t].keys : View[x] # None => <<x, None>> \in req[t]
  <2>1. CASE job.by = t
    BY <1>1, <2>1 DEF ReqInv
  <2>2. CASE job.by = None
    BY <1>4, <2>2, ReqAtLock
  <2> QED BY <1>1, <2>1, <2>2
<1>7. CASE /\ WithPrefix(call[t].keys) = {} /\ Finish(t, "RES_OK")
           /\ UNCHANGED <<flash, info, clean_blk_nums, write_pos, gcVars, counters>>
  <2>1. \A x \in call[t].keys : View[x] = None
    <3>1. \A x \in call[t].keys : OfKey(items, x) = {}
      BY <1>7 DEF WithPrefix, OfKey
    <3> QED BY <1>2, <1>3, <3>1, ViewIs DEF View
  <2>2. Abs!Unmade(req[t], View) = {}
    BY <1>5, <1>6, <2>1 DEF Abs!Unmade
  <2>3. Abs!Fits(t, "RES_OK")
    BY <1>1, <2>2, FitsIs
  <2>4. items' = items
    BY <1>7 DEF flash
  <2> QED BY <1>1, <1>3, <1>7, <2>3, <2>4, AbsAnswer, ReqFinish
<1>8. ASSUME UNCHANGED <<hdr, info, clean_blk_nums, write_pos, gcVars, pc, call, ans, counters>>,
             req' = [req EXCEPT ![t] = Unmade(req[t])],
             NEW i \in items, i.state = "NORMAL", i.key \in call[t].keys, items' = Deleted(items, i),
             job' = IF info[Blk(i.pos)].state = "USED"
                    THEN [Job(t, "prefix", 0, 0) EXCEPT !.step = "mark", !.mark = Blk(i.pos)]
                    ELSE [Job(t, "prefix", 0, 0) EXCEPT !.step = "prefix"]
      PROVE  ReqInv' /\ AbsStep
  <2>1. OfKey(items, i.key) = {i}
    <3>1. ASSUME NEW x \in OfKey(items, i.key) PROVE x = i
      <4>1. x \in items /\ x.state = "NORMAL" /\ x.key = i.key
        BY DEF OfKey, Normal
      <4>2. x.pos \in Nat /\ i.pos \in Nat /\ (x.pos = i.pos => x = i)
        BY <1>2, <4>1, LaidItem DEF ItemsLaid
      <4>3. ~ Twins(x, i) /\ ~ Twins(i, x)
        BY <1>1, <4>1 DEF UpInv
      <4> QED BY <1>8, <4>1, <4>2, <4>3 DEF Twins
    <3>2. i \in OfKey(items, i.key)
      BY <1>8 DEF OfKey, Normal
    <3> QED BY <3>1, <3>2
  <2>2. /\ i.key \in Keys
        /\ ViewOf(items')[i.key] = None /\ ViewOf(items') = [ViewOf(items) EXCEPT ![i.key] = None]
    BY <1>2, <1>8, <2>1, ViewDeleted
  <2>3. <<i.key, None>> \in req[t]
    <3>1. View[i.key] # None
      BY <1>2, <2>1, <2>2, ViewIs DEF View
    <3> QED BY <1>6, <1>8, <3>1
  <2>4. Unmade(req[t]) \subseteq req[t]
    BY DEF Unmade
  <2>5. ASSUME NEW x \in call[t].keys, ViewOf(items')[x] # None PROVE <<x, None>> \in Unmade(req[t])
    <3>1. x # i.key /\ x \in Keys
      BY <1>3, <2>2, <2>5
    <3>2. ViewOf(items')[x] = ViewOf(items)[x]
      <4>1. \A y : y # i.key => OfKey(items', y) = OfKey(items, y)
        BY <1>8, KeysDeleted
      <4> QED BY <3>1, <4>1, ViewSame
    <3>3. <<x, None>> \in req[t]
      BY <1>6, <2>5, <3>2 DEF View
    <3> QED BY <2>5, <3>3 DEF Unmade
  <2>6. job'.by = t
    BY <1>8 DEF Job
  <2>7. ReqInv'
    <3>1. Unmade(req[t]) \subseteq Changes(call[t])
      BY <1>6, <2>4
    <3> QED BY <1>1, <1>8, <2>5, <2>6, <3>1, ReqOwn
  <2>8. AbsStep
    BY <1>8, <2>2, <2>3, AbsApply
  <2> QED BY <2>7, <2>8
<1> QED BY <1>7, <1>8, PrefixIs

(* The end of kv_item_del. *)
LEMMA MarkMap ==
  ASSUME KvInv, ReqInv, MarkDirty
  PROVE  ReqInv' /\ AbsStep
<1>1. /\ job.step = "mark" /\ job' = [job EXCEPT !.step = AfterMark]
      /\ UNCHANGED <<items, call, req, ans>>
  BY DEF MarkDirty
<1>2. AfterMark # "delete"
  BY DEF AfterMark
<1>3. job'.by = job.by /\ job'.step # "delete" /\ job.step # "delete"
  <2>1. job \in [by : Task \cup {None, "gc", "boot"}, step : Steps, pos : Nat, blk : Blocks,
                 mark : Blocks, unclean : SUBSET Blocks]
    BY DEF KvInv, ControlInv
  <2> HIDE DEF AfterMark
  <2> QED BY <1>1, <1>2, <2>1
<1>4. View' = View
  BY <1>1 DEF View
<1>5. ReqInv'
  BY <1>1, <1>3, <1>4 DEF ReqInv
<1> QED BY <1>1, <1>5, AbsSame


-----------------------------------------------------------------------------
(* Power failures. *)

(* The NORMAL items of a block. *)
LEMMA NormalIn ==
  ASSUME NEW its, NEW b
  PROVE  \A i : i \in Normal(InBlock(its, b)) <=> i \in its /\ i.state = "NORMAL" /\ Blk(i.pos) = b
BY DEF Normal, InBlock

(* The update a failure cuts off is one of the calls under way. *)
LEMMA UpdateIs ==
  ASSUME KvInv, ReqInv, job.by \in Task \cup {None},
         NEW i \in items, NEW j \in items, Twins(i, j)
  PROVE  \E t \in Task : <<i.key, j.val>> \in req[t]
<1>1. TypeOK /\ FlashInv /\ ControlInv /\ UpInv /\ ItemsLaid(items)
  BY DEF KvInv, FlashInv
<1>2. job.step = "delete" /\ i.pos = job.pos
  BY <1>1 DEF UpInv
<1>3. PICK x \in items, y \in items : /\ Twins(x, y) /\ x.pos = job.pos
                                      /\ x.key \in call[job.by].keys /\ y.val = call[job.by].val
  BY <1>1, <1>2 DEF UpInv
<1>4. x = i
  BY <1>1, <1>2, <1>3 DEF ItemsLaid
<1>5. i.state = "NORMAL" /\ j.state = "NORMAL" /\ y.state = "NORMAL" /\ i.key = j.key /\ i.key = y.key
      /\ i.pos < j.pos /\ i.pos < y.pos
  BY <1>3, <1>4 DEF Twins
<1>6. y = j
  <2>1. y.pos \in Nat /\ j.pos \in Nat /\ i.pos \in Nat /\ (y.pos = j.pos => y = j)
    BY <1>1, LaidItem DEF ItemsLaid
  <2>2. ~ Twins(y, j) /\ ~ Twins(j, y)
    BY <1>1, <1>2, <1>5, <2>1 DEF UpInv
  <2> QED BY <1>5, <2>1, <2>2 DEF Twins
<1>7. job.by \in Task
  <2>1. job.by # None
    BY <1>1, <1>2, Owners DEF ControlInv
  <2> QED BY <2>1
<1>8. call[job.by].op = "set" /\ call[job.by] \in Requests
  <2>1. call[job.by].op = "set"
    BY <1>1, <1>2, <1>7 DEF ControlInv
  <2> QED BY <1>7, <2>1, OwnerIs
<1>9. req[job.by] = Changes(call[job.by])
  BY <1>2, <1>7, <1>8 DEF ReqInv
<1>10. <<i.key, j.val>> \in Changes(call[job.by])
  BY <1>3, <1>4, <1>6, <1>8, ChangesIs
<1> QED BY <1>7, <1>9, <1>10

(* What kv_init will find: an update cut off, or a collection cut off whose copies do not
   point to their originals. *)
LEMMA FailMap ==
  ASSUME KvInv, ReqInv, RecoverInv, RamLost, hdr' = hdr, Normal(items') = Normal(items), ~ StaleCopy
  PROVE  ReqInv' /\ RecoverInv' /\ AbsStep
<1>1. ReqInv' /\ \A o \in Task \cup {None} : req[o] \subseteq req'[None]
  BY ReqLost
<1>2. AbsStep
  BY AbsFail, ViewUnseen
<1>3. \A i : i \in items' /\ i.state = "NORMAL" <=> i \in items /\ i.state = "NORMAL"
  BY DEF Normal
<1>4. job.by \in Task \cup {None, "gc", "boot"}
  BY DEF KvInv, TypeOK
<1>5. ASSUME NEW i \in items', NEW j \in items', Twins(i, j), Blk(i.pos) = Blk(j.pos)
      PROVE  i.val = j.val \/ <<i.key, j.val>> \in req'[None]
  <2>1. i \in items /\ j \in items
    BY <1>3, <1>5 DEF Twins
  <2>2. CASE job.by = "boot"
    BY <1>1, <1>5, <2>1, <2>2 DEF RecoverInv, Updates
  <2>3. CASE job.by = "gc"
    BY <1>5, <2>1, <2>3 DEF KvInv, GcInv
  <2>4. CASE job.by \in Task \cup {None}
    BY <1>1, <1>5, <2>1, <2>4, UpdateIs
  <2> QED BY <1>4, <2>2, <2>3, <2>4
<1>6. ASSUME NEW c \in Blocks, NEW u \in Blocks, hdr[c] = "CLEAN", hdr[u] = "DIRTY",
             NEW x \in items, x.state = "NORMAL", Blk(x.pos) = c
      PROVE  \E i \in items :
               /\ i.state = "NORMAL" /\ Blk(i.pos) = u
               /\ i.key = x.key /\ i.val = x.val /\ x.origin # i.pos
               /\ \A j \in items : j.state = "NORMAL" /\ Blk(j.pos) = u /\ j.key = x.key => j = i
  <2>1. CASE job.by = "boot"
    <3>1. x \in Normal(InBlock(items, c))
      BY <1>6, NormalIn
    <3>2. PICK i \in Normal(InBlock(items, u)) :
             /\ i.key = x.key /\ i.val = x.val /\ x.origin # i.pos
             /\ \A j \in Normal(InBlock(items, u)) : j.key = x.key => j = i
      BY <1>6, <2>1, <3>1 DEF RecoverInv, Copies
    <3> QED BY <3>2, NormalIn
  <2>2. CASE job.by = "gc"
    <3>1. GcInv /\ ItemsLaid(items)
      BY <2>2 DEF KvInv, FlashInv
    <3>2. job.step \in {"copy", "format", "use"} /\ Blk(write_pos) \in Blocks /\ job.blk \in Blocks
          /\ Blk(write_pos) # job.blk /\ hdr[Blk(write_pos)] = "CLEAN"
      BY <2>2, <3>1 DEF KvInv, ControlInv, GcInv
    <3>3. u = job.blk /\ job.step = "copy"
      <4>1. u # Blk(write_pos)
        BY <1>6, <3>2
      <4>2. u = job.blk
        BY <3>2, <4>1, Sizes
      <4>3. job.step # "copy" => hdr[job.blk] \in {"BAD", "CLEAN"}
        BY <3>1, <3>2 DEF GcInv
      <4> QED BY <1>6, <4>2, <4>3
    <3>4. c = Blk(write_pos)
      <4>1. c # u
        BY <1>6
      <4> QED BY <3>2, <3>3, <4>1, Sizes
    <3>5. x \in InBlock(items, Blk(write_pos))
      BY <1>6, <3>4 DEF InBlock
    <3>6. PICK i \in Normal(InBlock(items, job.blk)) :
             i.key = x.key /\ i.val = x.val /\ i.origin = x.origin /\ i.pos <= job.pos
      BY <3>1, <3>3, <3>5 DEF GcInv
    <3>7. i \in items /\ i.state = "NORMAL" /\ Blk(i.pos) = u
      BY <3>3, <3>6, NormalIn
    <3>8. x.origin # i.pos
      BY <2>2, <3>3, <3>6 DEF StaleCopy
    <3>9. ASSUME NEW j \in items, j.state = "NORMAL", Blk(j.pos) = u, j.key = x.key PROVE j = i
      <4>1. ~ Twins(i, j) /\ ~ Twins(j, i)
        BY <3>1, <3>7, <3>9 DEF GcInv
      <4>2. i.pos \in Nat /\ j.pos \in Nat /\ (i.pos = j.pos => i = j)
        BY <3>1, <3>7, LaidItem DEF ItemsLaid
      <4> QED BY <3>6, <3>7, <3>9, <4>1, <4>2 DEF Twins
    <3> QED BY <3>6, <3>7, <3>8, <3>9
  <2>3. CASE job.by \in Task \cup {None}
    <3>1. hdr[Blk(x.pos)] \in {"USED", "DIRTY"}
      BY <2>3 DEF KvInv, UpInv
    <3> QED BY <1>6, <3>1
  <2> QED BY <1>4, <2>1, <2>2, <2>3
<1>7. ASSUME NEW c \in Blocks, NEW u \in Blocks, hdr'[c] = "CLEAN", hdr'[u] = "DIRTY",
             NEW x \in Normal(InBlock(items', c))
      PROVE  \E i \in Normal(InBlock(items', u)) :
               /\ i.key = x.key /\ i.val = x.val /\ x.origin # i.pos
               /\ \A j \in Normal(InBlock(items', u)) : j.key = x.key => j = i
  <2>1. x \in items /\ x.state = "NORMAL" /\ Blk(x.pos) = c
    BY <1>3, <1>7, NormalIn
  <2>2. PICK i \in items :
               /\ i.state = "NORMAL" /\ Blk(i.pos) = u
               /\ i.key = x.key /\ i.val = x.val /\ x.origin # i.pos
               /\ \A j \in items : j.state = "NORMAL" /\ Blk(j.pos) = u /\ j.key = x.key => j = i
    BY <1>6, <1>7, <2>1
  <2> QED BY <1>3, <2>2, NormalIn
<1> QED BY <1>1, <1>2, <1>5, <1>7 DEF RecoverInv, Updates, Copies


(* The four ways in which the RAM is lost. *)
LEMMA FailsMap ==
  ASSUME FailInCopy = FALSE, KvInv, ReqInv, RecoverInv,
         PowerFail \/ Deinit \/ GcTorn \/ \E t \in Task : SetTorn(t)
  PROVE  ReqInv' /\ RecoverInv' /\ AbsStep
<1>1. CASE PowerFail
  <2>1. RamLost /\ hdr' = hdr /\ items' = items /\ ~ StaleCopy
    BY <1>1 DEF PowerFail, FailAllowed, flash
  <2> QED BY <2>1, FailMap
<1>2. CASE Deinit
  <2>1. RamLost /\ hdr' = hdr /\ items' = items /\ job.by = None
    BY <1>2, Owners DEF Deinit, flash
  <2>2. ~ StaleCopy
    BY <2>1, Owners DEF StaleCopy
  <2> QED BY <2>1, <2>2, FailMap
<1>3. ASSUME NEW len, TornWrite(len) PROVE ReqInv' /\ RecoverInv' /\ AbsStep
  <2>1. RamLost /\ hdr' = hdr /\ ~ StaleCopy
    BY <1>3 DEF TornWrite, FailAllowed
  <2>2. Normal(items') = Normal(items)
    <3>1. PICK i : /\ i = Rest("HOLE", write_pos, ITEM_HDR_SIZE) \/ i = Rest("TORN", write_pos, len)
                   /\ items' = items \cup {i}
      BY <1>3 DEF TornWrite, WriteItem
    <3>2. i.state # "NORMAL"
      BY <3>1 DEF Rest
    <3> QED BY <3>1, <3>2 DEF Normal
  <2> QED BY <2>1, <2>2, FailMap
<1> QED BY <1>1, <1>2, <1>3 DEF GcTorn, SetTorn

-----------------------------------------------------------------------------
(* The collector is not to be seen. *)

(* Items go, and for each there is another one and all of the key agree. *)
LEMMA ViewKept ==
  ASSUME NEW its, ItemsLaid(its), NEW new, ItemsLaid(new), new \subseteq its,
         \A x \in Normal(its) : x \in new \/
           \E i \in Normal(new) : i.key = x.key /\ \A j \in Normal(its) : j.key = x.key => j.val = i.val
  PROVE  ViewOf(new) = ViewOf(its)
<1>1. ASSUME NEW k \in Keys PROVE ViewOf(new)[k] = ViewOf(its)[k]
  <2>1. OfKey(new, k) \subseteq OfKey(its, k)
    BY DEF OfKey, Normal
  <2>2. CASE OfKey(new, k) = OfKey(its, k)
    BY <2>2, ViewSame
  <2>3. CASE OfKey(new, k) # OfKey(its, k)
    <3>1. PICK x \in OfKey(its, k) : x \notin OfKey(new, k)
      BY <2>1, <2>3
    <3>2. x \in Normal(its) /\ x.key = k /\ x \notin new
      BY <3>1 DEF OfKey, Normal
    <3>3. PICK i \in Normal(new) : i.key = x.key /\ \A j \in Normal(its) : j.key = x.key => j.val = i.val
      BY <3>2
    <3>4. i \in OfKey(new, k) /\ \A j \in OfKey(its, k) : j.val = i.val
      BY <3>2, <3>3 DEF OfKey
    <3>5. i \in OfKey(its, k) /\ \A j \in OfKey(new, k) : j.val = i.val
      BY <2>1, <3>4
    <3>6. ViewOf(new)[k] = i.val
      BY <3>4, <3>5, ViewAgreed
    <3>7. ViewOf(its)[k] = i.val
      BY <3>4, <3>5, ViewAgreed
    <3> QED BY <3>6, <3>7
  <2> QED BY <2>2, <2>3
<1> QED BY <1>1, ViewEqual

(* Original and copy agree. *)
LEMMA CopiesAgree ==
  ASSUME KvInv, job.by = "gc", job.step = "copy",
         NEW i \in items, NEW j \in items, i.state = "NORMAL", j.state = "NORMAL", i.key = j.key
  PROVE  i.val = j.val
<1> DEFINE b == job.blk
           c == Blk(write_pos)
<1>1. FlashInv /\ GcInv /\ ItemsLaid(items)
  BY DEF KvInv, FlashInv
<1>2. b \in Blocks /\ c \in Blocks /\ c # b
  BY <1>1 DEF KvInv, ControlInv, GcInv
<1>3. ASSUME NEW x \in items, x.state = "NORMAL"
      PROVE  \E o \in items : /\ o.state = "NORMAL" /\ Blk(o.pos) = b
                              /\ o.key = x.key /\ o.val = x.val
  <2>1. Blk(x.pos) \in Blocks
    BY <1>1, LaidItem
  <2>2. CASE Blk(x.pos) = b
    BY <1>3, <2>2
  <2>3. CASE Blk(x.pos) = c
    <3>1. x \in InBlock(items, c)
      BY <2>3 DEF InBlock
    <3>2. \E o \in Normal(InBlock(items, b)) : o.key = x.key /\ o.val = x.val
      BY <1>1, <3>1 DEF GcInv
    <3> QED BY <3>2, NormalIn
  <2> QED BY <1>2, <2>1, <2>2, <2>3, Sizes
<1>4. PICK o \in items : o.state = "NORMAL" /\ Blk(o.pos) = b /\ o.key = i.key /\ o.val = i.val
  BY <1>3
<1>5. PICK p \in items : p.state = "NORMAL" /\ Blk(p.pos) = b /\ p.key = j.key /\ p.val = j.val
  BY <1>3
<1>6. o = p
  <2>1. ~ Twins(o, p) /\ ~ Twins(p, o)
    BY <1>1, <1>4, <1>5 DEF GcInv
  <2>2. o.pos \in Nat /\ p.pos \in Nat /\ (o.pos = p.pos => o = p)
    BY <1>1, LaidItem DEF ItemsLaid
  <2> QED BY <1>4, <1>5, <2>1, <2>2 DEF Twins
<1> QED BY <1>4, <1>5, <1>6

(* An item more with a key and a value that is there. *)
LEMMA CopyView ==
  ASSUME KvInv, GcCopy, KvInv'
  PROVE  ViewOf(items') = ViewOf(items)
<1> DEFINE i == First(GcLeft)
           y == [i EXCEPT !.pos = write_pos]
<1>1. job.by = "gc" /\ job.step = "copy" /\ GcLeft # {} /\ items' = items \cup {y}
  BY DEF GcCopy, WriteItem
<1>2. i \in items /\ i.state = "NORMAL"
  BY <1>1, CopyIs
<1>3. ItemsLaid(items) /\ ItemsLaid(items')
  BY DEF KvInv, FlashInv
<1>4. i.key \in Keys /\ i \in ItemType
  BY <1>2, <1>3, LaidItem
<1>5. y.state = "NORMAL" /\ y.key = i.key /\ y.val = i.val
  BY <1>2, <1>4 DEF ItemType
<1> HIDE DEF i, y
<1>6. /\ OfKey(items', i.key) = OfKey(items, i.key) \cup {y}
      /\ \A x : x # i.key => OfKey(items', x) = OfKey(items, x)
  BY <1>1, <1>5, KeysAppended
<1>7. i \in OfKey(items, i.key) /\ \A j \in OfKey(items, i.key) : j.val = i.val
  BY <1>1, <1>2, CopiesAgree DEF OfKey, Normal
<1>8. ViewOf(items)[i.key] = i.val
  BY <1>3, <1>4, <1>7, ViewAgreed
<1>9. ViewOf(items')[i.key] = i.val
  <2>1. i \in OfKey(items', i.key) /\ \A j \in OfKey(items', i.key) : j.val = i.val
    BY <1>5, <1>6, <1>7
  <2> QED BY <1>3, <1>4, <2>1, ViewAgreed
<1>10. ASSUME NEW k \in Keys PROVE ViewOf(items')[k] = ViewOf(items)[k]
  <2>1. CASE k = i.key
    BY <1>8, <1>9, <2>1
  <2>2. CASE k # i.key
    BY <1>6, <2>2, ViewSame
  <2> QED BY <2>1, <2>2
<1> QED BY <1>10, ViewEqual

(* The source goes when everything of it is copied. *)
LEMMA EraseView ==
  ASSUME KvInv, GcErase, KvInv'
  PROVE  ViewOf(items') = ViewOf(items)
<1> DEFINE b == job.blk
           c == Blk(write_pos)
<1>1. job.by = "gc" /\ job.step = "copy" /\ GcLeft = {} /\ items' = items \ InBlock(items, b)
  BY DEF GcErase, Erase
<1>2. FlashInv /\ GcInv /\ ItemsLaid(items) /\ ItemsLaid(items') /\ job.pos \in Nat
  BY <1>1 DEF KvInv, FlashInv, ControlInv
<1>3. c # b
  BY <1>2 DEF GcInv
<1>4. ASSUME NEW x \in Normal(items), x \notin items'
      PROVE  \E i \in Normal(items') : i.key = x.key /\ \A j \in Normal(items) : j.key = x.key => j.val = i.val
  <2>1. x \in items /\ x.state = "NORMAL" /\ Blk(x.pos) = b
    BY <1>1, <1>4 DEF Normal, InBlock
  <2>2. x \in Normal(InBlock(items, b)) /\ x.pos \in Nat
    BY <1>2, <2>1, NormalIn, LaidItem
  <2>3. x.pos <= job.pos
    BY <1>1, <1>2, <2>2 DEF GcLeft
  <2>4. PICK i \in InBlock(items, c) : i.key = x.key /\ i.val = x.val
    BY <1>1, <1>2, <2>2, <2>3 DEF GcInv
  <2>5. i \in items /\ Blk(i.pos) = c
    BY DEF InBlock
  <2>6. i.state = "NORMAL"
    BY <1>2, <2>5 DEF GcInv
  <2>7. i \in Normal(items')
    BY <1>1, <1>3, <2>5, <2>6 DEF Normal, InBlock
  <2>8. \A j \in Normal(items) : j.key = x.key => j.val = i.val
    BY <1>1, <2>1, <2>4, CopiesAgree DEF Normal
  <2> QED BY <2>4, <2>7, <2>8
<1>5. items' \subseteq items
  BY <1>1
<1> QED BY <1>2, <1>4, <1>5, ViewKept

(* The steps of the collector. *)
LEMMA GcMap ==
  ASSUME KvInv, ReqInv, GcStart \/ GcCopy \/ GcErase \/ GcFormat \/ GcUse, KvInv'
  PROVE  ReqInv' /\ AbsStep /\ job'.by # "boot"
<1>1. job.by \in {None, "gc"} /\ job'.by \in {None, "gc"}
  <2>1. CASE GcStart
    <3>1. job = Free /\ (job' = Free \/ \E b \in GcSources : job' = Job("gc", "copy", Start(b), b))
      BY <2>1 DEF GcStart, GcExit
    <3> QED BY <3>1, Owners DEF Job
  <2>2. CASE GcCopy \/ GcErase \/ GcFormat
    <3>1. job.by = "gc" /\ \E p, s : job' = [job EXCEPT !.pos = p] \/ job' = [job EXCEPT !.step = s]
      BY <2>2 DEF GcCopy, GcErase, GcFormat
    <3>2. job \in [by : Task \cup {None, "gc", "boot"}, step : Steps, pos : Nat, blk : Blocks,
                   mark : Blocks, unclean : SUBSET Blocks]
      BY DEF KvInv, ControlInv
    <3> QED BY <3>1, <3>2
  <2>3. CASE GcUse
    BY <2>3, Owners DEF GcUse, GcExit
  <2> QED BY <2>1, <2>2, <2>3
<1>2. UNCHANGED <<call, req, ans>>
  BY DEF GcStart, GcCopy, GcErase, GcFormat, GcUse
<1>3. ViewOf(items') = ViewOf(items)
  <2>1. CASE GcStart \/ GcFormat \/ GcUse
    BY <2>1 DEF GcStart, GcFormat, GcUse, flash
  <2> QED BY <2>1, CopyView, EraseView
<1>4. ReqInv'
  BY <1>1, <1>2, Owners, ReqAway
<1> QED BY <1>1, <1>2, <1>3, <1>4, Owners, AbsSame


-----------------------------------------------------------------------------
(* kv_init, as steps of the map. *)

(* The flash as kv_init finds it: items of a key in both blocks are a copy in the CLEAN
   one and its original, the only one, in the DIRTY one. *)
LEMMA BothBlocks ==
  ASSUME TypeOK, FlashInv, Copies, NEW x \in items, NEW y \in items,
         x.state = "NORMAL", y.state = "NORMAL", x.key = y.key, Blk(x.pos) # Blk(y.pos)
  PROVE  /\ x.val = y.val
         /\ \/ /\ hdr[Blk(x.pos)] = "CLEAN" /\ x.origin # y.pos
               /\ \A j \in items : j.state = "NORMAL" /\ j.key = y.key /\ Blk(j.pos) = Blk(y.pos) => j = y
            \/ /\ hdr[Blk(y.pos)] = "CLEAN" /\ y.origin # x.pos
               /\ \A j \in items : j.state = "NORMAL" /\ j.key = x.key /\ Blk(j.pos) = Blk(x.pos) => j = x
<1>1. ItemsLaid(items) /\ Blk(x.pos) \in Blocks /\ Blk(y.pos) \in Blocks
  BY LaidItem DEF FlashInv
<1>2. ASSUME NEW c \in items, NEW o \in items, c.state = "NORMAL", o.state = "NORMAL", c.key = o.key,
             Blk(c.pos) # Blk(o.pos), hdr[Blk(c.pos)] = "CLEAN", Blk(c.pos) \in Blocks, Blk(o.pos) \in Blocks
      PROVE  /\ c.val = o.val /\ c.origin # o.pos
             /\ \A j \in items : j.state = "NORMAL" /\ j.key = o.key /\ Blk(j.pos) = Blk(o.pos) => j = o
  <2>1. InBlock(items, Blk(o.pos)) # {}
    BY DEF InBlock
  <2>2. hdr[Blk(o.pos)] = "DIRTY"
    BY <1>2, <2>1 DEF FlashInv
  <2>3. c \in Normal(InBlock(items, Blk(c.pos)))
    BY <1>2, NormalIn
  <2>4. PICK i \in Normal(InBlock(items, Blk(o.pos))) :
          /\ i.key = c.key /\ i.val = c.val /\ c.origin # i.pos
          /\ \A j \in Normal(InBlock(items, Blk(o.pos))) : j.key = c.key => j = i
    BY <1>2, <2>2, <2>3 DEF Copies
  <2>5. o = i
    BY <1>2, <2>4, NormalIn
  <2> QED BY <1>2, <2>4, <2>5, NormalIn
<1>3. hdr[Blk(x.pos)] = "CLEAN" \/ hdr[Blk(y.pos)] = "CLEAN"
  BY <1>1 DEF FlashInv, TypeOK
<1> QED BY <1>1, <1>2, <1>3

(* Where a key has two items in a block, the first is the one to be seen. *)
LEMMA TwinsView ==
  TypeOK /\ FlashInv /\ Copies =>
    \A i, j \in items : Twins(i, j) /\ Blk(i.pos) = Blk(j.pos) =>
                          i.val = j.val \/ ViewOf(items)[i.key] = i.val
<1> SUFFICES ASSUME TypeOK, FlashInv, Copies, NEW i \in items, NEW j \in items, Twins(i, j), Blk(i.pos) = Blk(j.pos)
             PROVE  i.val = j.val \/ ViewOf(items)[i.key] = i.val
  OBVIOUS
<1>1. i.state = "NORMAL" /\ j.state = "NORMAL" /\ i.key = j.key /\ i.pos < j.pos
  BY DEF Twins
<1>2. ItemsLaid(items) /\ i.key \in Keys /\ i.pos \in Nat /\ j.pos \in Nat
  BY <1>1, LaidItem DEF FlashInv
<1>3. CASE \E x \in items : x.state = "NORMAL" /\ x.key = i.key /\ Blk(x.pos) # Blk(i.pos)
  <2>1. PICK x \in items : x.state = "NORMAL" /\ x.key = i.key /\ Blk(x.pos) # Blk(i.pos)
    BY <1>3
  <2>2. x.val = i.val
    BY <1>1, <2>1, BothBlocks
  <2>3. x.val = j.val
    BY <1>1, <2>1, BothBlocks
  <2> QED BY <2>2, <2>3
<1>4. CASE \A x \in items : x.state = "NORMAL" /\ x.key = i.key => Blk(x.pos) = Blk(i.pos)
  <2>1. ASSUME NEW x \in OfKey(items, i.key) PROVE x = i \/ i.pos < x.pos
    <3>1. x \in items /\ x.state = "NORMAL" /\ x.key = i.key /\ Blk(x.pos) = Blk(i.pos)
      BY <1>4 DEF OfKey, Normal
    <3>2. x.pos \in Nat /\ (x.pos = i.pos => x = i)
      BY <1>2, <3>1, LaidItem DEF ItemsLaid
    <3>3. ~ Twins(x, i)
      <4> SUFFICES ASSUME Twins(x, i) PROVE FALSE
        OBVIOUS
      <4>1. Twins(x, j)
        BY <1>1, <1>2, <3>1, <3>2 DEF Twins
      <4>2. j.origin = x.pos /\ j.origin = i.pos
        BY <3>1, <4>1 DEF FlashInv
      <4>3. x.pos < i.pos
        BY DEF Twins
      <4> QED BY <1>2, <3>2, <4>2, <4>3
    <3> QED BY <1>1, <1>2, <3>1, <3>2, <3>3 DEF Twins
  <2>2. i \in OfKey(items, i.key)
    BY <1>1 DEF OfKey, Normal
  <2> QED BY <1>2, <2>1, <2>2, ViewFirst
<1> QED BY <1>3, <1>4

(* The same of the flash after the step. *)
TwinsSeen ==
  \A i, j \in items : Twins(i, j) /\ Blk(i.pos) = Blk(j.pos) =>
                        i.val = j.val \/ ViewOf(items)[i.key] = i.val

LEMMA TwinsViewNext ==
  KvInv' /\ Copies' => TwinsSeen'
<1>1. KvInv /\ Copies => TwinsSeen
  BY TwinsView DEF KvInv, TwinsSeen
<1> QED BY <1>1, PTL


(* kv_init writes a header: what it finds is as before unless a block with items becomes
   CLEAN, or a block DIRTY beside a CLEAN one with items. *)
LEMMA CopiesFrame ==
  ASSUME Copies, Normal(items') = Normal(items),
         \A c, u \in Blocks : hdr'[c] = "CLEAN" /\ hdr'[u] = "DIRTY" /\ InBlock(items, c) # {} =>
                                hdr[c] = "CLEAN" /\ hdr[u] = "DIRTY"
  PROVE  Copies'
<1>1. ASSUME NEW c \in Blocks, NEW u \in Blocks, hdr'[c] = "CLEAN", hdr'[u] = "DIRTY",
             NEW x \in Normal(InBlock(items', c))
      PROVE  \E i \in Normal(InBlock(items', u)) :
               /\ i.key = x.key /\ i.val = x.val /\ x.origin # i.pos
               /\ \A j \in Normal(InBlock(items', u)) : j.key = x.key => j = i
  <2>1. \A b : Normal(InBlock(items', b)) = Normal(InBlock(items, b))
    BY DEF Normal, InBlock
  <2>2. x \in Normal(InBlock(items, c)) /\ InBlock(items, c) # {}
    BY <2>1 DEF Normal
  <2>3. hdr[c] = "CLEAN" /\ hdr[u] = "DIRTY"
    BY <1>1, <2>2
  <2> QED BY <2>1, <2>2, <2>3 DEF Copies
<1> QED BY <1>1 DEF Copies

(* A step of kv_init that the callers do not see. *)
LEMMA BootQuiet ==
  ASSUME ReqInv, RecoverInv, job.by = "boot", job'.by = "boot", items' = items,
         UNCHANGED <<call, req, ans>>,
         \A c, u \in Blocks : hdr'[c] = "CLEAN" /\ hdr'[u] = "DIRTY" /\ InBlock(items, c) # {} =>
                                hdr[c] = "CLEAN" /\ hdr[u] = "DIRTY"
  PROVE  ReqInv' /\ RecoverInv' /\ AbsStep
<1>1. ReqInv'
  BY Owners, ReqAway
<1>2. AbsStep
  BY AbsSame
<1>3. Updates /\ Copies
  BY DEF RecoverInv
<1>4. Copies'
  BY <1>3, CopiesFrame
<1>5. Updates'
  BY <1>3 DEF Updates
<1> QED BY <1>1, <1>2, <1>4, <1>5 DEF RecoverInv

(* A block gets its header. *)
LEMMA HeaderQuiet ==
  ASSUME TypeOK, FlashInv, NEW d \in Blocks, hdr[d] = "BAD", hdr' = [hdr EXCEPT ![d] = "CLEAN"]
  PROVE  \A c, u \in Blocks : hdr'[c] = "CLEAN" /\ hdr'[u] = "DIRTY" /\ InBlock(items, c) # {} =>
                                hdr[c] = "CLEAN" /\ hdr[u] = "DIRTY"
<1>1. InBlock(items, d) = {}
  BY BadEmpty
<1>2. hdr'[d] = "CLEAN" /\ \A c \in Blocks : c # d => hdr'[c] = hdr[c]
  BY DEF TypeOK
<1> QED BY <1>1, <1>2

(* A block becomes DIRTY that was USED, or CLEAN with items in it. *)
LEMMA DirtyQuiet ==
  ASSUME TypeOK, FlashInv, NEW d \in Blocks, hdr' = [hdr EXCEPT ![d] = "DIRTY"],
         hdr[d] = "USED" \/ (hdr[d] = "CLEAN" /\ InBlock(items, d) # {})
  PROVE  \A c, u \in Blocks : hdr'[c] = "CLEAN" /\ hdr'[u] = "DIRTY" /\ InBlock(items, c) # {} =>
                                hdr[c] = "CLEAN" /\ hdr[u] = "DIRTY"
<1> SUFFICES ASSUME NEW c \in Blocks, hdr'[c] = "CLEAN", InBlock(items, c) # {} PROVE FALSE
  OBVIOUS
<1>1. hdr'[d] = "DIRTY" /\ \A b \in Blocks : b # d => hdr'[b] = hdr[b]
  BY DEF TypeOK
<1>2. c # d /\ hdr[c] = "CLEAN"
  BY <1>1
<1>3. PICK i \in items : Blk(i.pos) = c
  BY DEF InBlock
<1>4. hdr[d] = "DIRTY" \/ (hdr[d] \in {"BAD", "CLEAN"} /\ InBlock(items, d) = {})
  BY <1>2, <1>3 DEF FlashInv
<1> QED BY <1>4

(* The steps of kv_init that erase and delete nothing. *)
LEMMA BootQuietMap ==
  ASSUME KvInv, ReqInv, RecoverInv, job.by = "boot",
         BootNoHeader \/ BootBlock \/ BootKeep \/ BootFormat \/ MarkDirty
  PROVE  ReqInv' /\ RecoverInv' /\ AbsStep
<1>1. TypeOK /\ FlashInv /\ ControlInv /\ BootInv /\ job.blk \in Blocks
  BY BootIs
<1>2. job \in [by : Task \cup {None, "gc", "boot"}, step : Steps, pos : Nat, blk : Blocks,
               mark : Blocks, unclean : SUBSET Blocks]
  BY <1>1 DEF ControlInv
<1>3. UNCHANGED <<call, req, ans>>
  BY DEF BootNoHeader, BootBlock, BootKeep, BootFormat, MarkDirty
<1>4. job'.by = "boot"
  <2>1. CASE BootNoHeader
    BY <1>2, <2>1 DEF BootNoHeader, NextBlock
  <2>2. CASE BootBlock
    <3>1. \E s : job' = NextBlock([job EXCEPT !.unclean = s])
      BY <2>2 DEF BootBlock
    <3> QED BY <1>2, <3>1 DEF NextBlock
  <2>3. CASE BootKeep \/ BootFormat \/ MarkDirty
    <3>1. \E s : job' = [job EXCEPT !.unclean = s] \/ job' = [job EXCEPT !.step = s]
      BY <2>3 DEF BootKeep, BootFormat, MarkDirty
    <3> QED BY <1>2, <3>1
  <2> QED BY <2>1, <2>2, <2>3
<1>5. CASE BootNoHeader
  <2>1. hdr[job.blk] = "BAD" /\ hdr' = [hdr EXCEPT ![job.blk] = "CLEAN"]
        /\ items' = items \ InBlock(items, job.blk)
    BY <1>5 DEF BootNoHeader, WriteHeader
  <2>2. items' = items
    BY <1>1, <2>1, BadEmpty
  <2> QED BY <1>1, <1>3, <1>4, <2>1, <2>2, HeaderQuiet, BootQuiet
<1>6. CASE BootFormat
  <2>1. job.step = "format" /\ hdr' = [hdr EXCEPT ![job.blk] = "CLEAN"] /\ items' = items
    BY <1>1, <1>6, BlockZeroKept DEF BootFormat, WriteHeader
  <2>2. hdr[job.blk] = "BAD"
    BY <1>1, <2>1 DEF BootInv
  <2> QED BY <1>1, <1>3, <1>4, <2>1, <2>2, HeaderQuiet, BootQuiet
<1>7. CASE BootBlock
  <2>1. hdr' = hdr /\ items' = items
    BY <1>7 DEF BootBlock, flash
  <2> QED BY <1>3, <1>4, <2>1, BootQuiet
<1>8. CASE BootKeep
  <2>1. /\ Settling /\ job.unclean # {} /\ hdr' = [hdr EXCEPT ![Max(job.unclean)] = "DIRTY"]
        /\ items' = items
    BY <1>8 DEF BootKeep
  <2>2. PICK d \in Blocks : d = Max(job.unclean) /\ hdr[d] = "CLEAN" /\ InBlock(items, d) # {}
    BY <2>1, LastUnclean
  <2> QED BY <1>1, <1>3, <1>4, <2>1, <2>2, DirtyQuiet, BootQuiet
<1>9. CASE MarkDirty
  <2>1. job.step = "mark" /\ hdr' = [hdr EXCEPT ![job.mark] = "DIRTY"] /\ items' = items
    BY <1>9 DEF MarkDirty
  <2>2. job.mark \in Blocks /\ hdr[job.mark] = "USED"
    BY <1>1, <1>2, <2>1 DEF BootInv
  <2> QED BY <1>1, <1>3, <1>4, <2>1, <2>2, DirtyQuiet, BootQuiet
<1> QED BY <1>5, <1>6, <1>7, <1>8, <1>9


(* The target of a collection goes: its source has everything. *)
LEMMA BootEraseMap ==
  ASSUME KvInv, ReqInv, RecoverInv, BootErase, KvInv'
  PROVE  ReqInv' /\ RecoverInv' /\ AbsStep
<1>1. PICK b \in Blocks, o \in Blocks :
        /\ b # o /\ hdr[b] = "CLEAN" /\ hdr[o] = "DIRTY"
        /\ Erase(b) /\ job' = [job EXCEPT !.unclean = @ \ {b}, !.blk = b, !.step = "format"]
  BY BootEraseIs
<1>2. job.by = "boot" /\ UNCHANGED <<call, req, ans>>
  BY DEF BootErase, Settling
<1>3. TypeOK /\ FlashInv /\ ControlInv /\ ItemsLaid(items) /\ ItemsLaid(items')
  BY <1>2, BootIs DEF KvInv, FlashInv
<1>4. hdr' = [hdr EXCEPT ![b] = "BAD"] /\ items' = items \ InBlock(items, b) /\ items' \subseteq items
  BY <1>1 DEF Erase
<1>5. Updates /\ Copies
  BY <1>2 DEF RecoverInv
<1>6. \A d \in Blocks : d = b \/ d = o
  BY <1>1, Sizes
<1>7. ASSUME NEW x \in Normal(items), x \notin items'
      PROVE  \E i \in Normal(items') : i.key = x.key /\ \A j \in Normal(items) : j.key = x.key => j.val = i.val
  <2>1. x \in items /\ x.state = "NORMAL" /\ Blk(x.pos) = b
    BY <1>4, <1>7 DEF Normal, InBlock
  <2>2. x \in Normal(InBlock(items, b))
    BY <2>1, NormalIn
  <2>3. PICK i \in Normal(InBlock(items, o)) :
          /\ i.key = x.key /\ i.val = x.val
          /\ \A j \in Normal(InBlock(items, o)) : j.key = x.key => j = i
    BY <1>1, <1>5, <2>2 DEF Copies
  <2>4. i \in items /\ i.state = "NORMAL" /\ Blk(i.pos) = o
    BY <2>3, NormalIn
  <2>5. i \in Normal(items')
    BY <1>1, <1>4, <2>4 DEF Normal, InBlock
  <2>6. ASSUME NEW j \in Normal(items), j.key = x.key PROVE j.val = i.val
    <3>1. j \in items /\ j.state = "NORMAL"
      BY DEF Normal
    <3>2. Blk(j.pos) \in Blocks
      BY <1>3, <3>1, LaidItem
    <3>3. CASE Blk(j.pos) = o
      BY <2>3, <2>6, <3>1, <3>3, NormalIn
    <3>4. CASE Blk(j.pos) = b
      <4>1. j.key = i.key /\ Blk(j.pos) # Blk(i.pos)
        BY <1>1, <2>3, <2>4, <2>6, <3>4
      <4> QED BY <1>3, <1>5, <2>4, <3>1, <4>1, BothBlocks
    <3> QED BY <1>6, <3>2, <3>3, <3>4
  <2> QED BY <2>3, <2>5, <2>6
<1>8. ViewOf(items') = ViewOf(items)
  BY <1>3, <1>4, <1>7, ViewKept
<1>9. job'.by = "boot"
  <2>1. job \in [by : Task \cup {None, "gc", "boot"}, step : Steps, pos : Nat, blk : Blocks,
                 mark : Blocks, unclean : SUBSET Blocks]
    BY <1>3 DEF ControlInv
  <2> QED BY <1>1, <1>2, <2>1
<1>10. ReqInv'
  BY <1>2, <1>9, Owners, ReqAway
<1>11. AbsStep
  BY <1>2, <1>8, AbsSame
<1>12. Updates'
  BY <1>2, <1>4, <1>5 DEF Updates
<1>13. \A c \in Blocks : hdr'[c] # "CLEAN"
  BY <1>1, <1>3, <1>4, <1>6 DEF TypeOK
<1>14. Copies'
  BY <1>13 DEF Copies
<1> QED BY <1>10, <1>11, <1>12, <1>14 DEF RecoverInv

(* kv_init ends. *)
LEMMA BootReadyMap ==
  ASSUME KvInv, ReqInv, BootReady
  PROVE  ReqInv' /\ RecoverInv' /\ AbsStep
<1>1. /\ job.by = "boot" /\ job' = Free /\ req' = [req EXCEPT ![None] = {}]
      /\ UNCHANGED <<items, call, ans>>
  BY DEF BootReady, Settling
<1>2. job'.by = None /\ RecoverInv'
  BY <1>1, Owners DEF RecoverInv
<1>3. /\ req' \in [Task \cup {None} -> SUBSET (Keys \X (Values \cup {None}))] /\ req'[None] = {}
      /\ \A t \in Task : req'[t] = req[t]
  BY <1>1, Owners DEF ReqInv
<1>4. \A t \in Task : job.by # t /\ job'.by # t
  BY <1>1, <1>2, Owners
<1>5. ReqInv'
  BY <1>1, <1>2, <1>3, <1>4 DEF ReqInv
<1>6. View' = View
  BY <1>1 DEF View
<1>7. Abs!Ready
  BY <1>1, <1>6 DEF Abs!Ready
<1> QED BY <1>2, <1>5, <1>7 DEF AbsStep, Abs!Next

-----------------------------------------------------------------------------
(* kv_init deletes an item. *)

(* What a recovery leaves to be made. *)
LEMMA ReqBoot ==
  ASSUME ReqInv, job.by = "boot", job'.by = "boot", call' = call,
         req' = [req EXCEPT ![None] = Unmade(req[None])]
  PROVE  ReqInv' /\ req'[None] = Unmade(req[None])
<1>1. Unmade(req[None]) \subseteq req[None]
  BY DEF Unmade
<1>2. /\ req' \in [Task \cup {None} -> SUBSET (Keys \X (Values \cup {None}))]
      /\ req'[None] = Unmade(req[None])
      /\ \A t \in Task : req'[t] = req[t]
  BY <1>1, Owners DEF ReqInv
<1>3. \A t \in Task : job.by # t /\ job'.by # t
  BY Owners
<1> QED BY <1>2, <1>3 DEF ReqInv

(* The map is as before, and the changes it has already are no longer to be made. *)
LEMMA AbsTidy ==
  ASSUME ReqInv, ViewOf(items') = ViewOf(items), req' = [req EXCEPT ![None] = Unmade(req[None])],
         UNCHANGED <<call, ans>>
  PROVE  AbsStep
<1>1. CASE Unmade(req[None]) = req[None]
  <2>1. req' = req
    BY <1>1 DEF ReqInv
  <2> QED BY <2>1, AbsSame
<1>2. CASE Unmade(req[None]) # req[None]
  <2>1. PICK c \in req[None] : ViewOf(items')[c[1]] = c[2]
    BY <1>2 DEF Unmade
  <2>2. req[None] \subseteq Keys \X (Values \cup {None})
    BY DEF ReqInv
  <2>3. PICK k \in Keys, v \in Values \cup {None} : c = <<k, v>>
    BY <2>1, <2>2
  <2>4. ViewOf(items)[k] = v /\ <<k, v>> \in req[None]
    BY <2>1, <2>3
  <2>5. ViewOf(items) = [ViewOf(items) EXCEPT ![k] = v]
    <3>1. ViewOf(items) = [x \in Keys |-> ViewOf(items)[x]]
      BY DEF ViewOf
    <3> QED BY <2>4, <3>1
  <2>6. ViewOf(items') = [ViewOf(items) EXCEPT ![k] = v]
    BY <2>5
  <2> QED BY <2>4, <2>6, AbsApply
<1> QED BY <1>1, <1>2


(* The updates still to be made. *)
LEMMA UpdatesKept ==
  ASSUME Updates, KvInv', Copies', \A i \in items' : i.state = "NORMAL" => i \in items,
         req'[None] = Unmade(req[None])
  PROVE  Updates'
<1>1. TwinsSeen'
  BY TwinsViewNext
<1>2. ASSUME NEW i \in items', NEW j \in items', Twins(i, j), Blk(i.pos) = Blk(j.pos), i.val # j.val
      PROVE  <<i.key, j.val>> \in req'[None]
  <2>1. i \in items /\ j \in items
    BY <1>2 DEF Twins
  <2>2. <<i.key, j.val>> \in req[None]
    BY <1>2, <2>1 DEF Updates
  <2>3. ViewOf(items')[i.key] = i.val
    BY <1>1, <1>2 DEF TwinsSeen
  <2> QED BY <1>2, <2>2, <2>3 DEF Unmade
<1> QED BY <1>2 DEF Updates

(* The item an update was to replace: all others of the key have the new value. *)
LEMMA OthersAgree ==
  ASSUME TypeOK, FlashInv, Copies, NEW i \in items, i.state = "NORMAL", NEW o \in Original(i),
         NEW j \in OfKey(items, i.key), j # o
  PROVE  j.val = i.val
<1>1. /\ o \in items /\ o.state = "NORMAL" /\ o.key = i.key /\ o.pos = i.origin /\ o.pos # i.pos
      /\ j \in items /\ j.state = "NORMAL" /\ j.key = i.key
  BY DEF Original, OfKey, Normal
<1>2. /\ ItemsLaid(items) /\ i.pos \in Nat /\ j.pos \in Nat /\ o.pos \in Nat
      /\ (i.pos = j.pos => i = j) /\ (j.pos = o.pos => j = o)
  BY <1>1, LaidItem DEF FlashInv, ItemsLaid
<1>3. CASE Blk(j.pos) # Blk(i.pos)
  BY <1>1, <1>3, BothBlocks
<1>4. CASE Blk(o.pos) # Blk(i.pos) /\ Blk(j.pos) = Blk(i.pos)
  <2>1. o.val = i.val
    BY <1>1, <1>4, BothBlocks
  <2>2. o.val = j.val
    <3>1. Blk(o.pos) # Blk(j.pos) /\ o.key = j.key
      BY <1>1, <1>4
    <3> QED BY <1>1, <3>1, BothBlocks
  <2> QED BY <2>1, <2>2
<1>5. CASE Blk(o.pos) = Blk(i.pos) /\ Blk(j.pos) = Blk(i.pos) /\ j # i
  <2>1. /\ \A x, y \in {i, j, o} : x.pos < y.pos => y.origin = x.pos
        /\ i.pos # j.pos /\ j.pos # o.pos
    BY <1>1, <1>2, <1>5 DEF FlashInv, Twins
  <2> QED BY <1>1, <1>2, <2>1
<1> QED BY <1>3, <1>4, <1>5

(* The map changes when the update was still to be made. *)
LEMMA OriginalSeen ==
  ASSUME TypeOK, FlashInv, Copies, Updates, NEW i \in items, i.state = "NORMAL", NEW o \in Original(i)
  PROVE  ViewOf(items)[i.key] = i.val \/ <<i.key, i.val>> \in req[None]
<1>1. /\ o \in items /\ o.state = "NORMAL" /\ o.key = i.key /\ o.pos # i.pos
      /\ i \in OfKey(items, i.key)
  BY DEF Original, OfKey, Normal
<1>2. ItemsLaid(items) /\ i.pos \in Nat /\ o.pos \in Nat /\ i.key \in Keys
  BY <1>1, LaidItem DEF FlashInv
<1>3. CASE o.val = i.val
  <2>1. \A j \in OfKey(items, i.key) : j.val = i.val
    BY <1>3, OthersAgree
  <2> QED BY <1>1, <1>2, <2>1, ViewAgreed
<1>4. CASE o.val # i.val
  <2>1. Blk(o.pos) = Blk(i.pos)
    BY <1>1, <1>4, BothBlocks
  <2>2. CASE i.pos < o.pos
    <3>1. Twins(i, o)
      BY <1>1, <2>2 DEF Twins
    <3> QED BY <1>1, <1>4, <2>1, <3>1, TwinsView
  <2>3. CASE o.pos < i.pos
    <3>1. Twins(o, i)
      BY <1>1, <2>3 DEF Twins
    <3> QED BY <1>1, <1>4, <2>1, <3>1 DEF Updates
  <2> QED BY <1>1, <1>2, <2>2, <2>3
<1> QED BY <1>3, <1>4

(* The copies are still copies: no copy points to its original. *)
LEMMA CopiesDeleted ==
  ASSUME TypeOK, FlashInv, Copies, NEW i \in items, i.state = "NORMAL", NEW o \in Original(i),
         items' = Deleted(items, o), hdr' = hdr
  PROVE  Copies'
<1>1. /\ o \in items /\ o.state = "NORMAL" /\ o.key = i.key /\ o.pos = i.origin /\ o.pos # i.pos
  BY DEF Original, Normal
<1>2. \A x : x \in items' /\ x.state = "NORMAL" <=> x \in items /\ x.state = "NORMAL" /\ x # o
  <2>1. Rest("DELETE", o.pos, o.len).state = "DELETE"
    BY DEF Rest
  <2> QED BY <1>1, <2>1 DEF Deleted
<1>3. ASSUME NEW c \in Blocks, NEW u \in Blocks, hdr'[c] = "CLEAN", hdr'[u] = "DIRTY",
             NEW x \in Normal(InBlock(items', c))
      PROVE  \E y \in Normal(InBlock(items', u)) :
               /\ y.key = x.key /\ y.val = x.val /\ x.origin # y.pos
               /\ \A j \in Normal(InBlock(items', u)) : j.key = x.key => j = y
  <2>1. x \in items /\ x.state = "NORMAL" /\ Blk(x.pos) = c /\ x # o
    BY <1>2, NormalIn
  <2>2. x \in Normal(InBlock(items, c))
    BY <2>1, NormalIn
  <2>3. PICK y \in Normal(InBlock(items, u)) :
          /\ y.key = x.key /\ y.val = x.val /\ x.origin # y.pos
          /\ \A j \in Normal(InBlock(items, u)) : j.key = x.key => j = y
    BY <1>3, <2>2 DEF Copies
  <2>4. y \in items /\ y.state = "NORMAL" /\ Blk(y.pos) = u
    BY <2>3, NormalIn
  <2>5. y # o
    <3> SUFFICES ASSUME y = o PROVE FALSE
      OBVIOUS
    <3>1. i \notin Normal(InBlock(items, u))
      BY <1>1, <2>3
    <3>2. Blk(i.pos) # Blk(o.pos)
      BY <2>4, <3>1, NormalIn
    <3>3. hdr[Blk(o.pos)] = "DIRTY"
      BY <1>3, <2>4
    <3>4. i.origin # o.pos
      BY <1>1, <3>2, <3>3, BothBlocks
    <3> QED BY <1>1, <3>4
  <2>6. y \in Normal(InBlock(items', u))
    BY <1>2, <2>4, <2>5, NormalIn
  <2>7. \A j \in Normal(InBlock(items', u)) : j \in Normal(InBlock(items, u))
    BY <1>2, NormalIn
  <2> QED BY <2>3, <2>6, <2>7
<1> QED BY <1>3 DEF Copies


(* kv_init recovers a block. *)
LEMMA RecoverMap ==
  ASSUME KvInv, ReqInv, RecoverInv, BootRecover, KvInv'
  PROVE  ReqInv' /\ RecoverInv' /\ AbsStep
<1>1. /\ job.by = "boot" /\ req' = [req EXCEPT ![None] = Unmade(req[None])] /\ UNCHANGED <<call, ans>>
  BY DEF BootRecover, Scanning
<1>2. TypeOK /\ FlashInv /\ ControlInv /\ ItemsLaid(items) /\ ItemsLaid(items') /\ job.blk \in Blocks
  BY <1>1, BootIs DEF KvInv, FlashInv
<1>3. Updates /\ Copies
  BY <1>1 DEF RecoverInv
<1>4. job'.by = "boot"
  <2>1. job' = job \/ job' = [job EXCEPT !.step = "mark", !.mark = job.blk]
    BY RecoverIs
  <2>2. job \in [by : Task \cup {None, "gc", "boot"}, step : Steps, pos : Nat, blk : Blocks,
                 mark : Blocks, unclean : SUBSET Blocks]
    BY <1>2 DEF ControlInv
  <2> QED BY <1>1, <2>1, <2>2
<1>5. ReqInv' /\ req'[None] = Unmade(req[None])
  BY <1>1, <1>4, ReqBoot
<1>6. ASSUME Copies', \A i \in items' : i.state = "NORMAL" => i \in items PROVE RecoverInv'
  BY <1>3, <1>5, <1>6, UpdatesKept DEF RecoverInv
<1>7. CASE hdr[job.blk] = "USED" /\ hdr' = [hdr EXCEPT ![job.blk] = "DIRTY"] /\ items' = items
  <2>1. Copies'
    BY <1>2, <1>3, <1>7, DirtyQuiet, CopiesFrame
  <2>2. AbsStep
    BY <1>1, <1>7, AbsTidy
  <2> QED BY <1>5, <1>6, <1>7, <2>1, <2>2
<1>8. ASSUME hdr' = hdr, NEW o \in items, items' = Deleted(items, o), o.state = "TORN"
      PROVE  ReqInv' /\ RecoverInv' /\ AbsStep
  <2>1. Rest("DELETE", o.pos, o.len).state = "DELETE"
    BY DEF Rest
  <2>2. Normal(items') = Normal(items)
    BY <1>8, <2>1 DEF Normal, Deleted
  <2>3. \A i \in items' : i.state = "NORMAL" => i \in items
    BY <2>2 DEF Normal
  <2>4. Copies'
    BY <1>3, <1>8, <2>2, CopiesFrame
  <2>5. AbsStep
    BY <1>1, <2>2, ViewUnseen, AbsTidy
  <2> QED BY <1>5, <1>6, <2>3, <2>4, <2>5
<1>9. ASSUME hdr' = hdr, NEW o \in items, items' = Deleted(items, o),
             NEW i \in items, i.state = "NORMAL", o \in Original(i)
      PROVE  ReqInv' /\ RecoverInv' /\ AbsStep
  <2>1. /\ o.state = "NORMAL" /\ o.key = i.key /\ o.pos # i.pos
        /\ i \in OfKey(items, o.key) /\ i # o
    BY <1>9 DEF Original, OfKey, Normal
  <2>2. \A j \in OfKey(items, o.key) : j # o => j.val = i.val
    BY <1>2, <1>3, <1>9, <2>1, OthersAgree
  <2>3. /\ o.key \in Keys /\ ViewOf(items')[o.key] = i.val
        /\ ViewOf(items') = [ViewOf(items) EXCEPT ![o.key] = i.val]
    BY <1>2, <1>9, <2>1, <2>2, ViewDeleted
  <2>4. AbsStep
    <3>1. CASE ViewOf(items)[o.key] = i.val
      <4>1. ViewOf(items) = [x \in Keys |-> ViewOf(items)[x]]
        BY DEF ViewOf
      <4>2. ViewOf(items') = ViewOf(items)
        BY <2>3, <3>1, <4>1
      <4> QED BY <1>1, <4>2, AbsTidy
    <3>2. CASE <<o.key, i.val>> \in req[None]
      BY <1>1, <2>3, <3>2, AbsApply
    <3>3. ViewOf(items)[o.key] = i.val \/ <<o.key, i.val>> \in req[None]
      BY <1>2, <1>3, <1>9, <2>1, OriginalSeen
    <3> QED BY <3>1, <3>2, <3>3
  <2>5. Copies'
    BY <1>2, <1>3, <1>9, CopiesDeleted
  <2>6. \A x \in items' : x.state = "NORMAL" => x \in items
    <3>1. Rest("DELETE", o.pos, o.len).state = "DELETE"
      BY DEF Rest
    <3> QED BY <1>9, <3>1 DEF Deleted
  <2> QED BY <1>5, <1>6, <2>4, <2>5, <2>6
<1> QED BY <1>7, <1>8, <1>9, RecoverIs

-----------------------------------------------------------------------------
(* The store is a map. *)

RefInv == KvInv /\ ReqInv /\ RecoverInv

LEMMA InitRef == Init => RefInv /\ Abs!Init
<1> SUFFICES ASSUME Init PROVE RefInv /\ Abs!Init
  OBVIOUS
<1>1. KvInv
  BY InitInv
<1>2. /\ items = {} /\ job = Job("boot", "scan", 0, 0)
      /\ call = [t \in Task |-> NoCall] /\ req = [o \in Task \cup {None} |-> {}]
      /\ ans = [t \in Task |-> "RES_OK"]
  BY DEF Init
<1>3. job.by = "boot"
  BY <1>2 DEF Job
<1>4. ReqInv
  <2>1. \A t \in Task : job.by # t /\ req[t] = Changes(call[t])
    BY <1>2, <1>3, Owners, ChangesIs
  <2>2. req \in [Task \cup {None} -> SUBSET (Keys \X (Values \cup {None}))]
    BY <1>2
  <2> QED BY <1>3, <2>1, <2>2 DEF ReqInv
<1>5. RecoverInv
  BY <1>2 DEF RecoverInv, Updates, Copies, Normal, InBlock
<1>6. View = [k \in Keys |-> None]
  <2>1. Normal({}) = {}
    BY DEF Normal
  <2>2. View = [k \in Keys |-> LET f == {} IN IF f = {} THEN None ELSE First(f).val]
    BY <1>2, <2>1 DEF View, ViewOf
  <2> QED BY <2>2
<1>7. Abs!Init
  BY <1>2, <1>6, SameNames DEF Abs!Init
<1> QED BY <1>1, <1>4, <1>5, <1>7 DEF RefInv

(* A step of the owner of the mutex is not one of kv_init. *)
LEMMA UpSteps ==
  ASSUME KvInv, NEW t \in Task,
         \/ Return(t) \/ Get(t) \/ SetSame(t) \/ SetFull(t)
         \/ SetStore(t) \/ SetDelete(t) \/ Del(t) \/ DelByPrefix(t)
  PROVE  RecoverInv'
<1>1. t # "boot" /\ None # "boot"
  BY Owners
<1>2. job \in [by : Task \cup {None, "gc", "boot"}, step : Steps, pos : Nat, blk : Blocks,
               mark : Blocks, unclean : SUBSET Blocks]
  BY DEF KvInv, ControlInv
<1>3. ASSUME NEW p, NEW j, NEW info1, NEW next, j.by = t, DeleteItem(p, info1, j, next),
             j \in [by : Task \cup {None, "gc", "boot"}, step : Steps, pos : Nat, blk : Blocks,
                    mark : Blocks, unclean : SUBSET Blocks]
      PROVE  job'.by = t
  BY <1>3 DEF DeleteItem
<1>4. job'.by = t \/ job' = Free
  <2>1. CASE Return(t) \/ Get(t) \/ SetSame(t) \/ SetFull(t)
    BY <2>1 DEF Return, Get, SetSame, SetFull, Finish
  <2>2. CASE SetStore(t)
    BY <2>2 DEF SetStore, Job
  <2>3. CASE SetDelete(t)
    BY <1>2, <1>3, <2>3 DEF SetDelete
  <2>4. ASSUME NEW s \in {"delete", "prefix"}
        PROVE  /\ Job(t, s, 0, 0).by = t
               /\ Job(t, s, 0, 0) \in [by : Task \cup {None, "gc", "boot"}, step : Steps, pos : Nat,
                                       blk : Blocks, mark : Blocks, unclean : SUBSET Blocks]
    BY Sizes DEF Job, Steps
  <2>5. CASE Del(t)
    <3>1. Finish(t, "RES_ITEM_NOT_FOUND") \/ \E p : DeleteItem(p, info', Job(t, "delete", 0, 0), "return")
      BY <2>5 DEF Del
    <3> QED BY <1>3, <2>4, <3>1 DEF Finish
  <2>6. CASE DelByPrefix(t)
    <3>1. Finish(t, "RES_OK") \/ \E p : DeleteItem(p, info, Job(t, "prefix", 0, 0), "prefix")
      BY <2>6 DEF DelByPrefix
    <3> QED BY <1>3, <2>4, <3>1 DEF Finish
  <2> QED BY <2>1, <2>2, <2>3, <2>5, <2>6
<1>5. job'.by # "boot"
  BY <1>1, <1>4, Owners
<1> QED BY <1>5 DEF RecoverInv


(* The steps outside the mutex leave the flash and the owner alone. *)
LEMMA OutsideRecover ==
  ASSUME RecoverInv,
         \/ GcSignal \/ UNCHANGED vars
         \/ \E t \in Task : Invoke(t) \/ CountWaiter(t) \/ TakeGcSem(t)
  PROVE  RecoverInv'
<1>1. job' = job /\ hdr' = hdr /\ items' = items
  BY DEF GcSignal, Invoke, CountWaiter, TakeGcSem, vars, flash
<1>2. job.by = "boot" => req' = req
  BY DEF GcSignal, Invoke, CountWaiter, TakeGcSem, vars, Up
<1> QED BY <1>1, <1>2 DEF RecoverInv, Updates, Copies, Normal, InBlock

(* Every step of the store is a step of the map, or nothing to be seen there. *)
LEMMA RefStep ==
  ASSUME FailInCopy = FALSE
  PROVE  RefInv /\ [Next]_vars => RefInv' /\ [Abs!Next]_<<View, call, req, ans>>
<1> SUFFICES ASSUME RefInv, [Next]_vars PROVE RefInv' /\ AbsStep
  BY DEF AbsStep
<1>1. KvInv /\ ReqInv /\ RecoverInv
  BY DEF RefInv
<1>2. KvInv'
  BY <1>1, InvStep
<1> SUFFICES ReqInv' /\ RecoverInv' /\ AbsStep
  BY <1>2 DEF RefInv
<1>3. CASE GcSignal \/ \E t \in Task : Invoke(t) \/ CountWaiter(t) \/ TakeGcSem(t)
  BY <1>1, <1>3, ReqOutside, OutsideRecover
<1>4. CASE UNCHANGED vars
  <2>1. UNCHANGED <<items, job, call, req, ans>>
    BY <1>4 DEF vars, flash
  <2>2. ReqInv'
    BY <1>1, <2>1 DEF ReqInv, View
  <2> QED BY <1>1, <1>4, <2>1, <2>2, OutsideRecover, AbsSame
<1>5. ASSUME NEW t \in Task, Return(t) \/ Get(t) \/ SetSame(t) \/ SetFull(t)
      PROVE  ReqInv' /\ RecoverInv' /\ AbsStep
  BY <1>1, <1>5, AnswerMap, UpSteps
<1>6. ASSUME NEW t \in Task, SetStore(t) \/ SetDelete(t) \/ Del(t) \/ DelByPrefix(t)
      PROVE  ReqInv' /\ RecoverInv' /\ AbsStep
  <2>1. RecoverInv'
    BY <1>1, <1>6, UpSteps
  <2>2. ReqInv' /\ AbsStep
    BY <1>1, <1>2, <1>6, StoreMap, SetDeleteMap, DelMap, PrefixMap
  <2> QED BY <2>1, <2>2
<1>7. CASE PowerFail \/ Deinit \/ GcTorn \/ \E t \in Task : SetTorn(t)
  BY <1>1, <1>7, FailsMap
<1>8. CASE GcStart \/ GcCopy \/ GcErase \/ GcFormat \/ GcUse
  BY <1>1, <1>2, <1>8, GcMap DEF RecoverInv
<1>9. CASE MarkDirty
  <2>1. CASE job.by = "boot"
    BY <1>1, <1>9, <2>1, BootQuietMap
  <2>2. CASE job.by # "boot"
    <3>1. job \in [by : Task \cup {None, "gc", "boot"}, step : Steps, pos : Nat, blk : Blocks,
                   mark : Blocks, unclean : SUBSET Blocks]
      BY <1>1 DEF KvInv, ControlInv
    <3>2. job'.by = job.by
      BY <1>9, <3>1 DEF MarkDirty
    <3> QED BY <1>1, <1>9, <2>2, <3>2, MarkMap DEF RecoverInv
  <2> QED BY <2>1, <2>2
<1>10. CASE BootStep
  <2>1. job.by = "boot"
    BY <1>10 DEF BootStep, BootNoHeader, BootRecover, BootBlock, BootKeep, BootErase, BootFormat,
       BootReady, Scanning, Settling
  <2>2. CASE BootNoHeader \/ BootBlock \/ BootKeep \/ BootFormat
    BY <1>1, <2>1, <2>2, BootQuietMap
  <2> QED BY <1>1, <1>2, <1>10, <2>2, RecoverMap, BootEraseMap, BootReadyMap DEF BootStep
<1> QED BY <1>3, <1>4, <1>5, <1>6, <1>7, <1>8, <1>9, <1>10 DEF Next, TaskStep, GcStep

(* The store is a map for its callers, whatever the tasks, the collector, kv_init and
   power failures do in whichever order: a call takes effect once, between aos_kv_set,
   aos_kv_get, aos_kv_del or aos_kv_del_by_prefix and its answer, and a power failure
   leaves it done or not done and everything that was answered as it was.  The hypothesis
   is the one of the run: power does not fail while the collector has copied an item that
   lies at its own origin_off, where kv_init would take the copy for an update of the
   original. *)
THEOREM StoreIsMap ==
  ASSUME FailInCopy = FALSE
  PROVE  Spec => Refines
<1>1. Init => RefInv /\ Abs!Init
  BY InitRef
<1>2. RefInv /\ [Next]_vars => RefInv' /\ [Abs!Next]_<<View, call, req, ans>>
  BY RefStep
<1> QED BY <1>1, <1>2, PTL DEF Spec, Refines, Abs!Spec

=============================================================================
