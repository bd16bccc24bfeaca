----------------------------- MODULE MCKvStore -----------------------------
(***************************************************************************)
(* Small instances of the key-value store for TLC.  Lengths are in words   *)
(* of 4 bytes: a block header takes one, an item header two.               *)
(***************************************************************************)
EXTENDS KvStore

CONSTANTS k1, k2, v1, v2, t1, t2

Set(k, v) == [op |-> "set", keys |-> {k}, val |-> v]
Other(op, K) == [op |-> op, keys |-> K, val |-> None]

Lengths == [v \in Values |-> IF v = v1 THEN 3 ELSE 4]

(* Every operation on one of two keys. *)
AllRequests ==
  {Set(k, v) : k \in Keys, v \in Values} \cup {Other("del", {k}) : k \in Keys}
    \cup {Other("get", {k1}), Other("prefix", Keys)}
=============================================================================
