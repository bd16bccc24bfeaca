------------------------------ MODULE RhinoList ------------------------------
(***************************************************************************)
(* The intrusive circular lists of k_list.h, as the kernel uses them.  A   *)
(* list head with its entries is a sequence of the owners of the entries   *)
(* (krhino_list_entry of each node, from head->next on); a run queue list, *)
(* which has no head node, is the sequence that starts at cur_list_item.   *)
(***************************************************************************)
EXTENDS Integers, SequencesExt

(* klist_rm: unlink the node of e from the list it is on. *)
klist_rm(s, e) == RemoveAt(s, CHOOSE i \in 1 .. Len(s) : s[i] = e)

(* The place of the first entry whose key exceeds v, else the list's end. *)
FirstAbove(s, key, v) ==
  CHOOSE i \in 1 .. Len(s) + 1 :
     /\ \A j \in 1 .. i - 1 : key[s[j]] <= v
     /\ i <= Len(s) => key[s[i]] > v

(***************************************************************************)
(* The insertion loop shared by pend_list_add and tick_list_pri_insert:    *)
(* walk from the head past the entries whose key is not greater, and       *)
(* klist_insert in front of the entry (or the head) where the walk stops.  *)
(***************************************************************************)
SortedInsert(s, e, key) == InsertAt(s, FirstAbove(s, key, key[e]), e)

(* No entry is linked twice. *)
Linear(s) == \A i, j \in 1 .. Len(s) : s[i] = s[j] => i = j

(* The entries are in the order of their keys. *)
Sorted(s, key) == \A i, j \in 1 .. Len(s) : i <= j => key[s[i]] <= key[s[j]]
==============================================================================
