------------------------------- MODULE KvMap -------------------------------
(***************************************************************************)
(* What the key-value store promises its callers (aos/kv.h): a map from    *)
(* keys to values.  A call takes effect at one moment between its          *)
(* invocation and its answer; after a power failure a call that was under  *)
(* way has taken effect or has not by the time the store is up again, and  *)
(* everything that was answered is still there.                            *)
(***************************************************************************)
CONSTANTS
  Task,     \* the callers
  Keys, Values,
  None,     \* no value; also the owner of the changes a power failure cut off
  Requests  \* the calls: records [op, keys, val]

VARIABLES
  store,    \* the map
  call,     \* the call each task has under way
  req,      \* the changes <<key, value>> of the calls under way still to be made
  ans       \* the last answer of each task

NoCall == [op |-> "none", keys |-> {}, val |-> None]

(* What a call has to change: a prefix deletion one key after the other. *)
Changes(c) == IF c.op = "get" THEN {} ELSE c.keys \X {c.val}

Unmade(changes, map) == {c \in changes : map[c[1]] # c[2]}

Init ==
  /\ store = [k \in Keys |-> None]
  /\ call = [t \in Task |-> NoCall]
  /\ req = [o \in Task \cup {None} |-> {}]
  /\ ans = [t \in Task |-> "RES_OK"]

Invoke(t) ==
  /\ call[t] = NoCall
  /\ \E c \in Requests :
       /\ call' = [call EXCEPT ![t] = c]
       /\ req' = [req EXCEPT ![t] = Changes(c)]
  /\ UNCHANGED <<store, ans>>

Apply(o) ==
  /\ \E c \in req[o] : store' = [store EXCEPT ![c[1]] = c[2]]
  /\ req' = [req EXCEPT ![o] = Unmade(@, store')]
  /\ UNCHANGED <<call, ans>>

(* The answers the state of the map allows to the call of t. *)
Fits(t, res) ==
  LET c == call[t]
  IN  CASE res = "RES_OK"             -> c.op # "get" /\ Unmade(req[t], store) = {}
        [] res = "RES_NO_SPACE"       -> c.op = "set" /\ req[t] = Changes(c)
        [] res = "RES_ITEM_NOT_FOUND" -> c.op \in {"get", "del"} /\ \A k \in c.keys : store[k] = None
        [] OTHER                      -> c.op = "get" /\ \A k \in c.keys : store[k] = res

Answer(t) ==
  /\ call[t] # NoCall
  /\ \E res \in {"RES_OK", "RES_NO_SPACE", "RES_ITEM_NOT_FOUND"} \cup Values :
       Fits(t, res) /\ ans' = [ans EXCEPT ![t] = res]
  /\ call' = [call EXCEPT ![t] = NoCall]
  /\ req' = [req EXCEPT ![t] = {}]
  /\ UNCHANGED store

(* The calls under way are gone; what they had still to change may yet happen. *)
PowerFail ==
  /\ call' = [t \in Task |-> NoCall]
  /\ req' = [o \in Task \cup {None} |-> IF o = None THEN UNION {req[p] : p \in Task \cup {None}} ELSE {}]
  /\ ans' = [t \in Task |-> "RES_OK"]
  /\ UNCHANGED store

(* The store is up: what has not happened by now never will. *)
Ready ==
  /\ req' = [req EXCEPT ![None] = {}]
  /\ UNCHANGED <<store, call, ans>>

Next ==
  \/ \E t \in Task : Invoke(t) \/ Answer(t)
  \/ \E o \in Task \cup {None} : Apply(o)
  \/ PowerFail
  \/ Ready

Spec == Init /\ [][Next]_<<store, call, req, ans>>
=============================================================================
