---------------------------- MODULE SampleStore ----------------------------
(***************************************************************************)
(* The time-series store as its writers see it: the append rules of the    *)
(* embedded Prometheus TSDB, a library, under the options NewStore gives   *)
(* it, and Store.insertData on top of them.                                *)
(*                                                                         *)
(* A sample is [s, t, v]: a series, a time in seconds and a payload.  The  *)
(* samples of one batch carry one payload: all that matters of a value is  *)
(* whether another batch brought a different one.                          *)
(***************************************************************************)
EXTENDS Naturals, FiniteSets, FiniteSetsExt

Sample(s, t, v) == [s |-> s, t |-> t, v |-> v]
Batch(series, t, v) == {Sample(s, t, v) : s \in series}

Times(db, s) == {x.t : x \in {y \in db : y.s = s}}

(* GetLastTimestamp: 0 when the series has no sample. *)
LastTime(db, s) == IF Times(db, s) = {} THEN 0 ELSE Max(Times(db, s))

(* The samples of a batch whose place is taken by a different value. *)
Clashing(db, b) ==
  {x \in b : \E y \in db : y.s = x.s /\ y.t = x.t /\ y.v # x.v}

(* Append under an out-of-order window of 0: nothing older gets in. *)
RefusesOlder(db, b) ==
  \/ \E x \in b : x.t < LastTime(db, x.s)
  \/ \E x \in Clashing(db, b) : x.t = LastTime(db, x.s)

(* Append refuses a sample, and insertData then rolls the whole batch back,  *)
(* when the newest sample of its series has the same time and a different    *)
(* value.  Older samples get in: the out-of-order window is ten years.       *)
Refuses(db, b) == \E x \in Clashing(db, b) : x.t = LastTime(db, x.s)

(* A commit says nothing of a sample that clashes only now: the newest       *)
(* sample of the series keeps its value; for an older one a reader may from  *)
(* then on find either.                                                      *)
Stored(db, b) ==
  LET late == {x \in Clashing(db, b) : x.t < LastTime(db, x.s)}
  IN  {(db \ {y \in db : \E x \in win : x.s = y.s /\ x.t = y.t})
         \cup (b \ (Clashing(db, b) \ win)) : win \in SUBSET late}

(* Commit: on a closed store it fails, on an open one it may, when the log   *)
(* it writes ahead cannot be written; then nothing of the batch is stored.   *)
Commit(open, db, b) ==
  {[db |-> db, err |-> TRUE]}
    \cup IF open THEN {[db |-> after, err |-> FALSE] : after \in Stored(db, b)} ELSE {}
=============================================================================
