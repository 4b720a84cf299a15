------------------------------ MODULE RuleTable ------------------------------
(***************************************************************************)
(* What the broker's firewall promises, without sockets, threads or        *)
(* restarts: a table kept by one side is copied to the other through a     *)
(* sequence of updates.  While the two are in sync every change of the     *)
(* source is appended to the updates, and applying the updates to the copy *)
(* gives the source.  Out of sync nothing is promised.                     *)
(***************************************************************************)
EXTENDS Naturals, Sequences, FiniteSetsExt

CONSTANTS Keys, Values

VARIABLES
  source,   \* key -> value, where the table is decided
  copy,     \* key -> value, where the table is enforced
  pending,  \* updates [id, value] that are not applied yet, oldest first
  insync    \* whether the promise holds

vars == <<source, copy, pending, insync>>

(* The updates are of the table's keys and values.                         *)
TypeOK ==
  /\ source \in [Keys -> Values]
  /\ copy \in [Keys -> Values]
  /\ pending \in Seq([id : Keys, value : Values])
  /\ insync \in BOOLEAN

(* A table after a sequence of updates: the newest one of a key decides.   *)
Replay(table, updates) ==
  [k \in Keys |->
     LET of == {i \in DOMAIN updates : updates[i].id = k}
     IN  IF of = {} THEN table[k] ELSE updates[Max(of)].value]

Init ==
  /\ source \in [Keys -> Values]
  /\ copy \in [Keys -> Values]
  /\ pending = <<>>
  /\ insync = FALSE

(* The source changes in step with what is appended to the updates.        *)
Change ==
  /\ insync /\ insync'
  /\ Len(pending') >= Len(pending)
  /\ SubSeq(pending', 1, Len(pending)) = pending
  /\ source' = Replay(source, SubSeq(pending', Len(pending) + 1, Len(pending')))
  /\ UNCHANGED copy

(* The oldest update is applied.                                           *)
Deliver ==
  /\ insync
  /\ pending # <<>>
  /\ copy' = [copy EXCEPT ![Head(pending).id] = Head(pending).value]
  /\ pending' = Tail(pending)
  /\ UNCHANGED <<source, insync>>

(* An entry that is about to be updated may read as anything meanwhile.    *)
Waver ==
  /\ insync
  /\ \A k \in Keys :
       copy'[k] # copy[k] => \E i \in DOMAIN pending : pending[i].id = k
  /\ UNCHANGED <<source, pending, insync>>

(* Sync is gained only with updates that make the copy the source.         *)
Resync ==
  /\ ~insync /\ insync'
  /\ Replay(copy', pending') = source'

Lose == ~insync'

Next ==
  /\ TypeOK'
  /\ Change \/ Deliver \/ Waver \/ Resync \/ Lose

Spec == Init /\ [][Next]_vars

(* In sync, the copy and the updates on their way make the source.         *)
Agreement == insync => Replay(copy, pending) = source
=============================================================================
