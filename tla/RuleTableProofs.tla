--------------------------- MODULE RuleTableProofs ---------------------------
(***************************************************************************)
(* What the copied table promises follows from its steps: in sync, the     *)
(* copy and the updates on their way make the source.  With the refinement *)
(* FirewallRules!ImplementsRuleTable this is what the plug-in's rules and  *)
(* the gateway's policies promise.                                         *)
(***************************************************************************)
EXTENDS RuleTable, SequenceTheorems, WellFoundedInduction, TLAPS

\* Zenon proves what no pragma is cited for; arithmetic and sequences are for SMT.
USE Zenon

(* A nonempty set of positions of a sequence has a last one.               *)
LEMMA LastPosition ==
  ASSUME NEW n \in Nat, NEW S, S \subseteq 1 .. n, S # {}
  PROVE  Max(S) \in S /\ \A j \in S : j <= Max(S)
<1> DEFINE Less == {ss \in Nat \X Nat : ss[1] < ss[2]}
           T == {n - i : i \in S}
<1>1. IsWellFoundedOn(Less, Nat)
  BY NatLessThanWellFounded DEF OpToRel
<1>2. T \subseteq Nat /\ T # {}
  <2>1. PICK i \in S : TRUE
    OBVIOUS
  <2>2. n - i \in T
    OBVIOUS
  <2>3. \A j \in S : n - j \in Nat
    BY SMT
  <2> QED BY <2>2, <2>3
<1>3. PICK x \in T : \A y \in T : ~(y < x)
  <2> HIDE DEF Less, T
  <2>1. PICK x \in T : \A y \in T : ~(<<y, x>> \in Less)
    BY <1>1, <1>2, WFMin
  <2>2. \A y \in T : y < x => <<y, x>> \in Less
    BY <1>2 DEF Less
  <2> QED BY <2>1, <2>2
<1>4. PICK m \in S : x = n - m
  OBVIOUS
<1>5. \A j \in S : m >= j
  BY <1>3, <1>4, SMTT(20)
<1> QED BY <1>5 DEF Max

Updates == Seq([id : Keys, value : Values])

(* i is the position of the newest update of k.                            *)
Newest(u, k, i) ==
  /\ i \in 1 .. Len(u)
  /\ u[i].id = k
  /\ \A j \in 1 .. Len(u) : j > i => u[j].id # k

Untouched(u, k) == \A j \in 1 .. Len(u) : u[j].id # k

(* A key has no update, or a newest one.                                   *)
LEMMA NoneOrNewest ==
  ASSUME NEW u \in Updates, NEW k
  PROVE  Untouched(u, k) \/ \E i \in 1 .. Len(u) : Newest(u, k, i)
<1> DEFINE S == {i \in 1 .. Len(u) : u[i].id = k}
<1>1. CASE S = {}
  BY <1>1 DEF Untouched
<1>2. CASE S # {}
  <2>1. Len(u) \in Nat
    BY SMT DEF Updates
  <2>2. Max(S) \in S /\ \A j \in S : j <= Max(S)
    BY <1>2, <2>1, LastPosition
  <2> QED BY <2>1, <2>2, SMT DEF Newest
<1> QED BY <1>1, <1>2

(* A key without an update keeps its value.                                *)
LEMMA ReplayUntouched ==
  ASSUME NEW t, NEW u \in Updates, NEW k \in Keys, Untouched(u, k)
  PROVE  Replay(t, u)[k] = t[k]
<1>1. DOMAIN u = 1 .. Len(u)
  BY SMT DEF Updates
<1>2. {i \in DOMAIN u : u[i].id = k} = {}
  BY <1>1 DEF Untouched
<1> QED BY <1>2 DEF Replay

(* Otherwise it has the value of the newest update.                        *)
LEMMA ReplayNewest ==
  ASSUME NEW t, NEW u \in Updates, NEW k \in Keys, NEW i, Newest(u, k, i)
  PROVE  Replay(t, u)[k] = u[i].value
<1> DEFINE S == {j \in DOMAIN u : u[j].id = k}
<1>1. DOMAIN u = 1 .. Len(u) /\ Len(u) \in Nat
  BY SMT DEF Updates
<1>2. i \in S
  BY <1>1 DEF Newest
<1>3. Max(S) \in S /\ \A j \in S : j <= Max(S)
  BY <1>1, <1>2, LastPosition
<1>4. \A m \in S : (\A j \in S : j <= m) => m = i
  BY <1>1, <1>2, SMT DEF Newest
<1>5. Replay(t, u)[k] = IF S = {} THEN t[k] ELSE u[Max(S)].value
  BY DEF Replay
<1>6. Max(S) = i
  <2> HIDE DEF S
  <2> QED BY <1>3, <1>4
<1> QED BY <1>2, <1>5, <1>6

(* Two replays that agree on every key are equal.                          *)
LEMMA ReplayEqual ==
  ASSUME NEW t, NEW u, NEW t2, NEW u2,
         \A k \in Keys : Replay(t, u)[k] = Replay(t2, u2)[k]
  PROVE  Replay(t, u) = Replay(t2, u2)
<1>1. Replay(t, u) = [k \in Keys |-> Replay(t, u)[k]]
  BY DEF Replay
<1>2. Replay(t2, u2) = [k \in Keys |-> Replay(t2, u2)[k]]
  BY DEF Replay
<1> QED BY <1>1, <1>2

(* Applying the oldest update does not change what the updates lead to.    *)
LEMMA DeliverOne ==
  ASSUME NEW t \in [Keys -> Values], NEW u \in Updates, u # <<>>
  PROVE  Replay([t EXCEPT ![Head(u).id] = Head(u).value], Tail(u)) = Replay(t, u)
<1> DEFINE t2 == [t EXCEPT ![Head(u).id] = Head(u).value]
<1>1. /\ Tail(u) \in Updates /\ Len(u) \in Nat \ {0}
      /\ Len(Tail(u)) = Len(u) - 1 /\ Head(u) = u[1]
      /\ \A j \in 1 .. Len(u) - 1 : Tail(u)[j] = u[j + 1]
      /\ u[1].id \in Keys
  <2>1. Len(u) \in Nat \ {0} /\ Head(u) = u[1]
    BY EmptySeq, SMT DEF Updates
  <2>2. /\ Tail(u) \in Updates
        /\ Len(Tail(u)) = Len(u) - 1
        /\ \A j \in 1 .. Len(Tail(u)) : Tail(u)[j] = u[j + 1]
    BY HeadTailProperties DEF Updates
  <2>3. u[1] \in [id : Keys, value : Values]
    <3>1. 1 \in 1 .. Len(u)
      BY <2>1, SMT
    <3> QED BY <3>1, ElementOfSeq DEF Updates
  <2> QED BY <2>1, <2>2, <2>3
<1>2. \A k \in Keys : t2[k] = IF u[1].id = k THEN u[1].value ELSE t[k]
  BY <1>1
<1>3. ASSUME NEW k \in Keys
      PROVE  Replay(t2, Tail(u))[k] = Replay(t, u)[k]
  <2> HIDE DEF t2
  <2>1. CASE Untouched(u, k)
    <3>1. Untouched(Tail(u), k) /\ u[1].id # k
      BY <1>1, <2>1, SMT DEF Untouched
    <3> QED BY <1>1, <1>2, <2>1, <3>1, ReplayUntouched, SMT
  <2>2. ASSUME NEW i \in 1 .. Len(u), Newest(u, k, i)
        PROVE  Replay(t2, Tail(u))[k] = Replay(t, u)[k]
    <3>1. Replay(t, u)[k] = u[i].value
      BY <2>2, ReplayNewest, SMT
    <3>2. CASE i = 1
      <4>1. Untouched(Tail(u), k) /\ u[1].id = k
        BY <1>1, <2>2, <3>2, SMT DEF Untouched, Newest
      <4> QED BY <1>1, <1>2, <3>1, <3>2, <4>1, ReplayUntouched, SMT
    <3>3. CASE i > 1
      <4>1. PICK m \in 1 .. Len(Tail(u)) : i = m + 1
        <5>1. i - 1 \in 1 .. Len(Tail(u)) /\ i = (i - 1) + 1
          BY <1>1, <3>3, SMT
        <5> QED BY <5>1
      <4>2. Newest(Tail(u), k, m) /\ Tail(u)[m] = u[i]
        BY <1>1, <2>2, <4>1, SMT DEF Newest
      <4>3. Replay(t2, Tail(u))[k] = Tail(u)[m].value
        <5> DEFINE r == Tail(u)
        <5>1. r \in Updates /\ Newest(r, k, m)
          BY <1>1, <4>2
        <5> HIDE DEF r
        <5>2. Replay(t2, r)[k] = r[m].value
          BY <5>1, ReplayNewest, SMT
        <5> QED BY <5>2 DEF r
      <4> QED BY <3>1, <4>2, <4>3
    <3> QED BY <3>2, <3>3, <1>1, SMT
  <2> QED BY <2>1, <2>2, NoneOrNewest
<1>4. Replay(t2, Tail(u)) = Replay(t, u)
  <2> HIDE DEF t2
  <2> QED BY <1>3, ReplayEqual, SMT
<1> QED BY <1>4

(* w is u followed by v.                                                   *)
InTurn(u, v, w) ==
  /\ Len(w) = Len(u) + Len(v)
  /\ \A j \in 1 .. Len(u) : w[j] = u[j]
  /\ \A j \in 1 .. Len(v) : w[Len(u) + j] = v[j]

(* Of updates u followed by v, those in v are replayed after those in u.   *)
LEMMA ReplayInTurn ==
  ASSUME NEW t, NEW u \in Updates, NEW v \in Updates, NEW w \in Updates,
         InTurn(u, v, w)
  PROVE  Replay(t, w) = Replay(Replay(t, u), v)
<1>1. Len(u) \in Nat /\ Len(v) \in Nat /\ Len(w) \in Nat
  BY SMT DEF Updates
<1> USE DEF InTurn
<1>2. ASSUME NEW k \in Keys
      PROVE  Replay(t, w)[k] = Replay(Replay(t, u), v)[k]
  <2>1. CASE Untouched(w, k)
    <3>1. Untouched(u, k)
      BY <1>1, <2>1, SMT DEF Untouched
    <3>2. Untouched(v, k)
      <4>1. ASSUME NEW j \in 1 .. Len(v)
            PROVE  v[j].id # k
        <5>1. Len(u) + j \in 1 .. Len(w)
          BY <1>1, SMT
        <5> QED BY <2>1, <5>1 DEF Untouched
      <4> QED BY <4>1 DEF Untouched
    <3> QED BY <2>1, <3>1, <3>2, ReplayUntouched, SMT
  <2>2. ASSUME NEW i \in 1 .. Len(w), Newest(w, k, i)
        PROVE  Replay(t, w)[k] = Replay(Replay(t, u), v)[k]
    <3>1. Replay(t, w)[k] = w[i].value
      BY <2>2, ReplayNewest, SMT
    <3>2. \A j \in 1 .. Len(v) : Len(u) + j > i => v[j].id # k
      <4>1. ASSUME NEW j \in 1 .. Len(v), Len(u) + j > i
            PROVE  v[j].id # k
        <5>1. Len(u) + j \in 1 .. Len(w)
          BY <1>1, SMT
        <5> QED BY <2>2, <4>1, <5>1 DEF Newest
      <4> QED BY <4>1
    <3>3. CASE i <= Len(u)
      <4>1. Newest(u, k, i) /\ u[i] = w[i]
        BY <1>1, <2>2, <3>3, SMT DEF Newest
      <4>2. Untouched(v, k)
        BY <1>1, <3>2, <3>3, SMT DEF Untouched
      <4>3. Replay(Replay(t, u), v)[k] = Replay(t, u)[k]
        BY <4>2, ReplayUntouched
      <4>4. Replay(t, u)[k] = u[i].value
        BY <4>1, ReplayNewest, SMT
      <4> QED BY <3>1, <4>1, <4>3, <4>4
    <3>4. ASSUME i > Len(u)
          PROVE  Replay(t, w)[k] = Replay(Replay(t, u), v)[k]
      <4>1. PICK m \in 1 .. Len(v) : i = Len(u) + m
        <5>1. i - Len(u) \in 1 .. Len(v) /\ i = Len(u) + (i - Len(u))
          BY <1>1, <3>4, SMT
        <5> QED BY <5>1
      <4>2. v[m] = w[i]
        BY <4>1
      <4>3. Newest(v, k, m)
        BY <1>1, <2>2, <3>2, <4>1, <4>2, SMT DEF Newest
      <4>4. Replay(Replay(t, u), v)[k] = v[m].value
        BY <4>3, ReplayNewest, SMT
      <4> QED BY <3>1, <4>2, <4>4
    <3> QED BY <1>1, <3>3, <3>4, SMT
  <2> QED BY <2>1, <2>2, NoneOrNewest
<1> QED BY <1>2, ReplayEqual, SMT

(* Updates appended to others are replayed after them.                     *)
LEMMA ReplayAppended ==
  ASSUME NEW t, NEW u \in Updates, NEW w \in Updates,
         Len(w) >= Len(u), SubSeq(w, 1, Len(u)) = u
  PROVE  Replay(t, w) = Replay(Replay(t, u), SubSeq(w, Len(u) + 1, Len(w)))
<1> DEFINE v == SubSeq(w, Len(u) + 1, Len(w))
<1>1. Len(u) \in Nat /\ Len(w) \in Nat
  BY SMT DEF Updates
<1>2. \A j \in 1 .. Len(w) : w[j] \in [id : Keys, value : Values]
  BY ElementOfSeq DEF Updates
<1>3. \A j \in 1 .. Len(u) : w[j] = u[j]
  <2>1. \A j \in 1 .. Len(u) - 1 + 1 : SubSeq(w, 1, Len(u))[j] = w[1 + j - 1]
    BY <1>1, <1>2, SubSeqProperties, SMT
  <2> QED BY <1>1, <2>1, SMT
<1>4. /\ v \in Updates
      /\ Len(v) = IF Len(u) + 1 <= Len(w) THEN Len(w) - (Len(u) + 1) + 1 ELSE 0
      /\ \A j \in 1 .. Len(w) - (Len(u) + 1) + 1 : v[j] = w[Len(u) + 1 + j - 1]
  <2>1. Len(u) + 1 \in Int /\ Len(w) \in Int
    BY <1>1, SMT
  <2>2. \A j \in Len(u) + 1 .. Len(w) : w[j] \in [id : Keys, value : Values]
    BY <1>1, <1>2, SMT
  <2> QED BY <2>1, <2>2, SubSeqProperties, SMT DEF Updates
<1>5. Replay(t, w) = Replay(Replay(t, u), v)
  <2> HIDE DEF v
  <2>1. v \in Updates /\ InTurn(u, v, w)
    BY <1>1, <1>3, <1>4, SMT DEF InTurn
  <2> QED BY <2>1, ReplayInTurn, SMT
<1> QED BY <1>5

(* Only keys with an update may read differently.                          *)
LEMMA ReplayWavering ==
  ASSUME NEW t, NEW t2, NEW u \in Updates,
         \A k \in Keys : t2[k] # t[k] => \E i \in DOMAIN u : u[i].id = k
  PROVE  Replay(t2, u) = Replay(t, u)
<1>1. ASSUME NEW k \in Keys
      PROVE  Replay(t2, u)[k] = Replay(t, u)[k]
  <2>1. CASE Untouched(u, k)
    <3>1. DOMAIN u = 1 .. Len(u)
      BY SMT DEF Updates
    <3>2. t2[k] = t[k]
      BY <2>1, <3>1 DEF Untouched
    <3> QED BY <2>1, <3>2, ReplayUntouched
  <2>2. ASSUME NEW i \in 1 .. Len(u), Newest(u, k, i)
        PROVE  Replay(t2, u)[k] = Replay(t, u)[k]
    BY <2>2, ReplayNewest, SMT
  <2> QED BY <2>1, <2>2, NoneOrNewest
<1> QED BY <1>1, ReplayEqual, SMT

(* Whatever steps the table takes, in sync the copy and the updates on     *)
(* their way make the source: what the plug-in polices by is, after the    *)
(* commands in its socket, what the gateway decided.                       *)
THEOREM AgreementHolds == Spec => [](TypeOK /\ Agreement)
<1>1. Init => TypeOK /\ Agreement
  BY EmptySeq DEF Init, TypeOK, Agreement
<1>2. TypeOK /\ Agreement /\ [Next]_vars => (TypeOK /\ Agreement)'
  <2> SUFFICES ASSUME TypeOK, Agreement, [Next]_vars
               PROVE  TypeOK' /\ Agreement'
    OBVIOUS
  <2>1. CASE UNCHANGED vars
    BY <2>1 DEF TypeOK, Agreement, vars
  <2>2. ASSUME Next
        PROVE  TypeOK' /\ Agreement'
    <3>1. TypeOK' /\ pending \in Updates /\ pending' \in Updates
      BY <2>2 DEF Next, TypeOK, Updates
    <3>2. CASE Change
      <4>1. Replay(copy, pending') = Replay(Replay(copy, pending), SubSeq(pending', Len(pending) + 1, Len(pending')))
        BY <3>1, <3>2, ReplayAppended DEF Change
      <4> QED BY <3>1, <3>2, <4>1 DEF Change, Agreement
    <3>3. CASE Deliver
      <4>1. Replay(copy', pending') = Replay(copy, pending)
        BY <3>1, <3>3, DeliverOne DEF Deliver, TypeOK
      <4> QED BY <3>1, <3>3, <4>1 DEF Deliver, Agreement
    <3>4. CASE Waver
      <4>1. Replay(copy', pending) = Replay(copy, pending)
        BY <3>1, <3>4, ReplayWavering DEF Waver
      <4> QED BY <3>1, <3>4, <4>1 DEF Waver, Agreement
    <3>5. CASE Resync
      BY <3>1, <3>5 DEF Resync, Agreement
    <3>6. CASE Lose
      BY <3>1, <3>6 DEF Lose, Agreement
    <3> QED BY <2>2, <3>2, <3>3, <3>4, <3>5, <3>6 DEF Next
  <2> QED BY <2>1, <2>2
<1> QED BY <1>1, <1>2, PTL DEF Spec
=============================================================================
