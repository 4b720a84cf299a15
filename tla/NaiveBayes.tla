------------------------------ MODULE NaiveBayes ------------------------------
(***************************************************************************)
(* The reputation of a device in one network: the counters of              *)
(* AtlasDeviceFeatureManager and the arithmetic of                         *)
(* AtlasReputationNaiveBayes.                                              *)
(*                                                                         *)
(* The code computes in doubles.  Here feedback is a number of Scale-ths,  *)
(* weights are tenths and a score is an exact fraction.                    *)
(***************************************************************************)
EXTENDS Integers, Sequences, SequencesExt, Folds

CONSTANT Scale       \* the feedback value that stands for 1.0
ASSUME ScaleAssumption == Scale \in Nat \ {0}

Networks == {"SYSTEM", "SENSOR_TEMPERATURE"}

(* The features of each network, in the order they are added.              *)
DefaultFeatures(n) ==
  IF n = "SYSTEM"
  THEN <<"REGISTER_TIME", "KEEPALIVE_PACKETS", "VALID_PACKETS">>
  ELSE <<"SENSOR", "RESP_TIME">>

Weight(f) == [REGISTER_TIME |-> 4, KEEPALIVE_PACKETS |-> 3, VALID_PACKETS |-> 3,
              SENSOR |-> 7, RESP_TIME |-> 3][f]

(* ATLAS_SYSTEM_REPUTATION_THRESHOLD and its data twin are both 0.8.       *)
Satisfies(v) == 10 * v >= 8 * Scale

Fraction == [num : Nat, den : Nat \ {0}]
Zero == [num |-> 0, den |-> 1]
LessThan(x, y) == x.num * y.den < y.num * x.den

(* AtlasDeviceFeature: a type and its successful transactions.             *)
Feature(type) == [type |-> type, succ |-> 0]
NewManager == [total |-> 0, success |-> 0, features |-> <<>>, score |-> Zero]
Types(m) == {m.features[i].type : i \in DOMAIN m.features}

addFeature(m, type) ==
  IF type \in Types(m) THEN m ELSE [m EXCEPT !.features = Append(@, Feature(type))]

setSuccessfulTransactions(m, type, k) ==
  [m EXCEPT !.features = [i \in DOMAIN @ |-> IF @[i].type = type THEN [@[i] EXCEPT !.succ = k]
                                                                ELSE @[i]]]

(* A feature's share of the successful transactions, multiplied into the   *)
(* product under way.                                                      *)
computeReputationForFeature(m, feature, product) ==
  IF m.total = 0 \/ m.success = 0 \/ feature.succ = 0
  THEN Zero
  ELSE [num |-> product.num * feature.succ, den |-> product.den * m.success]

Score(m) ==
  FoldLeft(LAMBDA product, feature : computeReputationForFeature(m, feature, product),
           [num |-> m.success, den |-> m.total], m.features)

Recompute(m) == IF m.total = 0 THEN m ELSE [m EXCEPT !.score = Score(m)]

(* One more transaction, with the given value of each feature.  The        *)
(* index operator of the manager reads past the vector when a feature is   *)
(* missing from it: then the sum it compares may be anything.              *)
Satisfactions(m, feedbackMatrix) ==
  IF \A i \in DOMAIN feedbackMatrix : feedbackMatrix[i].type \in Types(m)
  THEN {FoldLeft(LAMBDA sum, e : sum + e.val * Weight(e.type), 0, feedbackMatrix) >= 8 * Scale}
  ELSE BOOLEAN

SatisfiedBy(feedbackMatrix, type) ==
  \E i \in DOMAIN feedbackMatrix : /\ feedbackMatrix[i].type = type
                                   /\ Satisfies(feedbackMatrix[i].val)

computeReputation(m, feedbackMatrix, satisfied) ==
  LET counted == [m EXCEPT !.total = @ + 1]
      credited == [counted EXCEPT
        !.success = @ + 1,
        !.features = [i \in DOMAIN @ |->
          IF SatisfiedBy(feedbackMatrix, @[i].type) THEN [@[i] EXCEPT !.succ = @ + 1] ELSE @[i]]]
  IN  Recompute(IF satisfied THEN credited ELSE counted)
=============================================================================
