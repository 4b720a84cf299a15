---------------------------- MODULE ReputationStore ----------------------------
(***************************************************************************)
(* The two tables of the gateway's SQLite database that hold reputations.  *)
(* A row of NaiveBayesNetwork belongs to a device and a network type, a    *)
(* row of NaiveBayesFeature to a row of the first table.  Nothing keeps a  *)
(* device from having several rows, so the tables are sequences of rows    *)
(* per device and network, in the order of their ids.                      *)
(*                                                                         *)
(* Every statement commits on its own.  A handler is given by the          *)
(* statements it executes, and what may befall it is that one of them      *)
(* fails, which skips the rest of the insert or update it belongs to, or   *)
(* that the process dies before one of them, which skips all the rest.     *)
(***************************************************************************)
EXTENDS NaiveBayes

CONSTANT Devices     \* the identities in table Device

NetworkRow == [total : Nat, success : Nat]
Empty == [networks |-> <<>>, features |-> <<>>]
EmptyStore == [d \in Devices |-> [n \in Networks |-> Empty]]

IsStore(db) ==
  \A d \in Devices, n \in Networks :
    /\ db[d][n].networks \in Seq(NetworkRow)
    /\ \A i \in DOMAIN db[d][n].features :
         /\ db[d][n].features[i].type \in {DefaultFeatures(n)[j] : j \in DOMAIN DefaultFeatures(n)}
         /\ db[d][n].features[i].succ \in Nat
    /\ db[d][n].features # <<>> => db[d][n].networks # <<>>

checkDeviceForFeatures(table) == table.features # <<>>

(* The statements that write.  A feature row goes to the first network     *)
(* row found, and an update reaches every row of the device and network.   *)
insertNetwork(table, row) == [table EXCEPT !.networks = Append(@, row)]
insertFeature(table, row) == [table EXCEPT !.features = Append(@, row)]
updateNetwork(table, row) == [table EXCEPT !.networks = [i \in DOMAIN @ |-> row]]
updateFeature(table, row) ==
  [table EXCEPT !.features = [i \in DOMAIN @ |-> IF @[i].type = row.type THEN row ELSE @[i]]]

Executed(table, statement) ==
  CASE statement.op = "insertNetwork" -> insertNetwork(table, statement.network)
    [] statement.op = "insertFeature" -> insertFeature(table, statement.feature)
    [] statement.op = "updateNetwork" -> updateNetwork(table, statement.network)
    [] statement.op = "updateFeature" -> updateFeature(table, statement.feature)

(* The statements that store a manager: its network first.                 *)
Statements(d, n, m, network, feature) ==
  <<[op |-> network, d |-> d, n |-> n,
     network |-> [total |-> m.total, success |-> m.success]]>>
  \o [i \in DOMAIN m.features |->
        [op |-> feature, d |-> d, n |-> n, feature |-> m.features[i]]]

insertBayesParams(d, n, m) == Statements(d, n, m, "insertNetwork", "insertFeature")

\* Seeded fault: the rows are written in the opposite order.
updateBayesParamsBackwards(d, n, m) ==
  Reverse(Statements(d, n, m, "updateNetwork", "updateFeature"))
\* Seeded fault: the features' rows are not written.
updateBayesParamsNetworkOnly(d, n, m) ==
  Statements(d, n, [m EXCEPT !.features = <<>>], "updateNetwork", "updateFeature")
updateBayesParams(d, n, m) == Statements(d, n, m, "updateNetwork", "updateFeature")

(* What may befall a handler with these statements.                        *)
Fine == [kind |-> "none", at |-> 0]
Failures(statements) == [kind : {"fail"}, at : DOMAIN statements]
Deaths(statements) == [kind : {"crash"}, at : DOMAIN statements]

Effective(statements, fault) ==
  IF fault.kind = "none" THEN statements
  ELSE LET before == SubSeq(statements, 1, fault.at - 1)
           after == SubSeq(statements, fault.at + 1, Len(statements))
           hit == statements[fault.at]
       IN  IF fault.kind = "crash" THEN before
           ELSE before \o SelectSeq(after, LAMBDA s : s.d # hit.d \/ s.n # hit.n)

Execute(db, statements, fault) ==
  FoldLeft(LAMBDA acc, s : [acc EXCEPT ![s.d][s.n] = Executed(@, s)],
           db, Effective(statements, fault))

(* What is read back: the totals of the first network row, then a feature  *)
(* per row, the last row of a type deciding.  A select that fails stops    *)
(* where it is: before the network, or after k feature rows.               *)
selectNetwork(table, m) ==
  IF table.networks = <<>> THEN m
  ELSE [m EXCEPT !.total = table.networks[1].total, !.success = table.networks[1].success]

selectFeatures(table, m, k) ==
  FoldLeft(LAMBDA acc, row : setSuccessfulTransactions(addFeature(acc, row.type), row.type, row.succ),
           m, SubSeq(table.features, 1, k))

selectBayesParams(table) ==
  selectFeatures(table, selectNetwork(table, NewManager), Len(table.features))

PartlyRead(table) ==
  {NewManager} \cup {selectFeatures(table, selectNetwork(table, NewManager), k) :
                       k \in 0 .. Len(table.features) - 1}
=============================================================================
