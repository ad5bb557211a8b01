-------------------------- MODULE UpgradeHandover --------------------------
(***************************************************************************)
(* The upgraded database is one in which module Delivery may begin.        *)
(***************************************************************************)
EXTENDS Upgrade

\* A row and its receipt with the columns of Delivery; the script leaves no
\* claim, no deferral and no resolution.
DeliveryRow(i) ==
  [state |-> db.queue[i].state, applied |-> db.queue[i].applied, approval |-> db.queue[i].approval,
   resolution |-> "none", lease |-> "none", due |-> TRUE, attempts |-> 0]
DeliveryReceipt(i) == [status |-> db.receipt[i], same |-> TRUE]

D == INSTANCE Delivery WITH
  Workers <- {}, Deliveries <- Ids, Players <- {"account"}, Owner <- [i \in Ids |-> "account"],
  Stalls <- FALSE, CarefulAdmin <- FALSE, MaxBudget <- 0, MaxFaults <- 0, MaxFlips <- 0,
  queue <- [i \in Ids |-> DeliveryRow(i)], receipt <- [i \in Ids |-> DeliveryReceipt(i)],
  event <- [i \in Ids |-> "NONE"], worker <- [w \in {} |-> "none"], online <- {},
  inflight <- {}, granted <- [i \in Ids |-> {}], budget <- [i \in Ids |-> 0],
  refuted <- [i \in Ids |-> {}], faults <- 0, flips <- 0

\* When an upgrade has succeeded and nothing has happened since, queue and
\* receipts are an initial state of Delivery: each historical row is one that
\* Delivery knows how to treat, and there are no others.
HandsOver ==
  /\ old.version # "fresh" /\ ready /\ approved = {}
  /\ \A i \in Ids \ Historical : ~Exists(db, i)
  => D!Init
=============================================================================
