------------------------------ MODULE MCWasteSweep ------------------------------
(* Small instances of WasteSweep for TLC. *)
EXTENDS WasteSweep, TLC

CONSTANTS a, b, budget

\* One day, a drift of less than a twentieth of a point, of just that, and of all
\* there is when the last day has no figure.
MCCoverages == {<<8000>>, <<8000, 8004>>, <<8000, 8005>>, <<8000, 0>>}

Item(type, cost) == [type |-> type, marketplace |-> FALSE, transfer |-> FALSE, cost |-> cost]
MCBills ==
    { <<>>,
      <<Item("fee", 90000), Item("usage", 900), Item("credit", -50000)>>,
      <<Item("usage", 900), Item("credit", -50000)>>,
      <<Item("refund", -50000)>>,
      <<[Item("usage", 30000) EXCEPT !.marketplace = TRUE]>>,
      <<[Item("usage", 30000) EXCEPT !.transfer = TRUE]>> }

Listed(list, id, amount) == [list |-> list, id |-> id, amount |-> amount]
MCReports ==
    { {},
      {Listed("unused_key_pairs", "k", 0), Listed("stopped_instances", "i", 0)},
      {Listed("unused_ebs_volumes", "v", 1249), Listed("unused_load_balancers", "l", 0)},
      {Listed("stopped_volumes", "v", 1000), Listed("unused_amis", "m", 1999)},
      {Listed("orphaned_snapshots", "s", 5000), Listed("stale_snapshots", "s", 5000)},
      {Listed("orphaned_snapshots", "s", 4999), Listed("stale_snapshots", "s", 4999)},
      {Listed("unused_elastic_ips", "e", 0), Listed("unused_amis", "m", 200000)} }

MCAllocations == { {}, {-500}, {300, 90000} }
MCUsages == { [baseline |-> 0, current |-> 50], [baseline |-> 100, current |-> 115],
              [baseline |-> 100, current |-> 116] }
MCCostSeries == { <<>>, <<500>>, <<500, 700, 400>>, <<500, 500>> }
MCAccountLists == { <<>>, <<a, b>> }
MCDeltas == {-40000, 50000, 500000}
=============================================================================
