---------------------------- MODULE MCContracts -----------------------------
(***************************************************************************)
(* A small instance of the contracts: two accounts, one of them the admin, *)
(* and a few of everything they keep.                                      *)
(***************************************************************************)
EXTENDS Contracts

CONSTANTS a1, a2

\* A split that leaves rounding to the platform's share, one that gives it all.
MCSplits == {<<50, 33, 17>>, <<100, 0, 0>>}

MCFirstConfig ==
  [enabled |-> FALSE, threshold |-> 0, max |-> 3, min |-> 1, interval |-> 1]

\* Enabled with a longer interval, and with other reserves to keep, one below zero.
MCConfigs ==
  {MCFirstConfig,
   [enabled |-> TRUE, threshold |-> 0, max |-> 3, min |-> 1, interval |-> 2],
   [enabled |-> TRUE, threshold |-> 0, max |-> 2, min |-> 0, interval |-> 1],
   [enabled |-> TRUE, threshold |-> 0, max |-> 3, min |-> -1, interval |-> 1]}

MCOrders == {-1, 1, 2}

MCFirstDecay == [enabled |-> TRUE, rate |-> -1, interval |-> 1]
MCDecays == {MCFirstDecay, [enabled |-> FALSE, rate |-> -1, interval |-> 1]}

MCChanges == {-2, 3}
=============================================================================
