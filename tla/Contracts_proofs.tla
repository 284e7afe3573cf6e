-------------------------- MODULE Contracts_proofs ---------------------------
(***************************************************************************)
(* What holds of the contracts for any accounts, amounts and bounds.  No   *)
(* step of one contract touches another, so each invariant is proved for   *)
(* the steps of its own contract and for those that leave it alone.        *)
(***************************************************************************)
EXTENDS Contracts, Sums, SequenceTheorems, TLAPS

----------------------------------------------------------------------------
(* tables and the indexes of owners *)

\* Writing one cell of a table.
LEMMA CellWritten ==
    ASSUME NEW A, NEW I, NEW S, NEW F \in [A -> [I -> S]], NEW a \in A, NEW i \in I, NEW v \in S
    PROVE  /\ [F EXCEPT ![a] = [F[a] EXCEPT ![i] = v]] \in [A -> [I -> S]]
           /\ \A b \in A, j \in I :
                [F EXCEPT ![a] = [F[a] EXCEPT ![i] = v]][b][j]
                  = IF b = a /\ j = i THEN v ELSE F[b][j]
  <1> DEFINE row == [F[a] EXCEPT ![i] = v]
  <1>1. /\ row \in [I -> S]
        /\ \A j \in I : row[j] = IF j = i THEN v ELSE F[a][j]
    OBVIOUS
  <1> HIDE DEF row
  <1>2. /\ [F EXCEPT ![a] = row] \in [A -> [I -> S]]
        /\ \A b \in A, j \in I :
             [F EXCEPT ![a] = row][b][j] = IF b = a /\ j = i THEN v ELSE F[b][j]
    BY <1>1
  <1>3. QED
    BY <1>2 DEF row

\* An index and the owners it goes by.
Lists(I, index, owner) ==
  /\ index \in [Accounts -> [I -> Nat]] /\ owner \in [I -> Accounts \cup {None}]
  /\ \A a \in Accounts, i \in I : index[a][i] = IF owner[i] = a THEN 1 ELSE 0

LEMMA ListsAgree ==
    ASSUME NEW I, NEW index, NEW owner, Lists(I, index, owner)
    PROVE  IndexAgrees(index, owner)
  BY DEF Lists, IndexAgrees

LEMMA EmptyLists ==
    ASSUME NEW I PROVE Lists(I, EmptyIndex(I), [i \in I |-> None])
  BY LedgerAssumption DEF Lists, EmptyIndex

\* An id without an owner is given to a, one of a's is dropped, one passes on.
LEMMA Given ==
    ASSUME NEW I, NEW index, NEW owner, Lists(I, index, owner),
           NEW a \in Accounts, NEW i \in I, owner[i] = None
    PROVE  Lists(I, Pushed(index, a, i), [owner EXCEPT ![i] = a])
  <1>1. index \in [Accounts -> [I -> Nat]]
    BY DEF Lists
  <1>2. index[a][i] = 0
    BY LedgerAssumption DEF Lists
  <1>3. /\ [owner EXCEPT ![i] = a] \in [I -> Accounts \cup {None}]
        /\ \A j \in I : [owner EXCEPT ![i] = a][j] = IF j = i THEN a ELSE owner[j]
    BY DEF Lists
  <1> DEFINE new == Pushed(index, a, i)
             holder == [owner EXCEPT ![i] = a]
  <1>4. /\ new \in [Accounts -> [I -> Nat]]
        /\ \A b \in Accounts, j \in I : new[b][j] = IF b = a /\ j = i THEN 1 ELSE index[b][j]
    <2>1. new = [index EXCEPT ![a] = [index[a] EXCEPT ![i] = 1]]
      BY <1>1, <1>2 DEF new, Pushed
    <2>2. QED
      BY <1>1, <2>1, CellWritten
  <1>5. \A b \in Accounts : b # a => index[b][i] = 0
    BY LedgerAssumption DEF Lists
  <1> HIDE DEF new, holder
  <1>6. QED
    BY <1>3, <1>4, <1>5 DEF Lists, new, holder

LEMMA Taken ==
    ASSUME NEW I, NEW index, NEW owner, Lists(I, index, owner),
           NEW a \in Accounts, NEW i \in I, owner[i] = a
    PROVE  Lists(I, Dropped(index, a, i), [owner EXCEPT ![i] = None])
  <1>1. index \in [Accounts -> [I -> Nat]] /\ index[a][i] = 1
    BY DEF Lists
  <1>2. /\ [owner EXCEPT ![i] = None] \in [I -> Accounts \cup {None}]
        /\ \A j \in I : [owner EXCEPT ![i] = None][j] = IF j = i THEN None ELSE owner[j]
    BY DEF Lists
  <1> DEFINE new == Dropped(index, a, i)
             holder == [owner EXCEPT ![i] = None]
  <1>3. /\ new \in [Accounts -> [I -> Nat]]
        /\ \A b \in Accounts, j \in I : new[b][j] = IF b = a /\ j = i THEN 0 ELSE index[b][j]
    <2>1. new = [index EXCEPT ![a] = [index[a] EXCEPT ![i] = 0]]
      BY <1>1 DEF new, Dropped
    <2>2. QED
      BY <1>1, <2>1, CellWritten
  <1>4. \A b \in Accounts : b # a => index[b][i] = 0
    BY DEF Lists
  <1> HIDE DEF new, holder
  <1>5. QED
    BY <1>2, <1>3, <1>4, LedgerAssumption DEF Lists, new, holder

LEMMA Passed ==
    ASSUME NEW I, NEW index, NEW owner, Lists(I, index, owner),
           NEW a \in Accounts, NEW b \in Accounts, NEW i \in I, owner[i] = a
    PROVE  Lists(I, Pushed(Dropped(index, a, i), b, i), [owner EXCEPT ![i] = b])
  <1> DEFINE gone == [owner EXCEPT ![i] = None]
             less == Dropped(index, a, i)
  <1>1. Lists(I, less, gone) /\ gone[i] = None
    BY Taken DEF Lists
  <1>2. [gone EXCEPT ![i] = b] = [owner EXCEPT ![i] = b]
    BY DEF Lists
  <1> HIDE DEF gone, less
  <1>3. Lists(I, Pushed(less, b, i), [gone EXCEPT ![i] = b])
    BY <1>1, Given
  <1>4. QED
    BY <1>2, <1>3 DEF less

----------------------------------------------------------------------------
(* disputes *)

Dispute ==
  [arbiter : Accounts, next : 0 .. MaxDisputes, parties : [DisputeIds -> SUBSET Accounts],
   amount : [DisputeIds -> Nat],
   status : [DisputeIds -> {"Open", "Evidence", "Decision", "Settled"}],
   outcome : [DisputeIds -> Outcomes \cup {"None"}],
   payouts : [DisputeIds -> SUBSET (Nat \X (Nat \X Nat))]]

\* An outcome is on record from the decision on, and settling paid by it.
DisputesInv ==
  /\ disputes \in Dispute
  /\ \A d \in DisputeIds : d >= disputes.next => disputes.status[d] = "Open"
  /\ \A d \in DisputeIds :
       disputes.status[d] \in {"Decision", "Settled"} => disputes.outcome[d] \in Outcomes
  /\ \A d \in DisputeIds :
       IF disputes.status[d] # "Settled" THEN disputes.payouts[d] = {}
       ELSE \E t \in Nat : disputes.payouts[d]
                             = {<<t, Shares(disputes.amount[d], disputes.outcome[d])>>}

LEMMA SharesType ==
    ASSUME NEW x \in Nat, NEW o \in Outcomes
    PROVE  /\ Shares(x, o) \in Nat \X Nat
           /\ Shares(x, o)[1] + Shares(x, o)[2] = x
           /\ o = "FavourClaimant" => Shares(x, o)[2] = 0
           /\ o = "FavourRespondent" => Shares(x, o)[1] = 0
  <1>1. CASE o = "FavourClaimant"
    <2>1. Shares(x, o) = <<x, 0>>
      BY <1>1 DEF Shares
    <2>2. QED
      BY <1>1, <2>1
  <1>2. CASE o = "FavourRespondent"
    <2>1. Shares(x, o) = <<0, x>>
      BY <1>2 DEF Shares
    <2>2. QED
      BY <1>2, <2>1
  <1>3. CASE o = "Split"
    <2>1. Shares(x, o) = <<x \div 2, x - (x \div 2)>>
      BY <1>3 DEF Shares
    <2>2. x \div 2 \in Nat /\ x - (x \div 2) \in Nat
      OBVIOUS
    <2>3. QED
      BY <1>3, <2>1, <2>2
  <1>4. QED
    BY <1>1, <1>2, <1>3 DEF Outcomes

LEMMA DisputesInitInv == DisputesInit => DisputesInv
  BY DisputesAssumption, LedgerAssumption DEF DisputesInit, DisputesInv, Dispute

LEMMA DisputesStep == DisputesInv /\ sequence \in Nat /\ DisputesNext => DisputesInv'
  <1> SUFFICES ASSUME DisputesInv, sequence \in Nat, DisputesNext PROVE DisputesInv'
    OBVIOUS
  <1> USE DisputesAssumption
  <1>1. ASSUME NEW a \in Accounts, set_arbiter(a) PROVE DisputesInv'
    BY <1>1 DEF set_arbiter, DisputesInv, Dispute
  <1>2. ASSUME NEW a \in Accounts, NEW b \in Accounts, NEW x \in Claims, open_dispute(a, b, x)
        PROVE  DisputesInv'
    <2> DEFINE d == disputes.next
               amount == [disputes.amount EXCEPT ![d] = x]
               parties == [disputes.parties EXCEPT ![d] = {a, b}]
    <2>1. /\ d \in DisputeIds /\ d + 1 \in 0 .. MaxDisputes /\ d \in Nat
          /\ disputes' = [disputes EXCEPT !.next = d + 1, !.amount = amount, !.parties = parties]
      BY <1>2 DEF open_dispute, DisputesInv, Dispute, DisputeIds
    <2>2. /\ amount \in [DisputeIds -> Nat] /\ parties \in [DisputeIds -> SUBSET Accounts]
          /\ \A e \in DisputeIds : e # d => amount[e] = disputes.amount[e]
      BY <1>2, <2>1 DEF DisputesInv, Dispute
    <2> HIDE DEF amount, parties
    <2>3. /\ disputes' \in Dispute /\ disputes'.next = d + 1 /\ disputes'.amount = amount
          /\ disputes'.status = disputes.status /\ disputes'.outcome = disputes.outcome
          /\ disputes'.payouts = disputes.payouts
      BY <2>1, <2>2 DEF DisputesInv, Dispute
    <2>4. disputes.status[d] = "Open"
      BY <2>1 DEF DisputesInv
    <2>5. \A e \in DisputeIds : e >= d + 1 => e >= d
      BY <2>1 DEF DisputeIds
    <2>6. QED
      BY <2>2, <2>3, <2>4, <2>5 DEF DisputesInv
  <1>3. ASSUME NEW a \in Accounts, NEW d \in DisputeIds, submit_evidence(a, d) PROVE DisputesInv'
    <2> DEFINE status == [disputes.status EXCEPT ![d] = "Evidence"]
    <2>1. disputes' = [disputes EXCEPT !.status = status] /\ d < disputes.next
      BY <1>3 DEF submit_evidence
    <2>2. /\ status \in [DisputeIds -> {"Open", "Evidence", "Decision", "Settled"}]
          /\ status[d] = "Evidence" /\ disputes.status[d] = "Open"
          /\ \A e \in DisputeIds : e # d => status[e] = disputes.status[e]
      BY <1>3 DEF submit_evidence, DisputesInv, Dispute
    <2> HIDE DEF status
    <2>3. /\ disputes' \in Dispute /\ disputes'.status = status
          /\ disputes'.next = disputes.next /\ disputes'.amount = disputes.amount
          /\ disputes'.outcome = disputes.outcome /\ disputes'.payouts = disputes.payouts
      BY <2>1, <2>2 DEF DisputesInv, Dispute
    <2>4. ~(d >= disputes.next)
      BY <2>1 DEF DisputesInv, Dispute, DisputeIds
    <2>5. QED
      BY <2>2, <2>3, <2>4 DEF DisputesInv
  <1>4. ASSUME NEW a \in Accounts, NEW d \in DisputeIds, NEW o \in Outcomes, record_decision(a, d, o)
        PROVE  DisputesInv'
    <2> DEFINE status == [disputes.status EXCEPT ![d] = "Decision"]
               outcome == [disputes.outcome EXCEPT ![d] = o]
    <2>1. disputes' = [disputes EXCEPT !.status = status, !.outcome = outcome] /\ d < disputes.next
      BY <1>4 DEF record_decision
    <2>2. /\ status \in [DisputeIds -> {"Open", "Evidence", "Decision", "Settled"}]
          /\ status[d] = "Decision" /\ disputes.status[d] # "Settled"
          /\ \A e \in DisputeIds : e # d => status[e] = disputes.status[e]
          /\ outcome \in [DisputeIds -> Outcomes \cup {"None"}] /\ outcome[d] = o
          /\ \A e \in DisputeIds : e # d => outcome[e] = disputes.outcome[e]
      BY <1>4 DEF record_decision, DisputesInv, Dispute
    <2> HIDE DEF status, outcome
    <2>3. /\ disputes' \in Dispute /\ disputes'.status = status /\ disputes'.outcome = outcome
          /\ disputes'.next = disputes.next /\ disputes'.amount = disputes.amount
          /\ disputes'.payouts = disputes.payouts
      BY <2>1, <2>2 DEF DisputesInv, Dispute
    <2>4. ~(d >= disputes.next)
      BY <2>1 DEF DisputesInv, Dispute, DisputeIds
    <2>5. QED
      BY <2>2, <2>3, <2>4 DEF DisputesInv
  <1>5. ASSUME NEW a \in Accounts, NEW d \in DisputeIds, settle(a, d) PROVE DisputesInv'
    <2> DEFINE shares == Shares(disputes.amount[d], disputes.outcome[d])
               status == [disputes.status EXCEPT ![d] = "Settled"]
               payouts == [disputes.payouts EXCEPT ![d] = {<<sequence, shares>>}]
    <2>1. /\ disputes.status[d] = "Decision" /\ disputes.outcome[d] \in Outcomes
          /\ disputes.amount[d] \in Nat /\ disputes.payouts[d] = {} /\ d < disputes.next
      BY <1>5 DEF settle, DisputesInv, Dispute
    <2>2. shares \in Nat \X Nat
      BY <2>1, SharesType
    <2>3. disputes' = [disputes EXCEPT !.status = status, !.payouts = payouts]
      <3>1. disputes.payouts[d] \cup {<<sequence, shares>>} = {<<sequence, shares>>}
        BY <2>1
      <3>2. QED
        BY <1>5, <3>1 DEF settle
    <2>4. <<sequence, shares>> \in Nat \X (Nat \X Nat)
      BY <2>2
    <2> HIDE DEF shares
    <2>5. /\ status \in [DisputeIds -> {"Open", "Evidence", "Decision", "Settled"}]
          /\ status[d] = "Settled"
          /\ \A e \in DisputeIds : e # d => status[e] = disputes.status[e]
          /\ payouts \in [DisputeIds -> SUBSET (Nat \X (Nat \X Nat))]
          /\ payouts[d] = {<<sequence, shares>>}
          /\ \A e \in DisputeIds : e # d => payouts[e] = disputes.payouts[e]
      BY <2>4 DEF DisputesInv, Dispute
    <2> HIDE DEF status, payouts
    <2>6. /\ disputes' \in Dispute /\ disputes'.status = status /\ disputes'.payouts = payouts
          /\ disputes'.next = disputes.next /\ disputes'.amount = disputes.amount
          /\ disputes'.outcome = disputes.outcome
      BY <2>3, <2>5 DEF DisputesInv, Dispute
    <2>7. ~(d >= disputes.next)
      BY <2>1 DEF DisputesInv, Dispute, DisputeIds
    <2>8. payouts[d] = {<<sequence, Shares(disputes.amount[d], disputes.outcome[d])>>}
      BY <2>5 DEF shares
    <2>9. QED
      BY <2>1, <2>5, <2>6, <2>7, <2>8 DEF DisputesInv
  <1>6. QED
    BY <1>1, <1>2, <1>3, <1>4, <1>5 DEF DisputesNext

LEMMA DisputesInvImplies == DisputesInv => DisputesPaidOnce
  <1> SUFFICES ASSUME DisputesInv, NEW d \in DisputeIds, disputes.status[d] = "Settled"
               PROVE  /\ Cardinality(disputes.payouts[d]) = 1
                      /\ \A p \in disputes.payouts[d] :
                           /\ p[2][1] + p[2][2] = disputes.amount[d]
                           /\ disputes.outcome[d] # "None"
                           /\ disputes.outcome[d] = "FavourClaimant" => p[2][2] = 0
                           /\ disputes.outcome[d] = "FavourRespondent" => p[2][1] = 0
    BY DEF DisputesInv, DisputesPaidOnce
  <1> DEFINE shares == Shares(disputes.amount[d], disputes.outcome[d])
  <1>1. disputes.outcome[d] \in Outcomes /\ disputes.amount[d] \in Nat
    BY DEF DisputesInv, Dispute
  <1>2. PICK t \in Nat : disputes.payouts[d] = {<<t, shares>>}
    BY DEF DisputesInv
  <1>3. /\ shares[1] + shares[2] = disputes.amount[d]
        /\ disputes.outcome[d] = "FavourClaimant" => shares[2] = 0
        /\ disputes.outcome[d] = "FavourRespondent" => shares[1] = 0
    BY <1>1, SharesType
  <1> HIDE DEF shares
  <1>4. Cardinality(disputes.payouts[d]) = 1
    BY <1>2, FS_Singleton
  <1>5. disputes.outcome[d] # "None"
    BY <1>1 DEF Outcomes
  <1>6. QED
    BY <1>2, <1>3, <1>4, <1>5

----------------------------------------------------------------------------
(* escrows *)

\* votes counts the members of approvals, and money leaves when it suffices.
EscrowInv(x) ==
  /\ x \in MsEscrow
  /\ x.approvals \subseteq x.signers
  /\ x.votes = Cardinality(x.approvals)
  /\ x.status = "Released" <=> x.votes >= x.threshold
  /\ x.outflows = IF x.status = "Pending" THEN 0 ELSE 1

EscrowsInv ==
  /\ escrows \in [EscrowIds -> MsEscrow \cup {None}]
  /\ \A e \in EscrowIds : escrows[e] # None => EscrowInv(escrows[e])

LEMMA EscrowsInitInv == EscrowsInit => EscrowsInv
  BY DEF EscrowsInit, EscrowsInv

\* Replacing one escrow by a proper one is all a step does.
LEMMA EscrowReplaced ==
    ASSUME EscrowsInv, NEW e \in EscrowIds, NEW y, EscrowInv(y),
           escrows' = [escrows EXCEPT ![e] = y]
    PROVE  EscrowsInv'
  <1>1. y \in MsEscrow
    BY DEF EscrowInv
  <1>2. escrows' \in [EscrowIds -> MsEscrow \cup {None}]
    BY <1>1 DEF EscrowsInv
  <1>3. \A f \in EscrowIds : escrows'[f] = IF f = e THEN y ELSE escrows[f]
    BY DEF EscrowsInv
  <1>4. QED
    BY <1>2, <1>3 DEF EscrowsInv

LEMMA EscrowsStep == EscrowsInv /\ sequence \in Nat /\ EscrowsNext => EscrowsInv'
  <1> SUFFICES ASSUME EscrowsInv, sequence \in Nat, EscrowsNext PROVE EscrowsInv'
    OBVIOUS
  <1> USE MultisigEscrowAssumption, LedgerAssumption
  <1>1. ASSUME NEW e \in EscrowIds, NEW s \in SUBSET Accounts, NEW n \in 1 .. MaxSigners,
               NEW k \in 1 .. MaxSigners, NEW t \in 0 .. MaxTimeout,
               create_ms_escrow(e, s, n, k, t)
        PROVE  EscrowsInv'
    <2> DEFINE y == [signers |-> s, threshold |-> k, approvals |-> {}, votes |-> 0,
                     expires |-> sequence + t, status |-> "Pending", outflows |-> 0]
    <2>1. y \in MsEscrow
      BY DEF MsEscrow
    <2>2. EscrowInv(y)
      BY <2>1, FS_EmptySet DEF EscrowInv
    <2>3. escrows' = [escrows EXCEPT ![e] = y]
      BY <1>1 DEF create_ms_escrow
    <2>4. QED
      BY <2>2, <2>3, EscrowReplaced
  <1>2. ASSUME NEW e \in EscrowIds, NEW a \in Accounts, approve_ms_escrow(e, a)
        PROVE  EscrowsInv'
    <2> DEFINE x == escrows[e]
               released == x.votes + 1 >= x.threshold
               y == [x EXCEPT !.approvals = x.approvals \cup {a}, !.votes = x.votes + 1,
                              !.status = IF released THEN "Released" ELSE x.status,
                              !.outflows = IF released THEN x.outflows + 1 ELSE x.outflows]
    <2>1. /\ x \in MsEscrow /\ EscrowInv(x) /\ x.status = "Pending" /\ x.outflows = 0
          /\ a \in x.signers /\ a \notin x.approvals /\ ~(x.votes >= x.threshold)
      BY <1>2 DEF approve_ms_escrow, EscrowsInv, EscrowInv
    <2>2. escrows' = [escrows EXCEPT ![e] = y]
      BY <1>2, <2>1 DEF approve_ms_escrow, EscrowsInv, MsEscrow
    <2> HIDE DEF x
    <2>3. x.approvals \in SUBSET Accounts /\ IsFiniteSet(x.approvals)
      BY <2>1, FS_Subset DEF MsEscrow
    <2>4. Cardinality(x.approvals \cup {a}) = Cardinality(x.approvals) + 1
      BY <2>1, <2>3, FS_AddElement
    <2>5. x.votes = Cardinality(x.approvals) /\ x.approvals \subseteq x.signers
      BY <2>1 DEF EscrowInv
    <2>6. /\ y.signers = x.signers /\ y.threshold = x.threshold
          /\ y.approvals = x.approvals \cup {a} /\ y.votes = x.votes + 1
          /\ y.status = IF released THEN "Released" ELSE x.status
          /\ y.outflows = IF released THEN x.outflows + 1 ELSE x.outflows
      BY <2>1 DEF MsEscrow
    <2>7. y \in MsEscrow
      <3> DEFINE status == IF released THEN "Released" ELSE x.status
                 outflows == IF released THEN x.outflows + 1 ELSE x.outflows
      <3>1. status \in {"Pending", "Released", "TimedOut"} /\ outflows \in Nat
        BY <2>1
      <3>2. x.votes + 1 \in Nat /\ x.approvals \cup {a} \in SUBSET Accounts
        BY <2>1, <2>3 DEF MsEscrow
      <3> HIDE DEF status, outflows, released
      <3>3. QED
        BY <2>1, <3>1, <3>2 DEF MsEscrow, status, outflows
    <2> HIDE DEF y
    <2>8. x.votes \in Nat /\ x.threshold \in Nat
      BY <2>1 DEF MsEscrow
    <2>9. EscrowInv(y)
      BY <2>1, <2>4, <2>5, <2>6, <2>7, <2>8 DEF EscrowInv
    <2>10. QED
      BY <2>2, <2>9, EscrowReplaced
  <1>3. ASSUME NEW e \in EscrowIds, timeout_ms_escrow(e) PROVE EscrowsInv'
    <2> DEFINE x == escrows[e]
               y == [x EXCEPT !.status = "TimedOut", !.outflows = 1]
    <2>1. x \in MsEscrow /\ EscrowInv(x) /\ x.status = "Pending" /\ x.outflows = 0
      BY <1>3 DEF timeout_ms_escrow, EscrowsInv, EscrowInv
    <2>2. escrows' = [escrows EXCEPT ![e] = y]
      BY <1>3, <2>1 DEF timeout_ms_escrow, EscrowsInv, MsEscrow
    <2> HIDE DEF x
    <2>3. /\ y \in MsEscrow /\ y.signers = x.signers /\ y.threshold = x.threshold
          /\ y.approvals = x.approvals /\ y.votes = x.votes
          /\ y.status = "TimedOut" /\ y.outflows = 1
      BY <2>1 DEF MsEscrow
    <2> HIDE DEF y
    <2>4. EscrowInv(y)
      BY <2>1, <2>3 DEF EscrowInv
    <2>5. QED
      BY <2>2, <2>4, EscrowReplaced
  <1>4. QED
    BY <1>1, <1>2, <1>3 DEF EscrowsNext

LEMMA EscrowsInvImplies == EscrowsInv => EscrowsPaidOnce
  BY DEF EscrowsInv, EscrowInv, EscrowsPaidOnce

----------------------------------------------------------------------------
(* multisig *)

ProposalRecord ==
  [threshold : Nat, expires : Nat, approvals : SUBSET Accounts, votes : Nat,
   executed : BOOLEAN, executedAt : Nat \cup {None}, minimum : Nat]

\* votes counts the members of approvals, and what executed had enough of them.
ProposalInv(x) ==
  /\ x \in ProposalRecord
  /\ x.votes = Cardinality(x.approvals)
  /\ x.executed = TRUE =>
       /\ x.votes >= x.minimum /\ x.minimum >= 1
       /\ x.threshold > 0 => x.minimum = x.threshold
       /\ x.executedAt \in Nat /\ x.executedAt < x.expires

MultisigInv ==
  /\ multisig \in [threshold : Nat \ {0}, proposals : [MsIds -> ProposalRecord \cup {None}]]
  /\ \A p \in MsIds : multisig.proposals[p] # None => ProposalInv(multisig.proposals[p])

LEMMA MultisigInitInv == MultisigInit => MultisigInv
  BY DEF MultisigInit, MultisigInv

\* Replacing one proposal by a proper one is all most steps do.
LEMMA ProposalReplaced ==
    ASSUME MultisigInv, NEW p \in MsIds, NEW y, ProposalInv(y),
           multisig' = [multisig EXCEPT !.proposals = [multisig.proposals EXCEPT ![p] = y]]
    PROVE  MultisigInv'
  <1> DEFINE proposals == [multisig.proposals EXCEPT ![p] = y]
  <1>1. y \in ProposalRecord
    BY DEF ProposalInv
  <1>2. /\ proposals \in [MsIds -> ProposalRecord \cup {None}]
        /\ \A q \in MsIds : proposals[q] = IF q = p THEN y ELSE multisig.proposals[q]
    BY <1>1 DEF MultisigInv
  <1> HIDE DEF proposals
  <1>3. multisig' = [multisig EXCEPT !.proposals = proposals]
    BY DEF proposals
  <1>4. /\ multisig' \in [threshold : Nat \ {0}, proposals : [MsIds -> ProposalRecord \cup {None}]]
        /\ multisig'.proposals = proposals
    BY <1>2, <1>3 DEF MultisigInv
  <1>5. QED
    BY <1>2, <1>4 DEF MultisigInv

LEMMA MultisigStep == MultisigInv /\ sequence \in Nat /\ MultisigNext => MultisigInv'
  <1> SUFFICES ASSUME MultisigInv, sequence \in Nat, MultisigNext PROVE MultisigInv'
    OBVIOUS
  <1> USE MultisigAssumption, LedgerAssumption
  <1>1. ASSUME NEW n \in 0 .. MaxThreshold, set_threshold(n) PROVE MultisigInv'
    BY <1>1 DEF set_threshold, MultisigInv
  <1>2. ASSUME NEW p \in MsIds, NEW n \in 0 .. MaxThreshold, NEW t \in 0 .. MaxDelay,
               create_proposal(p, n, t)
        PROVE  MultisigInv'
    <2> DEFINE y == [threshold |-> n, expires |-> sequence + t, approvals |-> {}, votes |-> 0,
                     executed |-> FALSE, executedAt |-> None, minimum |-> 0]
    <2>1. y \in ProposalRecord
      BY DEF ProposalRecord
    <2>2. ProposalInv(y)
      BY <2>1, FS_EmptySet DEF ProposalInv
    <2>3. multisig' = [multisig EXCEPT !.proposals = [multisig.proposals EXCEPT ![p] = y]]
      BY <1>2 DEF create_proposal
    <2>4. QED
      BY <2>2, <2>3, ProposalReplaced
  <1>3. ASSUME NEW p \in MsIds, NEW a \in Accounts, approve_proposal(p, a) PROVE MultisigInv'
    <2> DEFINE x == multisig.proposals[p]
               y == [x EXCEPT !.approvals = x.approvals \cup {a}, !.votes = x.votes + 1]
    <2>1. x \in ProposalRecord /\ ProposalInv(x) /\ x.executed # TRUE /\ a \notin x.approvals
      BY <1>3 DEF approve_proposal, MultisigInv, ProposalInv
    <2>2. multisig' = [multisig EXCEPT !.proposals = [multisig.proposals EXCEPT ![p] = y]]
      BY <1>3, <2>1 DEF approve_proposal, MultisigInv, ProposalRecord
    <2> HIDE DEF x
    <2>3. x.approvals \in SUBSET Accounts /\ IsFiniteSet(x.approvals)
      BY <2>1, FS_Subset DEF ProposalRecord
    <2>4. Cardinality(x.approvals \cup {a}) = Cardinality(x.approvals) + 1
      BY <2>1, <2>3, FS_AddElement
    <2>5. x.votes = Cardinality(x.approvals)
      BY <2>1 DEF ProposalInv
    <2>6. /\ y.executed = x.executed
          /\ y.approvals = x.approvals \cup {a} /\ y.votes = x.votes + 1
      BY <2>1 DEF ProposalRecord
    <2>7. y \in ProposalRecord
      <3> DEFINE s == x.approvals \cup {a}
                 n == x.votes + 1
      <3>1. s \in SUBSET Accounts /\ n \in Nat
        BY <2>1, <2>3 DEF ProposalRecord
      <3> HIDE DEF s, n
      <3>2. [x EXCEPT !.approvals = s] \in ProposalRecord
        BY <2>1, <3>1 DEF ProposalRecord
      <3>3. y = [[x EXCEPT !.approvals = s] EXCEPT !.votes = n]
        BY DEF s, n
      <3>4. QED
        BY <3>1, <3>2, <3>3 DEF ProposalRecord
    <2> HIDE DEF y
    <2>8. ProposalInv(y)
      BY <2>1, <2>4, <2>5, <2>6, <2>7 DEF ProposalInv
    <2>9. QED
      BY <2>2, <2>8, ProposalReplaced
  <1>4. ASSUME NEW p \in MsIds, execute_proposal(p) PROVE MultisigInv'
    <2> DEFINE x == multisig.proposals[p]
               effective == IF x.threshold > 0 THEN x.threshold ELSE multisig.threshold
               y == [x EXCEPT !.executed = TRUE, !.executedAt = sequence, !.minimum = effective]
    <2>1. /\ x \in ProposalRecord /\ ProposalInv(x) /\ sequence < x.expires
          /\ x.votes >= effective
      BY <1>4 DEF execute_proposal, MultisigInv, ProposalInv
    <2>2. multisig' = [multisig EXCEPT !.proposals = [multisig.proposals EXCEPT ![p] = y]]
      BY <1>4, <2>1, ZenonT(60) DEF execute_proposal, MultisigInv, ProposalRecord
    <2>3. /\ effective \in Nat /\ effective >= 1
          /\ x.threshold > 0 => effective = x.threshold
      BY <2>1 DEF MultisigInv, ProposalRecord
    <2> HIDE DEF x, effective
    <2>4. /\ y.threshold = x.threshold /\ y.expires = x.expires
          /\ y.approvals = x.approvals /\ y.votes = x.votes
          /\ y.executedAt = sequence /\ y.minimum = effective
      BY <2>1 DEF ProposalRecord
    <2>5. y \in ProposalRecord
      <3>1. sequence \in Nat \cup {None} /\ effective \in Nat
        BY <2>3
      <3>2. [x EXCEPT !.executed = TRUE] \in ProposalRecord
        BY <2>1 DEF ProposalRecord
      <3>3. QED
        BY <3>2, <3>1 DEF ProposalRecord
    <2> HIDE DEF y
    <2>6. ProposalInv(y)
      BY <2>1, <2>3, <2>4, <2>5 DEF ProposalInv
    <2>7. QED
      BY <2>2, <2>6, ProposalReplaced
  <1>5. QED
    BY <1>1, <1>2, <1>3, <1>4 DEF MultisigNext

LEMMA MultisigInvImplies == MultisigInv => ExecutionsWereApproved
  <1> SUFFICES ASSUME MultisigInv, NEW p \in MsIds, multisig.proposals[p] # None
               PROVE  LET x == multisig.proposals[p]
                      IN  /\ x.votes = Cardinality(x.approvals)
                          /\ x.executed =>
                               /\ Cardinality(x.approvals) >= x.minimum /\ x.minimum >= 1
                               /\ x.threshold > 0 => x.minimum = x.threshold
                               /\ x.executedAt < x.expires
    BY DEF ExecutionsWereApproved
  <1> DEFINE x == multisig.proposals[p]
  <1>1. ProposalInv(x) /\ x.executed \in BOOLEAN
    BY DEF MultisigInv, ProposalInv, ProposalRecord
  <1> HIDE DEF x
  <1>2. QED
    BY <1>1 DEF ProposalInv, x

----------------------------------------------------------------------------
(* grants *)

Grant ==
  [next : Nat, applicant : [GrantIds -> Accounts \cup {None}],
   index : [Accounts -> [GrantIds -> Nat]],
   status : [GrantIds -> {"pending", "approved", "rejected"}],
   count : [GrantIds -> Nat],
   milestone : [GrantIds -> [Milestones -> {"unset", "set", "released"}]],
   reports : [GrantIds -> Nat],
   sets : [GrantIds -> [Milestones -> Nat]], paid : [GrantIds -> [Milestones -> Nat]]]

\* Only a milestone in range of a grant on record is written, and only a
\* written one is paid, which uses the writing up.
MilestoneInv(g, k) ==
  /\ grants.milestone[g][k] = "set" => g < grants.next /\ k < grants.count[g]
  /\ grants.paid[g][k] > 0 =>
       g < grants.next /\ k < grants.count[g] /\ grants.status[g] = "approved"
  /\ grants.paid[g][k] + (IF grants.milestone[g][k] = "set" THEN 1 ELSE 0)
       <= grants.sets[g][k]

GrantsInv ==
  /\ grants \in Grant
  /\ Lists(GrantIds, grants.index, grants.applicant)
  /\ \A g \in GrantIds : g >= grants.next => grants.applicant[g] = None
  /\ \A g \in GrantIds, k \in Milestones : MilestoneInv(g, k)

LEMMA GrantsInitInv == GrantsInit => GrantsInv
  <1> SUFFICES ASSUME GrantsInit PROVE GrantsInv
    OBVIOUS
  <1>1. grants \in Grant /\ \A g \in GrantIds, k \in Milestones : MilestoneInv(g, k)
    BY GrantsAssumption, LedgerAssumption DEF GrantsInit, Grant, MilestoneInv, EmptyIndex
  <1>2. /\ grants.applicant = [g \in GrantIds |-> None]
        /\ grants.index = EmptyIndex(GrantIds)
    BY DEF GrantsInit
  <1>3. Lists(GrantIds, grants.index, grants.applicant)
    BY <1>2, EmptyLists
  <1>4. QED
    BY <1>1, <1>2, <1>3 DEF GrantsInv

LEMMA GrantsStep == GrantsInv /\ GrantsNext => GrantsInv'
  <1> SUFFICES ASSUME GrantsInv, GrantsNext PROVE GrantsInv'
    OBVIOUS
  <1> USE GrantsAssumption
  <1>1. ASSUME NEW a \in Accounts, NEW n \in 1 .. MaxMilestones, apply_for_grant(a, n)
        PROVE  GrantsInv'
    <2> DEFINE g == grants.next
               applicant == [grants.applicant EXCEPT ![g] = a]
               index == Pushed(grants.index, a, g)
               count == [grants.count EXCEPT ![g] = n]
    <2>1. /\ g \in GrantIds /\ g \in Nat /\ n \in Nat
          /\ grants' = [grants EXCEPT !.next = g + 1, !.applicant = applicant,
                                      !.index = index, !.count = count]
      BY <1>1 DEF apply_for_grant, GrantsInv, Grant, GrantIds
    <2>2. /\ applicant \in [GrantIds -> Accounts \cup {None}]
          /\ index \in [Accounts -> [GrantIds -> Nat]]
          /\ count \in [GrantIds -> Nat]
          /\ \A h \in GrantIds : h # g => count[h] = grants.count[h]
          /\ \A h \in GrantIds : h # g => applicant[h] = grants.applicant[h]
      BY <2>1 DEF GrantsInv, Grant, Pushed
    <2>7. Lists(GrantIds, index, applicant)
      <3>1. grants.applicant[g] = None
        BY <2>1 DEF GrantsInv
      <3>2. QED
        BY <2>1, <3>1, Given DEF GrantsInv
    <2> HIDE DEF applicant, index, count
    <2>3. /\ grants'.next = g + 1 /\ grants'.count = count
          /\ grants'.applicant = applicant /\ grants'.index = index
          /\ grants'.status = grants.status /\ grants'.milestone = grants.milestone
          /\ grants'.sets = grants.sets /\ grants'.paid = grants.paid
      BY <2>1 DEF GrantsInv, Grant
    <2>4. grants' \in Grant
      <3> DEFINE n1 == g + 1
                 g1 == [grants EXCEPT !.next = n1]
                 g2 == [g1 EXCEPT !.applicant = applicant]
      <3>1. n1 \in Nat
        BY <2>1
      <3>2. grants' = [[g2 EXCEPT !.index = index] EXCEPT !.count = count]
        BY <2>1
      <3> HIDE DEF n1
      <3>3. g1 \in Grant
        BY <3>1 DEF GrantsInv, Grant
      <3> HIDE DEF g1
      <3>4. g2 \in Grant
        BY <2>2, <3>3 DEF Grant
      <3> HIDE DEF g2
      <3>5. QED
        BY <2>2, <3>2, <3>4 DEF Grant
    <2>5. ASSUME NEW h \in GrantIds, NEW k \in Milestones PROVE MilestoneInv(h, k)'
      <3>1. MilestoneInv(h, k) /\ h \in Nat
        BY DEF GrantsInv, GrantIds
      <3>2. QED
        BY <2>1, <2>2, <2>3, <3>1 DEF MilestoneInv
    <2>6. \A h \in GrantIds : h >= g + 1 => h >= g /\ h # g
      BY <2>1 DEF GrantIds
    <2>8. QED
      BY <2>2, <2>3, <2>4, <2>5, <2>6, <2>7 DEF GrantsInv
  <1>2. ASSUME NEW g \in GrantIds, NEW decision \in {"approved", "rejected"},
               decide_grant(g, decision)
        PROVE  GrantsInv'
    <2> DEFINE status == [grants.status EXCEPT ![g] = decision]
    <2>1. grants.status[g] = "pending" /\ grants' = [grants EXCEPT !.status = status]
      BY <1>2 DEF decide_grant
    <2>2. /\ status \in [GrantIds -> {"pending", "approved", "rejected"}]
          /\ \A h \in GrantIds : h # g => status[h] = grants.status[h]
      BY <1>2 DEF GrantsInv, Grant
    <2> HIDE DEF status
    <2>3. /\ grants' \in Grant /\ grants'.status = status
          /\ grants'.next = grants.next /\ grants'.count = grants.count
          /\ grants'.applicant = grants.applicant /\ grants'.index = grants.index
          /\ grants'.milestone = grants.milestone
          /\ grants'.sets = grants.sets /\ grants'.paid = grants.paid
      BY <2>1, <2>2 DEF GrantsInv, Grant
    <2>4. ASSUME NEW h \in GrantIds, NEW k \in Milestones PROVE MilestoneInv(h, k)'
      <3>1. MilestoneInv(h, k)
        BY DEF GrantsInv
      <3>2. QED
        BY <2>1, <2>2, <2>3, <3>1 DEF MilestoneInv
    <2>5. QED
      BY <2>3, <2>4 DEF GrantsInv
  <1>3. ASSUME NEW g \in GrantIds, NEW k \in Milestones, set_milestone(g, k) PROVE GrantsInv'
    <2> DEFINE milestone == [grants.milestone EXCEPT
                               ![g] = [grants.milestone[g] EXCEPT ![k] = "set"]]
               sets == [grants.sets EXCEPT
                          ![g] = [grants.sets[g] EXCEPT ![k] = grants.sets[g][k] + 1]]
    <2>1. /\ grants' = [grants EXCEPT !.milestone = milestone, !.sets = sets]
          /\ g < grants.next /\ k < grants.count[g]
      BY <1>3 DEF set_milestone
    <2>2. /\ grants.milestone \in [GrantIds -> [Milestones -> {"unset", "set", "released"}]]
          /\ grants.sets \in [GrantIds -> [Milestones -> Nat]]
          /\ grants.sets[g][k] + 1 \in Nat
      BY DEF GrantsInv, Grant
    <2>3. /\ milestone \in [GrantIds -> [Milestones -> {"unset", "set", "released"}]]
          /\ \A h \in GrantIds, l \in Milestones :
               milestone[h][l] = IF h = g /\ l = k THEN "set" ELSE grants.milestone[h][l]
      BY <2>2, CellWritten
    <2>4. /\ sets \in [GrantIds -> [Milestones -> Nat]]
          /\ \A h \in GrantIds, l \in Milestones :
               sets[h][l] = IF h = g /\ l = k THEN grants.sets[g][k] + 1 ELSE grants.sets[h][l]
      BY <2>2, CellWritten
    <2> HIDE DEF milestone, sets
    <2>5. /\ grants' \in Grant /\ grants'.milestone = milestone /\ grants'.sets = sets
          /\ grants'.next = grants.next /\ grants'.count = grants.count
          /\ grants'.applicant = grants.applicant /\ grants'.index = grants.index
          /\ grants'.status = grants.status /\ grants'.paid = grants.paid
      BY <2>1, <2>3, <2>4 DEF GrantsInv, Grant
    <2>6. ASSUME NEW h \in GrantIds, NEW l \in Milestones PROVE MilestoneInv(h, l)'
      <3>1. /\ MilestoneInv(h, l) /\ grants.sets[h][l] \in Nat /\ grants.paid[h][l] \in Nat
        BY DEF GrantsInv, Grant
      <3>2. CASE h = g /\ l = k
        BY <2>1, <2>3, <2>4, <2>5, <3>1, <3>2 DEF MilestoneInv
      <3>3. CASE ~(h = g /\ l = k)
        BY <2>3, <2>4, <2>5, <3>1, <3>3 DEF MilestoneInv
      <3>4. QED
        BY <3>2, <3>3
    <2>7. QED
      BY <2>5, <2>6 DEF GrantsInv
  <1>4. ASSUME NEW g \in GrantIds, NEW k \in Milestones, release_milestone_funds(g, k)
        PROVE  GrantsInv'
    <2> DEFINE milestone == [grants.milestone EXCEPT
                               ![g] = [grants.milestone[g] EXCEPT ![k] = "released"]]
               paid == [grants.paid EXCEPT
                          ![g] = [grants.paid[g] EXCEPT ![k] = grants.paid[g][k] + 1]]
    <2>1. /\ grants' = [grants EXCEPT !.milestone = milestone, !.paid = paid]
          /\ grants.status[g] = "approved" /\ grants.milestone[g][k] = "set"
      BY <1>4 DEF release_milestone_funds
    <2>2. /\ grants.milestone \in [GrantIds -> [Milestones -> {"unset", "set", "released"}]]
          /\ grants.paid \in [GrantIds -> [Milestones -> Nat]]
          /\ grants.paid[g][k] + 1 \in Nat
      BY DEF GrantsInv, Grant
    <2>3. /\ milestone \in [GrantIds -> [Milestones -> {"unset", "set", "released"}]]
          /\ \A h \in GrantIds, l \in Milestones :
               milestone[h][l] = IF h = g /\ l = k THEN "released" ELSE grants.milestone[h][l]
      BY <2>2, CellWritten
    <2>4. /\ paid \in [GrantIds -> [Milestones -> Nat]]
          /\ \A h \in GrantIds, l \in Milestones :
               paid[h][l] = IF h = g /\ l = k THEN grants.paid[g][k] + 1 ELSE grants.paid[h][l]
      BY <2>2, CellWritten
    <2> HIDE DEF milestone, paid
    <2>5. /\ grants' \in Grant /\ grants'.milestone = milestone /\ grants'.paid = paid
          /\ grants'.next = grants.next /\ grants'.count = grants.count
          /\ grants'.applicant = grants.applicant /\ grants'.index = grants.index
          /\ grants'.status = grants.status /\ grants'.sets = grants.sets
      BY <2>1, <2>3, <2>4 DEF GrantsInv, Grant
    <2>6. ASSUME NEW h \in GrantIds, NEW l \in Milestones PROVE MilestoneInv(h, l)'
      <3>1. /\ MilestoneInv(h, l) /\ grants.sets[h][l] \in Nat /\ grants.paid[h][l] \in Nat
        BY DEF GrantsInv, Grant
      <3>2. CASE h = g /\ l = k
        BY <2>1, <2>3, <2>4, <2>5, <3>1, <3>2 DEF MilestoneInv
      <3>3. CASE ~(h = g /\ l = k)
        BY <2>3, <2>4, <2>5, <3>1, <3>3 DEF MilestoneInv
      <3>4. QED
        BY <3>2, <3>3
    <2>7. QED
      BY <2>5, <2>6 DEF GrantsInv
  <1>5. ASSUME NEW a \in Accounts, NEW g \in GrantIds, submit_report(a, g) PROVE GrantsInv'
    <2> DEFINE reports == [grants.reports EXCEPT ![g] = @ + 1]
    <2>1. grants' = [grants EXCEPT !.reports = reports] /\ reports \in [GrantIds -> Nat]
      BY <1>5 DEF submit_report, GrantsInv, Grant
    <2> HIDE DEF reports
    <2>2. /\ grants' \in Grant /\ grants'.milestone = grants.milestone
          /\ grants'.next = grants.next /\ grants'.count = grants.count
          /\ grants'.applicant = grants.applicant /\ grants'.index = grants.index
          /\ grants'.status = grants.status /\ grants'.sets = grants.sets
          /\ grants'.paid = grants.paid
      BY <2>1 DEF GrantsInv, Grant
    <2>3. QED
      BY <2>2 DEF GrantsInv, MilestoneInv
  <1>6. QED
    BY <1>1, <1>2, <1>3, <1>4, <1>5 DEF GrantsNext, approve_grant, reject_grant

LEMMA GrantsInvImplies == GrantsInv => GrantPaymentsAreDue /\ GrantListsAgree
  BY ListsAgree
     DEF GrantsInv, MilestoneInv, GrantPaymentsAreDue, GrantListsAgree, FreshIdsUnowned, Lists

----------------------------------------------------------------------------
(* certificates *)

\* A certificate moved only while transferable, before any revocation.
CertificateMoves ==
  \A i \in CertIds : certs.moved[i] # None =>
    /\ i \in certs.transferable /\ certs.moved[i] <= sequence
    /\ certs.revoked[i] # None => certs.moved[i] <= certs.revoked[i]

CertificatesInv ==
  /\ CertificatesTypeOK
  /\ Lists(CertIds, certs.index, certs.owner)
  /\ \A i \in CertIds : i >= certs.next => certs.owner[i] = None
  /\ CertificateMoves

LEMMA CertificatesInitInv == CertificatesInit => CertificatesInv
  <1> SUFFICES ASSUME CertificatesInit PROVE CertificatesInv
    OBVIOUS
  <1>1. /\ certs.next = 0 /\ certs.owner = [i \in CertIds |-> None]
        /\ certs.index = EmptyIndex(CertIds) /\ certs.moved = [i \in CertIds |-> None]
    BY DEF CertificatesInit
  <1>2. CertificatesTypeOK
    BY CertificatesAssumption, LedgerAssumption
       DEF CertificatesInit, CertificatesTypeOK, EmptyIndex, Clock
  <1>3. Lists(CertIds, certs.index, certs.owner)
    BY <1>1, EmptyLists
  <1>4. QED
    BY <1>1, <1>2, <1>3 DEF CertificatesInv, CertificateMoves

LEMMA CertificatesStep ==
    CertificatesInv /\ sequence \in Clock /\ CertificatesNext /\ UNCHANGED sequence
      => CertificatesInv'
  <1> SUFFICES ASSUME CertificatesInv, sequence \in Clock, CertificatesNext, sequence' = sequence
               PROVE  CertificatesInv'
    OBVIOUS
  <1> USE CertificatesAssumption, LedgerAssumption
  <1>1. ASSUME NEW a \in Accounts, mint_certificate(a) PROVE CertificatesInv'
    <2> DEFINE i == certs.next
               owner == [certs.owner EXCEPT ![i] = a]
               index == Pushed(certs.index, a, i)
    <2>1. /\ i \in CertIds /\ i \in Nat /\ i + 1 \in 0 .. MaxCertificates
          /\ certs' = [certs EXCEPT !.next = i + 1, !.owner = owner, !.index = index]
      BY <1>1 DEF mint_certificate, CertificatesInv, CertificatesTypeOK, CertIds
    <2>2. certs.owner[i] = None
      BY <2>1 DEF CertificatesInv
    <2>3. Lists(CertIds, index, owner)
      BY <2>1, <2>2, Given DEF CertificatesInv
    <2>4. \A j \in CertIds : j # i => owner[j] = certs.owner[j]
      BY <2>1 DEF CertificatesInv, CertificatesTypeOK
    <2> HIDE DEF owner, index
    <2>5. /\ owner \in [CertIds -> Accounts \cup {None}]
          /\ index \in [Accounts -> [CertIds -> Nat]]
      BY <2>3 DEF Lists
    <2>6. /\ certs'.next = i + 1 /\ certs'.owner = owner /\ certs'.index = index
          /\ certs'.revoked = certs.revoked /\ certs'.transferable = certs.transferable
          /\ certs'.moved = certs.moved
      BY <2>1 DEF CertificatesInv, CertificatesTypeOK
    <2>7. CertificatesTypeOK'
      BY <2>1, <2>5 DEF CertificatesInv, CertificatesTypeOK
    <2>8. \A j \in CertIds : j >= i + 1 => j >= i /\ j # i
      BY <2>1 DEF CertIds
    <2>9. CertificateMoves'
      BY <2>6 DEF CertificatesInv, CertificateMoves
    <2>10. QED
      BY <2>3, <2>4, <2>6, <2>7, <2>8, <2>9 DEF CertificatesInv
  <1>2. ASSUME NEW i \in CertIds, revoke_certificate(i) PROVE CertificatesInv'
    <2> DEFINE revoked == [certs.revoked EXCEPT ![i] = sequence]
    <2>1. certs' = [certs EXCEPT !.revoked = revoked]
      BY <1>2 DEF revoke_certificate
    <2>2. /\ revoked \in [CertIds -> Clock \cup {None}] /\ revoked[i] = sequence
          /\ \A j \in CertIds : j # i => revoked[j] = certs.revoked[j]
      BY DEF CertificatesInv, CertificatesTypeOK
    <2> HIDE DEF revoked
    <2>3. /\ certs'.next = certs.next /\ certs'.owner = certs.owner
          /\ certs'.index = certs.index /\ certs'.revoked = revoked
          /\ certs'.transferable = certs.transferable /\ certs'.moved = certs.moved
          /\ CertificatesTypeOK'
      BY <2>1, <2>2 DEF CertificatesInv, CertificatesTypeOK
    <2>4. CertificateMoves'
      BY <2>2, <2>3 DEF CertificatesInv, CertificateMoves
    <2>5. QED
      BY <2>3, <2>4 DEF CertificatesInv
  <1>3. ASSUME NEW i \in CertIds, enable_transfer(i) PROVE CertificatesInv'
    <2>1. /\ certs'.next = certs.next /\ certs'.owner = certs.owner
          /\ certs'.index = certs.index /\ certs'.revoked = certs.revoked
          /\ certs'.transferable = certs.transferable \cup {i} /\ certs'.moved = certs.moved
          /\ CertificatesTypeOK'
      BY <1>3 DEF enable_transfer, CertificatesInv, CertificatesTypeOK
    <2>2. CertificateMoves'
      BY <2>1 DEF CertificatesInv, CertificateMoves
    <2>3. QED
      BY <2>1, <2>2 DEF CertificatesInv
  <1>4. ASSUME NEW i \in CertIds, NEW a \in Accounts, NEW b \in Accounts, transfer(a, b, i)
        PROVE  CertificatesInv'
    <2> DEFINE owner == [certs.owner EXCEPT ![i] = b]
               index == Pushed(Dropped(certs.index, a, i), b, i)
               moved == [certs.moved EXCEPT ![i] = sequence]
    <2>1. /\ certs' = [certs EXCEPT !.owner = owner, !.moved = moved, !.index = index]
          /\ certs.owner[i] = a /\ certs.revoked[i] = None /\ i \in certs.transferable
      BY <1>4 DEF transfer
    <2>2. Lists(CertIds, index, owner)
      BY <2>1, Passed DEF CertificatesInv
    <2>3. /\ \A j \in CertIds : j # i => owner[j] = certs.owner[j]
          /\ moved \in [CertIds -> Clock \cup {None}] /\ moved[i] = sequence
          /\ \A j \in CertIds : j # i => moved[j] = certs.moved[j]
      BY DEF CertificatesInv, CertificatesTypeOK
    <2> HIDE DEF owner, index, moved
    <2>4. /\ owner \in [CertIds -> Accounts \cup {None}]
          /\ index \in [Accounts -> [CertIds -> Nat]]
      BY <2>2 DEF Lists
    <2>5. /\ certs'.next = certs.next /\ certs'.owner = owner /\ certs'.index = index
          /\ certs'.revoked = certs.revoked /\ certs'.transferable = certs.transferable
          /\ certs'.moved = moved
      BY <2>1 DEF CertificatesInv, CertificatesTypeOK
    <2>6. CertificatesTypeOK'
      BY <2>1, <2>3, <2>4 DEF CertificatesInv, CertificatesTypeOK
    <2>7. CertificateMoves'
      <3>1. sequence <= sequence
        BY DEF Clock
      <3>2. QED
        BY <2>1, <2>3, <2>5, <3>1 DEF CertificatesInv, CertificateMoves
    <2>8. ~(i >= certs.next)
      BY <2>1 DEF CertificatesInv
    <2>9. QED
      BY <2>2, <2>3, <2>5, <2>6, <2>7, <2>8 DEF CertificatesInv
  <1>5. ASSUME NEW i \in CertIds, NEW e \in Clock, set_metadata(i, e) PROVE CertificatesInv'
    <2> DEFINE expiry == [certs.expiry EXCEPT ![i] = e]
    <2>1. certs' = [certs EXCEPT !.expiry = expiry] /\ expiry \in [CertIds -> Clock]
      BY <1>5 DEF set_metadata, CertificatesInv, CertificatesTypeOK
    <2> HIDE DEF expiry
    <2>2. /\ certs'.next = certs.next /\ certs'.owner = certs.owner
          /\ certs'.index = certs.index /\ certs'.revoked = certs.revoked
          /\ certs'.transferable = certs.transferable /\ certs'.moved = certs.moved
          /\ CertificatesTypeOK'
      BY <2>1 DEF CertificatesInv, CertificatesTypeOK
    <2>3. CertificateMoves'
      BY <2>2 DEF CertificatesInv, CertificateMoves
    <2>4. QED
      BY <2>2, <2>3 DEF CertificatesInv
  <1>6. QED
    BY <1>1, <1>2, <1>3, <1>4, <1>5 DEF CertificatesNext

\* Time alone, and the steps of the other contracts, change nothing either.
LEMMA CertificatesIdle ==
    CertificatesInv /\ sequence \in Clock /\ sequence' \in Clock /\ sequence <= sequence'
      /\ UNCHANGED certs => CertificatesInv'
  <1> SUFFICES ASSUME CertificatesInv, sequence \in Clock, sequence' \in Clock,
                      sequence <= sequence', certs' = certs
               PROVE  CertificatesInv'
    OBVIOUS
  <1>1. CertificatesTypeOK'
    BY DEF CertificatesInv, CertificatesTypeOK
  <1>2. CertificateMoves'
    <2>1. \A i \in CertIds : certs.moved[i] \in Clock \cup {None}
      BY DEF CertificatesInv, CertificatesTypeOK
    <2>2. QED
      BY <2>1, LedgerAssumption DEF CertificatesInv, CertificateMoves, Clock
  <1>3. QED
    BY <1>1, <1>2 DEF CertificatesInv

LEMMA CertificatesInvImplies == CertificatesInv => CertificateListsAgree /\ RevocationsAreFinal
  BY ListsAgree DEF CertificatesInv, CertificateListsAgree, FreshIdsUnowned, Lists,
     CertificateMoves, RevocationsAreFinal, is_valid

----------------------------------------------------------------------------
(* badges *)

\* The badges of a type, which its count counts, are on record for good.
BadgesInv ==
  /\ BadgesTypeOK
  /\ Lists(BadgeIds, badges.index, badges.owner)
  /\ \A i \in BadgeIds : badges.owner[i] = None <=> i >= badges.next \/ i \in badges.burned
  /\ \A i \in BadgeIds : i >= badges.next => badges.type[i] = None /\ i \notin badges.burned
  /\ \A t \in BadgeTypes :
       LET Of == {i \in BadgeIds : badges.type[i] = t}
       IN  IF badges.total[t] = None THEN Of = {} ELSE badges.total[t] = Cardinality(Of)

LEMMA BadgesInitInv == BadgesInit => BadgesInv
  <1> SUFFICES ASSUME BadgesInit PROVE BadgesInv
    OBVIOUS
  <1> USE BadgesAssumption, LedgerAssumption
  <1>1. /\ badges.next = 0 /\ badges.owner = [i \in BadgeIds |-> None]
        /\ badges.type = [i \in BadgeIds |-> None] /\ badges.burned = {}
        /\ badges.index = EmptyIndex(BadgeIds) /\ badges.total = [t \in BadgeTypes |-> None]
    BY DEF BadgesInit
  <1>2. BadgesTypeOK
    BY DEF BadgesInit, BadgesTypeOK, EmptyIndex
  <1>3. Lists(BadgeIds, badges.index, badges.owner)
    BY <1>1, EmptyLists
  <1>4. \A t \in BadgeTypes : {i \in BadgeIds : badges.type[i] = t} = {}
    BY <1>1
  <1>5. QED
    BY <1>1, <1>2, <1>3, <1>4 DEF BadgesInv, BadgeIds

LEMMA BadgesStep == BadgesInv /\ BadgesNext => BadgesInv'
  <1> SUFFICES ASSUME BadgesInv, BadgesNext PROVE BadgesInv'
    OBVIOUS
  <1> USE BadgesAssumption, LedgerAssumption
  <1>1. ASSUME NEW t \in BadgeTypes, create_badge_type(t) PROVE BadgesInv'
    <2> DEFINE total == [badges.total EXCEPT ![t] = 0]
    <2>1. badges' = [badges EXCEPT !.total = total] /\ badges.total[t] = None
      BY <1>1 DEF create_badge_type
    <2>2. /\ total \in [BadgeTypes -> (0 .. MaxBadges) \cup {None}] /\ total[t] = 0
          /\ \A u \in BadgeTypes : u # t => total[u] = badges.total[u]
      BY DEF BadgesInv, BadgesTypeOK
    <2> HIDE DEF total
    <2>3. /\ badges'.next = badges.next /\ badges'.owner = badges.owner
          /\ badges'.type = badges.type /\ badges'.index = badges.index
          /\ badges'.total = total /\ badges'.burned = badges.burned /\ BadgesTypeOK'
      BY <2>1, <2>2 DEF BadgesInv, BadgesTypeOK
    <2>4. ASSUME NEW u \in BadgeTypes
          PROVE  LET Of == {i \in BadgeIds : badges.type[i] = u}
                 IN  IF total[u] = None THEN Of = {} ELSE total[u] = Cardinality(Of)
      <3> DEFINE Of == {i \in BadgeIds : badges.type[i] = u}
      <3>1. IF badges.total[u] = None THEN Of = {} ELSE badges.total[u] = Cardinality(Of)
        BY DEF BadgesInv
      <3> HIDE DEF Of
      <3>2. IF total[u] = None THEN Of = {} ELSE total[u] = Cardinality(Of)
        BY <2>1, <2>2, <3>1, FS_EmptySet
      <3>3. QED
        BY <3>2 DEF Of
    <2>5. QED
      BY <2>3, <2>4 DEF BadgesInv
  <1>2. ASSUME NEW t \in BadgeTypes, NEW a \in Accounts, mint_badge(a, t) PROVE BadgesInv'
    <2> DEFINE i == badges.next
               owner == [badges.owner EXCEPT ![i] = a]
               type == [badges.type EXCEPT ![i] = t]
               index == Pushed(badges.index, a, i)
               total == [badges.total EXCEPT ![t] = badges.total[t] + 1]
    <2>1. /\ i \in BadgeIds /\ i \in Nat /\ i + 1 \in 0 .. MaxBadges /\ badges.total[t] # None
          /\ badges' = [badges EXCEPT !.next = i + 1, !.owner = owner, !.type = type,
                                      !.index = index, !.total = total]
      BY <1>2 DEF mint_badge, BadgesInv, BadgesTypeOK, BadgeIds
    <2>2. badges.owner[i] = None /\ badges.type[i] = None
      BY <2>1 DEF BadgesInv
    <2>3. Lists(BadgeIds, index, owner)
      BY <2>1, <2>2, Given DEF BadgesInv
    <2>4. /\ owner[i] = a /\ \A j \in BadgeIds : j # i => owner[j] = badges.owner[j]
          /\ type \in [BadgeIds -> BadgeTypes \cup {None}]
          /\ type[i] = t /\ \A j \in BadgeIds : j # i => type[j] = badges.type[j]
      BY <2>1 DEF BadgesInv, BadgesTypeOK
    <2> DEFINE Of == {j \in BadgeIds : badges.type[j] = t}
    <2>5. IsFiniteSet(BadgeIds) /\ Cardinality(BadgeIds) = MaxBadges
      <3>1. IsFiniteSet(0 .. MaxBadges - 1) /\ Cardinality(0 .. MaxBadges - 1) = MaxBadges
        BY FS_Interval
      <3>2. QED
        BY <3>1 DEF BadgeIds
    <2>6. i \notin Of /\ Of \subseteq BadgeIds /\ IsFiniteSet(Of)
      BY <2>2, <2>5, FS_Subset
    <2>7. badges.total[t] = Cardinality(Of)
      BY <2>1 DEF BadgesInv
    <2>8. {j \in BadgeIds : type[j] = t} = Of \cup {i}
      BY <2>1, <2>4
    <2>9. Cardinality(Of \cup {i}) = Cardinality(Of) + 1 /\ Of \cup {i} \subseteq BadgeIds
      <3> HIDE DEF Of
      <3>1. QED
        BY <2>1, <2>6, FS_AddElement
    <2>10. Cardinality(Of \cup {i}) \in 0 .. MaxBadges
      <3> HIDE DEF Of
      <3>1. Cardinality(Of \cup {i}) <= Cardinality(BadgeIds) /\ IsFiniteSet(Of \cup {i})
        BY <2>5, <2>9, FS_Subset
      <3>2. Cardinality(Of \cup {i}) \in Nat
        BY <3>1, FS_CardinalityType
      <3>3. QED
        BY <2>5, <3>1, <3>2
    <2>11. badges.total[t] + 1 = Cardinality({j \in BadgeIds : type[j] = t})
      <3> HIDE DEF Of, type
      <3>1. QED
        BY <2>7, <2>8, <2>9
    <2>12. badges.total[t] + 1 \in 0 .. MaxBadges
      <3> HIDE DEF Of
      <3>1. QED
        BY <2>7, <2>9, <2>10
    <2>13. /\ total \in [BadgeTypes -> (0 .. MaxBadges) \cup {None}]
           /\ total[t] = badges.total[t] + 1
           /\ \A u \in BadgeTypes : u # t => total[u] = badges.total[u]
      BY <2>12 DEF BadgesInv, BadgesTypeOK
    <2>14. \A u \in BadgeTypes : u # t =>
             {j \in BadgeIds : type[j] = u} = {j \in BadgeIds : badges.type[j] = u}
      BY <2>2, <2>4
    <2> HIDE DEF owner, type, index, total, Of
    <2>15. /\ owner \in [BadgeIds -> Accounts \cup {None}]
           /\ index \in [Accounts -> [BadgeIds -> Nat]]
      BY <2>3 DEF Lists
    <2>16. /\ badges'.next = i + 1 /\ badges'.owner = owner /\ badges'.type = type
           /\ badges'.index = index /\ badges'.total = total /\ badges'.burned = badges.burned
      BY <2>1 DEF BadgesInv, BadgesTypeOK
    <2>17. BadgesTypeOK'
      <3> DEFINE n1 == i + 1
                 b1 == [badges EXCEPT !.next = n1, !.owner = owner]
      <3>1. badges' = [b1 EXCEPT !.type = type, !.index = index, !.total = total]
        BY <2>1
      <3> HIDE DEF n1
      <3>2. b1 \in [next : 0 .. MaxBadges,
                    owner : [BadgeIds -> Accounts \cup {None}],
                    type : [BadgeIds -> BadgeTypes \cup {None}],
                    index : [Accounts -> [BadgeIds -> Nat]],
                    total : [BadgeTypes -> (0 .. MaxBadges) \cup {None}],
                    burned : SUBSET BadgeIds]
        BY <2>1, <2>15 DEF BadgesInv, BadgesTypeOK, n1
      <3> HIDE DEF b1
      <3>3. QED
        BY <2>4, <2>13, <2>15, <3>1, <3>2 DEF BadgesTypeOK
    <2>18. i \notin badges.burned
      BY <2>1 DEF BadgesInv
    <2>19. \A j \in BadgeIds : j >= i + 1 <=> j >= i /\ j # i
      BY <2>1 DEF BadgeIds
    <2>20. \A j \in BadgeIds : owner[j] = None <=> j >= i + 1 \/ j \in badges.burned
      BY <2>1, <2>4, <2>18, <2>19 DEF BadgesInv
    <2>21. \A j \in BadgeIds : j >= i + 1 => type[j] = None /\ j \notin badges.burned
      BY <2>4, <2>19 DEF BadgesInv
    <2>22. ASSUME NEW u \in BadgeTypes
           PROVE  LET Typed == {j \in BadgeIds : type[j] = u}
                  IN  IF total[u] = None THEN Typed = {} ELSE total[u] = Cardinality(Typed)
      <3>1. CASE u = t
        <4>1. total[t] # None
          BY <2>12, <2>13
        <4>2. QED
          BY <2>11, <2>13, <3>1, <4>1
      <3>2. CASE u # t
        <4> DEFINE Typed == {j \in BadgeIds : badges.type[j] = u}
        <4>1. IF badges.total[u] = None THEN Typed = {} ELSE badges.total[u] = Cardinality(Typed)
          BY DEF BadgesInv
        <4>2. {j \in BadgeIds : type[j] = u} = Typed /\ total[u] = badges.total[u]
          BY <2>13, <2>14, <3>2
        <4> HIDE DEF Typed
        <4>3. QED
          BY <4>1, <4>2
      <3>3. QED
        BY <3>1, <3>2
    <2>23. QED
      BY <2>3, <2>16, <2>17, <2>20, <2>21, <2>22 DEF BadgesInv
  <1>3. ASSUME NEW i \in BadgeIds, burn_badge(i) PROVE BadgesInv'
    <2> DEFINE owner == [badges.owner EXCEPT ![i] = None]
               index == Dropped(badges.index, badges.owner[i], i)
    <2>1. /\ badges' = [badges EXCEPT !.index = index, !.burned = badges.burned \cup {i},
                                      !.owner = owner]
          /\ badges.owner[i] \in Accounts
      BY <1>3 DEF burn_badge, BadgesInv, BadgesTypeOK
    <2>2. Lists(BadgeIds, index, owner)
      BY <2>1, Taken DEF BadgesInv
    <2>3. owner[i] = None /\ \A j \in BadgeIds : j # i => owner[j] = badges.owner[j]
      BY DEF BadgesInv, BadgesTypeOK
    <2>4. ~(i >= badges.next)
      BY <2>1 DEF BadgesInv
    <2> HIDE DEF owner, index
    <2>5. /\ owner \in [BadgeIds -> Accounts \cup {None}]
          /\ index \in [Accounts -> [BadgeIds -> Nat]]
      BY <2>2 DEF Lists
    <2>6. /\ badges'.next = badges.next /\ badges'.owner = owner /\ badges'.type = badges.type
          /\ badges'.index = index /\ badges'.total = badges.total
          /\ badges'.burned = badges.burned \cup {i}
      BY <2>1 DEF BadgesInv, BadgesTypeOK
    <2>7. BadgesTypeOK'
      BY <2>1, <2>5 DEF BadgesInv, BadgesTypeOK
    <2>8. QED
      BY <2>2, <2>3, <2>4, <2>6, <2>7 DEF BadgesInv
  <1>4. QED
    BY <1>1, <1>2, <1>3 DEF BadgesNext

LEMMA BadgesInvImplies == BadgesInv => BadgeListsAgree
  BY ListsAgree DEF BadgesInv, BadgeListsAgree

----------------------------------------------------------------------------
(* NFTs and credentials *)

NftStore ==
  [next : 0 .. MaxNfts, owner : [Nfts -> Accounts \cup {None}],
   metadata : [Nfts -> Accounts \cup {None}], index : [Accounts -> [Nfts -> Nat]],
   access : SUBSET (Nfts \X Accounts), listing : [Nfts -> Accounts \cup {None}],
   burned : SUBSET Nfts]

OwnedInv(n) ==
  /\ n \in NftStore
  /\ Lists(Nfts, n.index, n.owner)
  /\ n.metadata = n.owner
  /\ \A i \in Nfts : i >= n.next => n.owner[i] = None
  /\ \A i \in Nfts :
       /\ n.listing[i] # None => n.owner[i] # None
       /\ i \in n.burned <=> i < n.next /\ n.owner[i] = None

CredStore ==
  [expiry : [Creds -> Clock \cup {None}], compact : [Creds -> Clock \cup {None}],
   history : [Creds -> 0 .. MaxHistory], link : [Creds -> Nfts \cup {None}],
   back : [Nfts -> Creds \cup {None}]]

\* No credential stands for an NFT that is yet to be minted.
LinkedInv(r, next) ==
  /\ r \in CredStore
  /\ \A c \in Creds, i \in Nfts : r.link[c] = i <=> r.back[i] = c
  /\ \A c \in Creds : r.link[c] # None => r.link[c] < next /\ r.expiry[c] # None
  /\ \A i \in Nfts : i >= next => r.back[i] = None

NftInv == OwnedInv(nft) /\ LinkedInv(cred, nft.next)

LEMMA NftInitInv == NftInit => NftInv
  <1> SUFFICES ASSUME NftInit PROVE NftInv
    OBVIOUS
  <1> USE CourseNftAssumption, LedgerAssumption
  <1>1. /\ nft.next = 0 /\ nft.owner = [i \in Nfts |-> None] /\ nft.metadata = nft.owner
        /\ nft.index = EmptyIndex(Nfts) /\ nft.burned = {}
        /\ nft.listing = [i \in Nfts |-> None]
    BY DEF NftInit
  <1>2. nft \in NftStore
    BY DEF NftInit, NftStore, EmptyIndex
  <1>3. Lists(Nfts, nft.index, nft.owner)
    BY <1>1, EmptyLists
  <1>4. OwnedInv(nft)
    BY <1>1, <1>2, <1>3 DEF OwnedInv, Nfts
  <1>5. LinkedInv(cred, nft.next)
    BY <1>1 DEF NftInit, LinkedInv, CredStore, Nfts, Clock
  <1>6. QED
    BY <1>4, <1>5 DEF NftInv

LEMMA MintedOwned ==
    ASSUME OwnedInv(nft), nft.next < MaxNfts, NEW o \in Accounts
    PROVE  OwnedInv(Minted(o)) /\ Minted(o).next = nft.next + 1
  <1> USE CourseNftAssumption, LedgerAssumption
  <1> DEFINE i == nft.next
             owner == [nft.owner EXCEPT ![i] = o]
             index == Pushed(nft.index, o, i)
             access == nft.access \cup {<<i, o>>}
             n == Minted(o)
  <1>1. i \in Nfts /\ i \in Nat /\ i + 1 \in 0 .. MaxNfts
    BY DEF OwnedInv, NftStore, Nfts
  <1>2. n = [nft EXCEPT !.next = i + 1, !.owner = owner, !.metadata = owner,
                        !.index = index, !.access = access]
    BY DEF Minted, OwnedInv
  <1>3. nft.owner[i] = None
    BY <1>1 DEF OwnedInv
  <1>4. Lists(Nfts, index, owner)
    BY <1>1, <1>3, Given DEF OwnedInv
  <1>5. owner[i] = o /\ \A j \in Nfts : j # i => owner[j] = nft.owner[j]
    BY <1>1 DEF OwnedInv, NftStore
  <1>6. access \in SUBSET (Nfts \X Accounts)
    BY <1>1 DEF OwnedInv, NftStore
  <1>7. \A j \in Nfts : (j >= i + 1 <=> j >= i /\ j # i) /\ (j < i + 1 <=> j < i \/ j = i)
    BY <1>1 DEF Nfts
  <1> HIDE DEF owner, index, access, n
  <1>8. owner \in [Nfts -> Accounts \cup {None}] /\ index \in [Accounts -> [Nfts -> Nat]]
    BY <1>4 DEF Lists
  <1>9. /\ n.next = i + 1 /\ n.owner = owner /\ n.metadata = owner /\ n.index = index
        /\ n.listing = nft.listing /\ n.burned = nft.burned
    BY <1>2 DEF OwnedInv, NftStore
  <1>10. n \in NftStore
    <2> DEFINE n1 == i + 1
               m1 == [nft EXCEPT !.next = n1, !.owner = owner]
    <2>1. n = [m1 EXCEPT !.metadata = owner, !.index = index, !.access = access]
      BY <1>2
    <2> HIDE DEF n1
    <2>2. m1 \in NftStore
      BY <1>1, <1>8 DEF OwnedInv, NftStore, n1
    <2> HIDE DEF m1
    <2>3. QED
      BY <1>6, <1>8, <2>1, <2>2 DEF NftStore
  <1>11. OwnedInv(n)
    BY <1>1, <1>3, <1>4, <1>5, <1>7, <1>9, <1>10 DEF OwnedInv
  <1>12. QED
    BY <1>9, <1>11 DEF n

LEMMA HandedOwned ==
    ASSUME NEW m, OwnedInv(m), NEW a \in Accounts, NEW b \in Accounts, NEW i \in Nfts,
           m.owner[i] = a
    PROVE  OwnedInv(Handed(m, a, b, i)) /\ Handed(m, a, b, i).next = m.next
  <1> USE CourseNftAssumption, LedgerAssumption
  <1> DEFINE owner == [m.owner EXCEPT ![i] = b]
             index == Pushed(Dropped(m.index, a, i), b, i)
             access == m.access \cup {<<i, b>>}
             n == Handed(m, a, b, i)
  <1>1. n = [m EXCEPT !.owner = owner, !.metadata = owner, !.index = index, !.access = access]
    BY DEF Handed, OwnedInv
  <1>2. Lists(Nfts, index, owner)
    BY Passed DEF OwnedInv
  <1>3. owner[i] = b /\ \A j \in Nfts : j # i => owner[j] = m.owner[j]
    BY DEF OwnedInv, NftStore
  <1>4. access \in SUBSET (Nfts \X Accounts)
    BY DEF OwnedInv, NftStore
  <1>5. ~(i >= m.next)
    BY DEF OwnedInv
  <1> HIDE DEF owner, index, access, n
  <1>6. owner \in [Nfts -> Accounts \cup {None}] /\ index \in [Accounts -> [Nfts -> Nat]]
    BY <1>2 DEF Lists
  <1>7. /\ n.next = m.next /\ n.owner = owner /\ n.metadata = owner /\ n.index = index
        /\ n.listing = m.listing /\ n.burned = m.burned
    BY <1>1 DEF OwnedInv, NftStore
  <1>8. n \in NftStore
    BY <1>1, <1>4, <1>6 DEF OwnedInv, NftStore
  <1>9. OwnedInv(n)
    BY <1>2, <1>3, <1>5, <1>7, <1>8 DEF OwnedInv
  <1>10. QED
    BY <1>7, <1>9 DEF n

\* Putting an owned NFT on sale, or taking one off.
LEMMA ListedOwned ==
    ASSUME OwnedInv(nft), NEW i \in Nfts, NEW x \in Accounts \cup {None},
           x # None => nft.owner[i] # None
    PROVE  LET n == [nft EXCEPT !.listing[i] = x]
           IN  OwnedInv(n) /\ n.next = nft.next /\ n.owner = nft.owner
  <1> DEFINE listing == [nft.listing EXCEPT ![i] = x]
             n == [nft EXCEPT !.listing = listing]
  <1>1. /\ listing \in [Nfts -> Accounts \cup {None}] /\ listing[i] = x
        /\ \A j \in Nfts : j # i => listing[j] = nft.listing[j]
    BY DEF OwnedInv, NftStore
  <1> HIDE DEF listing
  <1>2. /\ n \in NftStore /\ n.next = nft.next /\ n.owner = nft.owner
        /\ n.metadata = nft.metadata /\ n.index = nft.index /\ n.listing = listing
        /\ n.burned = nft.burned
    BY <1>1 DEF OwnedInv, NftStore
  <1> HIDE DEF n
  <1>3. OwnedInv(n)
    BY <1>1, <1>2 DEF OwnedInv
  <1>4. QED
    BY <1>2, <1>3 DEF n, listing

LEMMA BurnedOwned ==
    ASSUME OwnedInv(nft), NEW o \in Accounts, NEW i \in Nfts, burn_nft(o, i)
    PROVE  OwnedInv(nft') /\ nft'.next = nft.next
  <1> USE CourseNftAssumption, LedgerAssumption
  <1> DEFINE owner == [nft.owner EXCEPT ![i] = None]
             index == Dropped(nft.index, o, i)
             listing == [nft.listing EXCEPT ![i] = None]
             burned == nft.burned \cup {i}
  <1>1. /\ nft' = [nft EXCEPT !.index = index, !.listing = listing, !.burned = burned,
                              !.owner = owner, !.metadata = owner]
        /\ nft.owner[i] = o
    BY DEF burn_nft, OwnedInv
  <1>2. Lists(Nfts, index, owner)
    BY <1>1, Taken DEF OwnedInv
  <1>3. /\ owner[i] = None /\ \A j \in Nfts : j # i => owner[j] = nft.owner[j]
        /\ listing \in [Nfts -> Accounts \cup {None}] /\ listing[i] = None
        /\ \A j \in Nfts : j # i => listing[j] = nft.listing[j]
        /\ burned \in SUBSET Nfts
    BY DEF OwnedInv, NftStore
  <1>4. ~(i >= nft.next) /\ nft.next \in Nat /\ i \in Nat
    BY <1>1 DEF OwnedInv, NftStore, Nfts
  <1> HIDE DEF owner, index, listing
  <1>5. owner \in [Nfts -> Accounts \cup {None}] /\ index \in [Accounts -> [Nfts -> Nat]]
    BY <1>2 DEF Lists
  <1>6. /\ nft'.next = nft.next /\ nft'.owner = owner /\ nft'.metadata = owner
        /\ nft'.index = index /\ nft'.listing = listing /\ nft'.burned = burned
    BY <1>1 DEF OwnedInv, NftStore
  <1>7. nft' \in NftStore
    <2> DEFINE m1 == [nft EXCEPT !.index = index, !.listing = listing, !.burned = burned]
    <2>1. nft' = [m1 EXCEPT !.owner = owner, !.metadata = owner]
      BY <1>1
    <2>2. m1 \in NftStore
      BY <1>3, <1>5 DEF OwnedInv, NftStore
    <2> HIDE DEF m1
    <2>3. QED
      BY <1>5, <2>1, <2>2 DEF NftStore
  <1>8. QED
    BY <1>2, <1>3, <1>4, <1>6, <1>7 DEF OwnedInv

LEMMA NftCalls ==
    NftInv /\ sequence \in Clock
      /\ (\/ \E o \in Accounts : mint_course_nft(o)
          \/ \E i \in Nfts, a, b \in Accounts :
               transfer_nft(a, b, i) \/ grant_access(a, i, b) \/ revoke_access(a, i, b)
          \/ \E i \in Nfts, a \in Accounts :
               burn_nft(a, i) \/ list_nft(a, i) \/ delist_nft(a, i) \/ buy_nft(a, i))
      => NftInv'
  <1> USE CourseNftAssumption, LedgerAssumption
  <1> SUFFICES ASSUME NftInv,
                      \/ \E o \in Accounts : mint_course_nft(o)
                      \/ \E i \in Nfts, a, b \in Accounts :
                           transfer_nft(a, b, i) \/ grant_access(a, i, b) \/ revoke_access(a, i, b)
                      \/ \E i \in Nfts, a \in Accounts :
                           burn_nft(a, i) \/ list_nft(a, i) \/ delist_nft(a, i) \/ buy_nft(a, i)
               PROVE  NftInv'
    OBVIOUS
  <1>1. OwnedInv(nft) /\ LinkedInv(cred, nft.next)
    BY DEF NftInv
  <1>2. ASSUME NEW o \in Accounts, mint_course_nft(o) PROVE NftInv'
    <2>1. OwnedInv(nft') /\ nft'.next = nft.next + 1
      BY <1>1, <1>2, MintedOwned DEF mint_course_nft
    <2>2. cred' = cred
      BY <1>2 DEF mint_course_nft
    <2>3. LinkedInv(cred, nft.next + 1)
      <3>1. nft.next \in Nat
        BY <1>1 DEF OwnedInv, NftStore
      <3>2. \A i \in Nfts : (i >= nft.next + 1 => i >= nft.next) /\ (i < nft.next => i < nft.next + 1)
        BY <3>1 DEF Nfts
      <3>3. \A c \in Creds : cred.link[c] \in Nfts \cup {None}
        BY <1>1 DEF LinkedInv, CredStore
      <3>4. QED
        BY <1>1, <3>2, <3>3 DEF LinkedInv
    <2>4. QED
      BY <2>1, <2>2, <2>3 DEF NftInv
  <1>3. ASSUME NEW n, OwnedInv(n), n.next = nft.next, nft' = n, cred' = cred PROVE NftInv'
    BY <1>1, <1>3 DEF NftInv
  <1>4. ASSUME NEW i \in Nfts, NEW a \in Accounts, NEW b \in Accounts, transfer_nft(a, b, i)
        PROVE  NftInv'
    <2>1. nft.owner[i] = a /\ nft' = Handed(nft, a, b, i) /\ cred' = cred
      BY <1>4 DEF transfer_nft
    <2>2. OwnedInv(Handed(nft, a, b, i)) /\ Handed(nft, a, b, i).next = nft.next
      BY <1>1, <2>1, HandedOwned
    <2>3. QED
      BY <1>3, <2>1, <2>2
  <1>5. ASSUME NEW i \in Nfts, NEW a \in Accounts, NEW b \in Accounts,
               grant_access(a, i, b) \/ revoke_access(a, i, b)
        PROVE  NftInv'
    <2>1. PICK access \in SUBSET (Nfts \X Accounts) :
            nft' = [nft EXCEPT !.access = access] /\ cred' = cred
      <3>1. /\ nft.access \cup {<<i, b>>} \in SUBSET (Nfts \X Accounts)
            /\ nft.access \ {<<i, b>>} \in SUBSET (Nfts \X Accounts)
        BY <1>1 DEF OwnedInv, NftStore
      <3>2. QED
        BY <1>5, <3>1 DEF grant_access, revoke_access
    <2>2. /\ nft' \in NftStore /\ nft'.next = nft.next /\ nft'.owner = nft.owner
          /\ nft'.metadata = nft.metadata /\ nft'.index = nft.index
          /\ nft'.listing = nft.listing /\ nft'.burned = nft.burned
      BY <1>1, <2>1 DEF OwnedInv, NftStore
    <2>3. OwnedInv(nft')
      BY <1>1, <2>2 DEF OwnedInv
    <2>4. QED
      BY <1>3, <2>1, <2>2, <2>3
  <1>6. ASSUME NEW i \in Nfts, NEW a \in Accounts, burn_nft(a, i) PROVE NftInv'
    <2>1. OwnedInv(nft') /\ nft'.next = nft.next
      BY <1>1, <1>6, BurnedOwned
    <2>2. cred' = cred
      BY <1>6 DEF burn_nft
    <2>3. QED
      BY <1>3, <2>1, <2>2
  <1>7. ASSUME NEW i \in Nfts, NEW a \in Accounts, list_nft(a, i) PROVE NftInv'
    <2>1. /\ nft.owner[i] = a /\ cred' = cred
          /\ nft' = [nft EXCEPT !.listing[i] = a]
      BY <1>7 DEF list_nft
    <2>2. nft.owner[i] # None
      BY <2>1
    <2>3. OwnedInv(nft') /\ nft'.next = nft.next
      BY <1>1, <2>1, <2>2, ListedOwned
    <2>4. QED
      BY <1>3, <2>1, <2>3
  <1>8. ASSUME NEW i \in Nfts, NEW a \in Accounts, delist_nft(a, i) PROVE NftInv'
    <2>1. cred' = cred /\ nft' = [nft EXCEPT !.listing[i] = None]
      BY <1>8 DEF delist_nft
    <2>2. OwnedInv(nft') /\ nft'.next = nft.next
      BY <1>1, <2>1, ListedOwned
    <2>3. QED
      BY <1>3, <2>1, <2>2
  <1>9. ASSUME NEW i \in Nfts, NEW b \in Accounts, buy_nft(b, i) PROVE NftInv'
    <2> DEFINE m == [nft EXCEPT !.listing[i] = None]
               seller == nft.listing[i]
    <2>1. /\ seller # None /\ nft.owner[i] = seller /\ cred' = cred
          /\ nft' = Handed(m, seller, b, i)
      BY <1>9 DEF buy_nft
    <2>2. seller \in Accounts
      BY <1>1, <2>1 DEF OwnedInv, NftStore
    <2>3. OwnedInv(m) /\ m.next = nft.next /\ m.owner = nft.owner
      BY <1>1, ListedOwned
    <2> HIDE DEF m, seller
    <2>4. OwnedInv(Handed(m, seller, b, i)) /\ Handed(m, seller, b, i).next = m.next
      BY <2>1, <2>2, <2>3, HandedOwned
    <2>5. QED
      BY <1>3, <2>1, <2>3, <2>4
  <1>10. QED
    BY <1>2, <1>4, <1>5, <1>6, <1>7, <1>8, <1>9

\* What the calls of the credential contract that mint nothing may change.
LEMMA LinkedKept ==
    ASSUME NEW next, LinkedInv(cred, next), cred' \in CredStore,
           cred'.link = cred.link, cred'.back = cred.back,
           \A c \in Creds : cred.expiry[c] # None => cred'.expiry[c] # None
    PROVE  LinkedInv(cred', next)
  BY DEF LinkedInv

LEMMA CredentialCalls ==
    NftInv /\ sequence \in Clock
      /\ (\/ \E c \in Creds, e \in Clock :
               \/ store_metadata(c, e) \/ renew_credential(c, e)
               \/ store_compact_metadata(c, e)
          \/ \E c \in Creds : update_metadata(c) \/ migrate_to_compact(c))
      => NftInv'
  <1> USE CourseNftAssumption, LedgerAssumption
  <1> SUFFICES ASSUME NftInv,
                      \/ \E c \in Creds, e \in Clock :
                           \/ store_metadata(c, e) \/ renew_credential(c, e)
                           \/ store_compact_metadata(c, e)
                      \/ \E c \in Creds : update_metadata(c) \/ migrate_to_compact(c)
               PROVE  NftInv'
    OBVIOUS
  <1>1. OwnedInv(nft) /\ LinkedInv(cred, nft.next) /\ cred \in CredStore
    BY DEF NftInv, LinkedInv
  <1>2. nft' = nft
    BY DEF store_metadata, renew_credential, store_compact_metadata, update_metadata,
           migrate_to_compact
  <1> DEFINE Kept == /\ cred' \in CredStore /\ cred'.link = cred.link /\ cred'.back = cred.back
                     /\ \A c \in Creds : cred.expiry[c] # None => cred'.expiry[c] # None
  <1>3. Kept
    <2>1. ASSUME NEW c \in Creds, NEW e \in Clock, cred' = [cred EXCEPT !.expiry[c] = e]
          PROVE  Kept
      <3> DEFINE expiry == [cred.expiry EXCEPT ![c] = e]
      <3>1. /\ expiry \in [Creds -> Clock \cup {None}] /\ expiry[c] # None
            /\ \A d \in Creds : d # c => expiry[d] = cred.expiry[d]
        BY <1>1 DEF CredStore, Clock
      <3> HIDE DEF expiry
      <3>2. cred' = [cred EXCEPT !.expiry = expiry]
        BY <2>1 DEF expiry
      <3>3. QED
        BY <1>1, <3>1, <3>2 DEF CredStore
    <2>2. ASSUME NEW c \in Creds, NEW e \in Clock \cup {None},
                 cred' = [cred EXCEPT !.compact[c] = e]
          PROVE  Kept
      <3> DEFINE compact == [cred.compact EXCEPT ![c] = e]
      <3>1. compact \in [Creds -> Clock \cup {None}]
        BY <1>1 DEF CredStore
      <3> HIDE DEF compact
      <3>2. cred' = [cred EXCEPT !.compact = compact]
        BY <2>2 DEF compact
      <3>3. QED
        BY <1>1, <3>1, <3>2 DEF CredStore
    <2>3. ASSUME NEW c \in Creds, update_metadata(c) PROVE Kept
      <3> DEFINE history == [cred.history EXCEPT ![c] = @ + 1]
      <3>1. history \in [Creds -> 0 .. MaxHistory] /\ cred' = [cred EXCEPT !.history = history]
        BY <1>1, <2>3 DEF update_metadata, CredStore
      <3> HIDE DEF history
      <3>2. QED
        BY <1>1, <3>1 DEF CredStore
    <2>4. ASSUME NEW c \in Creds, migrate_to_compact(c) PROVE Kept
      <3>1. /\ cred.expiry[c] \in Clock \cup {None}
            /\ cred' = [cred EXCEPT !.compact[c] = cred.expiry[c]]
        BY <1>1, <2>4 DEF migrate_to_compact, CredStore
      <3>2. QED
        BY <2>2, <3>1
    <2>5. QED
      BY <2>1, <2>2, <2>3, <2>4 DEF store_metadata, renew_credential, store_compact_metadata
  <1>4. LinkedInv(cred', nft.next)
    BY <1>1, <1>3, LinkedKept
  <1>5. QED
    BY <1>1, <1>2, <1>4 DEF NftInv

LEMMA IssueWithNft ==
    ASSUME NftInv, NEW c \in Creds, NEW o \in Accounts, NEW e \in Clock, issue_with_nft(c, o, e)
    PROVE  NftInv'
  <1> USE CourseNftAssumption, LedgerAssumption
  <1> DEFINE i == nft.next
             expiry == [cred.expiry EXCEPT ![c] = e]
             link == [cred.link EXCEPT ![c] = i]
             back == [cred.back EXCEPT ![i] = c]
  <1>1. OwnedInv(nft) /\ LinkedInv(cred, i) /\ cred \in CredStore
    BY DEF NftInv, LinkedInv
  <1>2. /\ nft' = Minted(o) /\ i < MaxNfts /\ cred.link[c] = None
        /\ cred' = [cred EXCEPT !.expiry = expiry, !.link = link, !.back = back]
    BY DEF issue_with_nft
  <1>3. OwnedInv(nft') /\ nft'.next = i + 1
    BY <1>1, <1>2, MintedOwned
  <1>4. i \in Nfts /\ i \in Nat /\ i # None
    BY <1>1, <1>2 DEF OwnedInv, NftStore, Nfts
  <1>5. cred.back[i] = None /\ \A d \in Creds : cred.link[d] # i
    BY <1>1, <1>4 DEF LinkedInv
  <1>6. /\ expiry \in [Creds -> Clock \cup {None}] /\ expiry[c] = e
        /\ \A d \in Creds : d # c => expiry[d] = cred.expiry[d]
        /\ link \in [Creds -> Nfts \cup {None}] /\ link[c] = i
        /\ \A d \in Creds : d # c => link[d] = cred.link[d]
        /\ back \in [Nfts -> Creds \cup {None}] /\ back[i] = c
        /\ \A j \in Nfts : j # i => back[j] = cred.back[j]
    BY <1>1, <1>4 DEF CredStore
  <1>7. \A j \in Nfts : (j >= i + 1 => j >= i /\ j # i) /\ (j < i => j < i + 1)
    BY <1>4 DEF Nfts
  <1>8. e # None /\ i < i + 1
    BY <1>4 DEF Clock
  <1> HIDE DEF expiry, link, back, i
  <1>9. /\ cred' \in CredStore /\ cred'.link = link /\ cred'.back = back
        /\ cred'.expiry = expiry
    BY <1>1, <1>2, <1>6 DEF CredStore
  <1>10. \A d \in Creds, j \in Nfts : link[d] = j <=> back[j] = d
    <2> SUFFICES ASSUME NEW d \in Creds, NEW j \in Nfts PROVE link[d] = j <=> back[j] = d
      OBVIOUS
    <2>1. (cred.link[d] = j <=> cred.back[j] = d) /\ None # j /\ None # d
      BY <1>1 DEF LinkedInv, Nfts
    <2>2. QED
      BY <1>2, <1>4, <1>5, <1>6, <2>1
  <1>11. \A d \in Creds : link[d] # None => link[d] < i + 1 /\ expiry[d] # None
    <2> SUFFICES ASSUME NEW d \in Creds, link[d] # None
                 PROVE  link[d] < i + 1 /\ expiry[d] # None
      OBVIOUS
    <2>1. CASE d = c
      BY <1>6, <1>8, <2>1
    <2>2. CASE d # c
      <3>1. cred.link[d] # None /\ cred.link[d] \in Nfts \cup {None}
        BY <1>1, <1>6, <2>2 DEF CredStore
      <3>2. cred.link[d] < i /\ cred.expiry[d] # None
        BY <1>1, <3>1 DEF LinkedInv
      <3>3. QED
        BY <1>6, <1>7, <2>2, <3>1, <3>2
    <2>3. QED
      BY <2>1, <2>2
  <1>12. \A j \in Nfts : j >= i + 1 => back[j] = None
    BY <1>1, <1>6, <1>7 DEF LinkedInv
  <1>13. LinkedInv(cred', i + 1)
    BY <1>9, <1>10, <1>11, <1>12 DEF LinkedInv
  <1>14. QED
    BY <1>3, <1>13 DEF NftInv

LEMMA NftStep == NftInv /\ sequence \in Clock /\ NftNext => NftInv'
  BY NftCalls, CredentialCalls, IssueWithNft DEF NftNext

LEMMA NftInvImplies == NftInv => NftOwnershipAgrees /\ LinksAgree
  BY ListsAgree
     DEF NftInv, OwnedInv, LinkedInv, NftOwnershipAgrees, LinksAgree, FreshIdsUnowned, Lists

----------------------------------------------------------------------------
(* the registry *)

RegistryStore ==
  [curators : SUBSET Accounts, level : [Accounts -> Levels],
   skills : [Accounts -> [Skills -> Nat]],
   expiry : [Accounts -> [Skills -> Clock \cup {None}]],
   users : [Accounts -> Nat], paused : BOOLEAN,
   since : Clock, until : Nat, over : Nat, written : Clock]

SkillsAgree(r) ==
  \A u \in Accounts :
    /\ r.users[u] <= 1
    /\ \A k \in Skills : r.skills[u][k] = IF r.expiry[u][k] # None THEN 1 ELSE 0

\* While the flag is up nothing was written since; down, the pause is over.
RegistryInv ==
  /\ registry \in RegistryStore
  /\ SkillsAgree(registry)
  /\ registry.written <= sequence
  /\ registry.paused = TRUE =>
       registry.written <= registry.since /\ registry.over = registry.until
  /\ registry.paused = FALSE => registry.over <= sequence
  /\ registry.written <= registry.since \/ registry.over <= registry.written

LEMMA RegistryInitInv == RegistryInit /\ sequence = 0 => RegistryInv
  BY RegistryAssumption, LedgerAssumption
     DEF RegistryInit, RegistryInv, RegistryStore, SkillsAgree, EmptyIndex, Clock

\* r is the storage without the changes of the pause that a step makes.
SamePause(r) ==
  /\ r.paused = registry.paused /\ r.since = registry.since /\ r.until = registry.until
  /\ r.over = registry.over /\ r.written = registry.written

LEMMA RegistryResumed ==
    ASSUME RegistryInv, sequence \in Clock, sequence' = sequence, check_not_paused,
           NEW r \in RegistryStore, SkillsAgree(r), SamePause(r), registry' = Resumed(r)
    PROVE  RegistryInv'
  <1> USE LedgerAssumption
  <1>1. /\ registry' \in RegistryStore /\ registry'.users = r.users
        /\ registry'.skills = r.skills /\ registry'.expiry = r.expiry
        /\ registry'.over = registry.over
        /\ registry'.written = sequence
    BY DEF Resumed, RegistryStore, SamePause
  <1>2. registry'.paused = FALSE
    BY DEF Resumed, RegistryStore
  <1>3. registry.over <= sequence
    <2>1. CASE registry.paused = TRUE
      BY <2>1 DEF RegistryInv, check_not_paused
    <2>2. CASE registry.paused = FALSE
      BY <2>2 DEF RegistryInv
    <2>3. registry.paused \in BOOLEAN
      BY DEF RegistryInv, RegistryStore
    <2>4. QED
      BY <2>1, <2>2, <2>3
  <1>4. SkillsAgree(registry')
    BY <1>1 DEF SkillsAgree
  <1>5. sequence <= sequence
    BY DEF Clock
  <1>6. QED
    BY <1>1, <1>2, <1>3, <1>4, <1>5 DEF RegistryInv

LEMMA RegistryStep ==
    RegistryInv /\ sequence \in Clock /\ sequence' = sequence /\ RegistryNext => RegistryInv'
  <1> USE LedgerAssumption, RegistryAssumption
  <1> SUFFICES ASSUME RegistryInv, sequence \in Clock, sequence' = sequence, RegistryNext
               PROVE  RegistryInv'
    OBVIOUS
  <1>1. /\ registry \in RegistryStore /\ SkillsAgree(registry) /\ sequence <= sequence
        /\ registry.paused \in BOOLEAN
    BY DEF RegistryInv, RegistryStore, Clock
  <1>2. CASE pause
    <2>1. /\ registry.paused = FALSE
          /\ registry' = [registry EXCEPT !.paused = TRUE, !.since = sequence,
                                          !.until = sequence + PauseLedgers,
                                          !.over = sequence + PauseLedgers]
      BY <1>1, <1>2 DEF pause
    <2>2. sequence + PauseLedgers \in Nat
      BY DEF Clock
    <2>3. /\ registry' \in RegistryStore /\ registry'.users = registry.users
          /\ registry'.skills = registry.skills /\ registry'.expiry = registry.expiry
          /\ registry'.paused = TRUE /\ registry'.since = sequence
          /\ registry'.over = registry'.until /\ registry'.written = registry.written
      BY <1>1, <2>1, <2>2 DEF RegistryStore
    <2>4. QED
      BY <1>1, <2>1, <2>3 DEF RegistryInv, SkillsAgree
  <1>3. CASE unpause
    <2>1. /\ registry.paused = TRUE
          /\ registry' = [registry EXCEPT !.paused = FALSE, !.over = sequence]
      BY <1>1, <1>3 DEF unpause
    <2>2. sequence \in Nat
      BY DEF Clock
    <2>3. /\ registry'.users = registry.users
          /\ registry'.skills = registry.skills /\ registry'.expiry = registry.expiry
          /\ registry'.since = registry.since
          /\ registry'.over = sequence /\ registry'.written = registry.written
      BY <1>1, <2>1 DEF RegistryStore
    <2>4. registry'.paused = FALSE
      BY <1>1, <2>1 DEF RegistryStore
    <2>5. registry' \in RegistryStore
      <3>1. [registry EXCEPT !.over = sequence] \in RegistryStore
        BY <1>1, <2>2 DEF RegistryStore
      <3>2. registry' = [[registry EXCEPT !.over = sequence] EXCEPT !.paused = FALSE]
        BY <1>1, <2>1 DEF RegistryStore
      <3>3. QED
        BY <3>1, <3>2 DEF RegistryStore
    <2>6. QED
      BY <1>1, <2>1, <2>3, <2>4, <2>5 DEF RegistryInv, SkillsAgree
  <1>4. ASSUME NEW r \in RegistryStore, SkillsAgree(r), SamePause(r), registry' = r
        PROVE  RegistryInv'
    BY <1>4 DEF RegistryInv, SamePause
  <1>5. ASSUME NEW a \in Accounts, add_curator(a) \/ remove_curator(a) PROVE RegistryInv'
    <2>1. PICK curators \in SUBSET Accounts : registry' = [registry EXCEPT !.curators = curators]
      <3>1. registry.curators \cup {a} \in SUBSET Accounts /\ registry.curators \ {a} \in SUBSET Accounts
        BY <1>1 DEF RegistryStore
      <3>2. QED
        BY <1>5, <3>1 DEF add_curator, remove_curator
    <2>2. registry' \in RegistryStore /\ SamePause(registry') /\ SkillsAgree(registry')
      BY <1>1, <2>1 DEF RegistryStore, SamePause, SkillsAgree
    <2>3. QED
      BY <1>4, <2>2
  <1>6. ASSUME NEW us \in SUBSET Accounts
        PROVE  LET r == [registry EXCEPT !.users = Listed(@, us)]
               IN  r \in RegistryStore /\ SkillsAgree(r) /\ SamePause(r)
    <2> DEFINE users == Listed(registry.users, us)
               r == [registry EXCEPT !.users = users]
    <2>1. users \in [Accounts -> Nat] /\ \A u \in Accounts : users[u] <= 1
      BY <1>1 DEF Listed, RegistryStore, SkillsAgree
    <2> HIDE DEF users
    <2>2. r \in RegistryStore /\ SkillsAgree(r) /\ SamePause(r)
      BY <1>1, <2>1 DEF RegistryStore, SkillsAgree, SamePause
    <2>3. QED
      BY <2>2 DEF users
  <1>7. ASSUME NEW u \in Accounts, register_user(u) PROVE RegistryInv'
    BY <1>4, <1>6, <1>7 DEF register_user
  <1>8. ASSUME NEW us \in SUBSET Accounts, batch_register_users(us) PROVE RegistryInv'
    BY <1>6, <1>8, RegistryResumed DEF batch_register_users
  <1>9. ASSUME NEW a \in Accounts, NEW us \in SUBSET Accounts, NEW l \in Levels,
               set_verification_levels(a, us, l)
        PROVE  RegistryInv'
    <2> DEFINE level == [u \in Accounts |-> IF u \in us THEN l ELSE registry.level[u]]
               r == [registry EXCEPT !.level = level]
    <2>1. level \in [Accounts -> Levels]
      BY <1>1 DEF RegistryStore
    <2>2. registry' = Resumed(r) /\ check_not_paused
      BY <1>9 DEF set_verification_levels
    <2> HIDE DEF level
    <2>3. r \in RegistryStore /\ SkillsAgree(r) /\ SamePause(r)
      BY <1>1, <2>1 DEF RegistryStore, SkillsAgree, SamePause
    <2> HIDE DEF r
    <2>4. QED
      BY <2>2, <2>3, RegistryResumed
  <1>10. ASSUME NEW a \in Accounts, NEW u \in Accounts, NEW k \in Skills, NEW e \in Clock,
                add_certified_skill(a, u, k, e)
         PROVE  RegistryInv'
    <2> DEFINE skills == [registry.skills EXCEPT ![u] = [registry.skills[u] EXCEPT ![k] = 1]]
               expiry == [registry.expiry EXCEPT ![u] = [registry.expiry[u] EXCEPT ![k] = e]]
               r == [registry EXCEPT !.skills = skills, !.expiry = expiry]
    <2>1. /\ registry.skills \in [Accounts -> [Skills -> Nat]]
          /\ registry.expiry \in [Accounts -> [Skills -> Clock \cup {None}]]
      BY <1>1 DEF RegistryStore
    <2>2. /\ skills \in [Accounts -> [Skills -> Nat]]
          /\ \A h \in Accounts, j \in Skills :
               skills[h][j] = IF h = u /\ j = k THEN 1 ELSE registry.skills[h][j]
      BY <2>1
    <2>3. /\ expiry \in [Accounts -> [Skills -> Clock \cup {None}]]
          /\ \A h \in Accounts, j \in Skills :
               expiry[h][j] = IF h = u /\ j = k THEN e ELSE registry.expiry[h][j]
      BY <2>1
    <2>4. (IF registry.skills[u][k] > 0 THEN registry.skills ELSE Pushed(registry.skills, u, k)) = skills
      <3>1. registry.skills[u][k] = 1 \/ registry.skills[u][k] = 0
        BY <1>1 DEF SkillsAgree
      <3>2. CASE registry.skills[u][k] = 1
        <4>1. \A v \in Accounts : registry.skills[v] = skills[v]
          <5> HIDE DEF skills
          <5>1. ASSUME NEW v \in Accounts PROVE registry.skills[v] = skills[v]
            <6>1. /\ registry.skills[v] \in [Skills -> Nat] /\ skills[v] \in [Skills -> Nat]
                  /\ \A j \in Skills : registry.skills[v][j] = skills[v][j]
              BY <2>1, <2>2, <3>2
            <6>2. QED
              BY <6>1
          <5>2. QED
            BY <5>1
        <4> HIDE DEF skills
        <4>2. registry.skills = skills
          BY <2>1, <2>2, <4>1
        <4>3. QED
          BY <3>2, <4>2
      <3>3. CASE registry.skills[u][k] = 0
        BY <2>1, <3>3 DEF Pushed
      <3>4. QED
        BY <3>1, <3>2, <3>3
    <2>5. registry' = Resumed(r) /\ check_not_paused
      BY <1>10, <2>4 DEF add_certified_skill
    <2>6. e # None
      BY DEF Clock
    <2> HIDE DEF skills, expiry
    <2>7. r \in RegistryStore /\ SamePause(r) /\ r.skills = skills /\ r.expiry = expiry
          /\ r.users = registry.users
      BY <1>1, <2>2, <2>3 DEF RegistryStore, SamePause
    <2> HIDE DEF r
    <2>8. SkillsAgree(r)
      BY <1>1, <2>2, <2>3, <2>6, <2>7 DEF SkillsAgree
    <2>9. QED
      BY <2>5, <2>7, <2>8, RegistryResumed
  <1>11. ASSUME NEW a \in Accounts, NEW u \in Accounts, NEW k \in Skills,
                remove_certified_skill(a, u, k)
         PROVE  RegistryInv'
    <2> DEFINE skills == [registry.skills EXCEPT ![u] = [registry.skills[u] EXCEPT ![k] = 0]]
               expiry == [registry.expiry EXCEPT ![u] = [registry.expiry[u] EXCEPT ![k] = None]]
               r == [registry EXCEPT !.skills = skills, !.expiry = expiry]
    <2>1. /\ registry.skills \in [Accounts -> [Skills -> Nat]]
          /\ registry.expiry \in [Accounts -> [Skills -> Clock \cup {None}]]
      BY <1>1 DEF RegistryStore
    <2>2. /\ skills \in [Accounts -> [Skills -> Nat]]
          /\ \A h \in Accounts, j \in Skills :
               skills[h][j] = IF h = u /\ j = k THEN 0 ELSE registry.skills[h][j]
      BY <2>1
    <2>3. /\ expiry \in [Accounts -> [Skills -> Clock \cup {None}]]
          /\ \A h \in Accounts, j \in Skills :
               expiry[h][j] = IF h = u /\ j = k THEN None ELSE registry.expiry[h][j]
      BY <2>1
    <2>4. registry' = Resumed(r) /\ check_not_paused
      BY <1>11 DEF remove_certified_skill
    <2> HIDE DEF skills, expiry
    <2>5. r \in RegistryStore /\ SamePause(r) /\ r.skills = skills /\ r.expiry = expiry
          /\ r.users = registry.users
      BY <1>1, <2>2, <2>3 DEF RegistryStore, SamePause
    <2> HIDE DEF r
    <2>6. SkillsAgree(r)
      BY <1>1, <2>2, <2>3, <2>5, SMTT(30) DEF SkillsAgree
    <2>7. QED
      BY <2>4, <2>5, <2>6, RegistryResumed
  <1>12. QED
    BY <1>2, <1>3, <1>5, <1>7, <1>8, <1>9, <1>10, <1>11 DEF RegistryNext

LEMMA RegistryIdle ==
    RegistryInv /\ sequence \in Clock /\ sequence' \in Clock /\ sequence <= sequence'
      /\ UNCHANGED registry => RegistryInv'
  <1> SUFFICES ASSUME RegistryInv, sequence \in Clock, sequence' \in Clock,
                      sequence <= sequence', registry' = registry
               PROVE  RegistryInv'
    OBVIOUS
  <1>1. registry.written \in Clock /\ registry.over \in Nat
    BY DEF RegistryInv, RegistryStore
  <1>2. QED
    BY <1>1, LedgerAssumption DEF RegistryInv, Clock

LEMMA RegistryInvImplies == RegistryInv => SkillListsAgree /\ PausesHold
  BY DEF RegistryInv, SkillsAgree, SkillListsAgree, PausesHold

----------------------------------------------------------------------------
(* analytics *)

AnalyticsInv == AnalyticsTypeOK /\ ProgressIndexesAgree

LEMMA AnalyticsInitInv == AnalyticsInit => AnalyticsInv
  <1> SUFFICES ASSUME AnalyticsInit PROVE AnalyticsInv
    OBVIOUS
  <1>1. AnalyticsTypeOK
    BY LedgerAssumption, AnalyticsAssumption DEF AnalyticsInit, AnalyticsTypeOK, EmptyIndex
  <1>2. \A t \in Thresholds : ~(0 >= t)
    BY DEF Thresholds
  <1>3. ProgressIndexesAgree
    BY <1>2 DEF AnalyticsInit, ProgressIndexesAgree, EmptyIndex
  <1>4. QED
    BY <1>1, <1>3 DEF AnalyticsInv

\* Lower reports and resets change no best; a report adds what it passes.
LEMMA MilestonesPassed ==
    ASSUME NEW r \in 0 .. 100, NEW p \in 0 .. 100
    PROVE  check_milestones({t \in Thresholds : r >= t}, p)
             = {t \in Thresholds : (IF p > r THEN p ELSE r) >= t}
  <1>1. ASSUME NEW t \in Thresholds
        PROVE  (r >= t \/ p >= t) <=> (IF p > r THEN p ELSE r) >= t
    BY DEF Thresholds
  <1>2. QED
    BY <1>1 DEF check_milestones

LEMMA RecordProgress ==
    ASSUME AnalyticsInv, NEW a \in Accounts, NEW s \in Accounts, NEW c \in Courses,
           NEW p \in Percentages, record_progress(a, s, c, p)
    PROVE  AnalyticsInv'
  <1> USE LedgerAssumption, AnalyticsAssumption
  <1> DEFINE best == IF p > progress.reached[s][c] THEN p ELSE progress.reached[s][c]
             passed == check_milestones(progress.achieved[s][c], p)
             pct == [progress.pct EXCEPT ![s] = [progress.pct[s] EXCEPT ![c] = p]]
             index == IF progress.index[s][c] > 0 THEN progress.index
                      ELSE Pushed(progress.index, s, c)
             students == [progress.students EXCEPT ![c] = progress.students[c] \cup {s}]
             achieved == [progress.achieved EXCEPT ![s] = [progress.achieved[s] EXCEPT ![c] = passed]]
             reached == [progress.reached EXCEPT ![s] = [progress.reached[s] EXCEPT ![c] = best]]
  <1>1. progress' = [progress EXCEPT !.pct = pct, !.index = index, !.students = students,
                                     !.achieved = achieved, !.reached = reached]
    BY DEF record_progress
  <1>2. /\ progress.pct \in [Accounts -> [Courses -> Percentages \cup {None}]]
        /\ progress.index \in [Accounts -> [Courses -> Nat]]
        /\ progress.students \in [Courses -> SUBSET Accounts]
        /\ progress.achieved \in [Accounts -> [Courses -> SUBSET Thresholds]]
        /\ progress.reached \in [Accounts -> [Courses -> 0 .. 100]]
    BY DEF AnalyticsInv, AnalyticsTypeOK
  <1>3. best \in 0 .. 100 /\ p \in 0 .. 100 /\ p # None
    BY <1>2
  <1>4. passed = {t \in Thresholds : best >= t} /\ passed \in SUBSET Thresholds
    <2>1. progress.achieved[s][c] = {t \in Thresholds : progress.reached[s][c] >= t}
      BY DEF AnalyticsInv, ProgressIndexesAgree
    <2>2. progress.reached[s][c] \in 0 .. 100
      BY <1>2
    <2>3. check_milestones({t \in Thresholds : progress.reached[s][c] >= t}, p)
            = {t \in Thresholds : best >= t}
      BY <1>3, <2>2, MilestonesPassed
    <2>4. QED
      BY <2>1, <2>3
  <1> HIDE DEF best, passed
  <1>5. /\ pct \in [Accounts -> [Courses -> Percentages \cup {None}]]
        /\ \A b \in Accounts, d \in Courses :
             pct[b][d] = IF b = s /\ d = c THEN p ELSE progress.pct[b][d]
    BY <1>2
  <1>6. /\ index \in [Accounts -> [Courses -> Nat]]
        /\ \A b \in Accounts, d \in Courses :
             index[b][d] = IF b = s /\ d = c THEN 1 ELSE progress.index[b][d]
    <2>1. progress.index[s][c] = 1 \/ progress.index[s][c] = 0
      BY DEF AnalyticsInv, ProgressIndexesAgree
    <2>2. CASE progress.index[s][c] = 1
      BY <1>2, <2>2
    <2>3. CASE progress.index[s][c] = 0
      <3>1. index = [progress.index EXCEPT ![s] = [progress.index[s] EXCEPT ![c] = 1]]
        BY <1>2, <2>3 DEF Pushed
      <3> HIDE DEF index
      <3>2. QED
        BY <1>2, <3>1
    <2>4. QED
      BY <2>1, <2>2, <2>3
  <1>7. /\ students \in [Courses -> SUBSET Accounts] /\ s \in students[c]
        /\ \A d \in Courses : progress.students[d] \subseteq students[d]
    BY <1>2
  <1>8. /\ achieved \in [Accounts -> [Courses -> SUBSET Thresholds]]
        /\ \A b \in Accounts, d \in Courses :
             achieved[b][d] = IF b = s /\ d = c THEN passed ELSE progress.achieved[b][d]
    BY <1>2, <1>4
  <1>9. /\ reached \in [Accounts -> [Courses -> 0 .. 100]]
        /\ \A b \in Accounts, d \in Courses :
             reached[b][d] = IF b = s /\ d = c THEN best ELSE progress.reached[b][d]
    BY <1>2, <1>3
  <1> HIDE DEF pct, index, students, achieved, reached
  <1>10. /\ progress'.pct = pct /\ progress'.index = index /\ progress'.students = students
         /\ progress'.achieved = achieved /\ progress'.reached = reached
    BY <1>1 DEF AnalyticsInv, AnalyticsTypeOK
  <1>11. AnalyticsTypeOK'
    <2> DEFINE g == [progress EXCEPT !.pct = pct, !.index = index, !.students = students]
               Store == [admin : Accounts, callers : SUBSET Accounts,
                         pct : [Accounts -> [Courses -> Percentages \cup {None}]],
                         index : [Accounts -> [Courses -> Nat]],
                         students : [Courses -> SUBSET Accounts],
                         achieved : [Accounts -> [Courses -> SUBSET Thresholds]],
                         reached : [Accounts -> [Courses -> 0 .. 100]]]
    <2>1. progress' = [g EXCEPT !.achieved = achieved, !.reached = reached]
      BY <1>1
    <2>2. g \in Store
      BY <1>5, <1>6, <1>7 DEF AnalyticsInv, AnalyticsTypeOK
    <2> HIDE DEF g
    <2>3. progress' \in Store
      BY <1>8, <1>9, <2>1, <2>2
    <2>4. QED
      BY <2>3 DEF AnalyticsTypeOK
  <1>12. ASSUME NEW b \in Accounts, NEW d \in Courses
         PROVE  /\ index[b][d] = IF pct[b][d] # None THEN 1 ELSE 0
                /\ pct[b][d] # None => b \in students[d]
                /\ achieved[b][d] = {t \in Thresholds : reached[b][d] >= t}
    <2>1. CASE b = s /\ d = c
      <3>1. /\ pct[b][d] = p /\ index[b][d] = 1 /\ b \in students[d]
            /\ achieved[b][d] = passed /\ reached[b][d] = best
        BY <1>5, <1>6, <1>7, <1>8, <1>9, <2>1
      <3>2. achieved[b][d] = {t \in Thresholds : reached[b][d] >= t}
        BY <1>4, <3>1
      <3>3. QED
        BY <1>3, <3>1, <3>2
    <2>2. CASE ~(b = s /\ d = c)
      <3>1. /\ progress.index[b][d] = IF progress.pct[b][d] # None THEN 1 ELSE 0
            /\ progress.pct[b][d] # None => b \in progress.students[d]
            /\ progress.achieved[b][d] = {t \in Thresholds : progress.reached[b][d] >= t}
        BY DEF AnalyticsInv, ProgressIndexesAgree
      <3>2. QED
        BY <1>5, <1>6, <1>7, <1>8, <1>9, <2>2, <3>1, ZenonT(60)
    <2>3. QED
      BY <2>1, <2>2
  <1>13. ProgressIndexesAgree'
    BY <1>10, <1>12 DEF ProgressIndexesAgree
  <1>14. QED
    BY <1>11, <1>13 DEF AnalyticsInv

LEMMA ResetProgress ==
    ASSUME AnalyticsInv, NEW s \in Accounts, NEW c \in Courses, reset_progress(s, c)
    PROVE  AnalyticsInv'
  <1> USE LedgerAssumption, AnalyticsAssumption
  <1> DEFINE pct == [progress.pct EXCEPT ![s] = [progress.pct[s] EXCEPT ![c] = None]]
             index == [progress.index EXCEPT ![s] = [progress.index[s] EXCEPT ![c] = 0]]
  <1>1. /\ progress.pct \in [Accounts -> [Courses -> Percentages \cup {None}]]
        /\ progress.index \in [Accounts -> [Courses -> Nat]]
    BY DEF AnalyticsInv, AnalyticsTypeOK
  <1>2. Dropped(progress.index, s, c) = index
    <2>1. progress.index[s][c] = 1 \/ progress.index[s][c] = 0
      BY DEF AnalyticsInv, ProgressIndexesAgree
    <2>2. (IF progress.index[s][c] > 0 THEN progress.index[s][c] - 1 ELSE progress.index[s][c]) = 0
      BY <2>1
    <2>3. QED
      BY <2>2 DEF Dropped
  <1>3. progress' = [progress EXCEPT !.pct = pct, !.index = index]
    BY <1>2 DEF reset_progress
  <1>4. /\ pct \in [Accounts -> [Courses -> Percentages \cup {None}]]
        /\ \A b \in Accounts, d \in Courses :
             pct[b][d] = IF b = s /\ d = c THEN None ELSE progress.pct[b][d]
    BY <1>1
  <1>5. /\ index \in [Accounts -> [Courses -> Nat]]
        /\ \A b \in Accounts, d \in Courses :
             index[b][d] = IF b = s /\ d = c THEN 0 ELSE progress.index[b][d]
    BY <1>1
  <1> HIDE DEF pct, index
  <1>6. /\ progress'.pct = pct /\ progress'.index = index
        /\ progress'.students = progress.students
        /\ progress'.achieved = progress.achieved /\ progress'.reached = progress.reached
        /\ AnalyticsTypeOK'
    BY <1>3, <1>4, <1>5 DEF AnalyticsInv, AnalyticsTypeOK
  <1>7. ProgressIndexesAgree'
    <2> SUFFICES ASSUME NEW b \in Accounts, NEW d \in Courses
                 PROVE  /\ index[b][d] = IF pct[b][d] # None THEN 1 ELSE 0
                        /\ pct[b][d] # None => b \in progress.students[d]
                        /\ progress.achieved[b][d]
                             = {t \in Thresholds : progress.reached[b][d] >= t}
      BY <1>6 DEF ProgressIndexesAgree
    <2>1. /\ progress.index[b][d] = IF progress.pct[b][d] # None THEN 1 ELSE 0
          /\ progress.pct[b][d] # None => b \in progress.students[d]
          /\ progress.achieved[b][d] = {t \in Thresholds : progress.reached[b][d] >= t}
      BY DEF AnalyticsInv, ProgressIndexesAgree
    <2>2. /\ index[b][d] = IF pct[b][d] # None THEN 1 ELSE 0
          /\ pct[b][d] # None => b \in progress.students[d]
      BY <1>4, <1>5, <2>1
    <2>3. QED
      BY <2>1, <2>2
  <1>8. QED
    BY <1>6, <1>7 DEF AnalyticsInv

LEMMA AnalyticsStep == AnalyticsInv /\ AnalyticsNext => AnalyticsInv'
  <1> SUFFICES ASSUME AnalyticsInv, AnalyticsNext PROVE AnalyticsInv'
    OBVIOUS
  <1>1. ASSUME NEW a \in Accounts, set_admin(a) \/ allow_caller(a) \/ revoke_caller(a)
        PROVE  AnalyticsInv'
    <2>1. PICK admin \in Accounts, callers \in SUBSET Accounts :
            progress' = [progress EXCEPT !.admin = admin, !.callers = callers]
      <3>1. /\ progress.admin \in Accounts /\ progress.callers \in SUBSET Accounts
            /\ progress.callers \cup {a} \in SUBSET Accounts
            /\ progress.callers \ {a} \in SUBSET Accounts
        BY DEF AnalyticsInv, AnalyticsTypeOK
      <3>2. /\ set_admin(a) => progress' = [progress EXCEPT !.admin = a,
                                                            !.callers = progress.callers]
            /\ allow_caller(a) => progress' = [progress EXCEPT !.admin = progress.admin,
                                                   !.callers = progress.callers \cup {a}]
            /\ revoke_caller(a) => progress' = [progress EXCEPT !.admin = progress.admin,
                                                   !.callers = progress.callers \ {a}]
        BY DEF set_admin, allow_caller, revoke_caller, AnalyticsInv, AnalyticsTypeOK
      <3>3. QED
        BY <1>1, <3>1, <3>2
    <2>2. /\ AnalyticsTypeOK' /\ progress'.pct = progress.pct /\ progress'.index = progress.index
          /\ progress'.students = progress.students
          /\ progress'.achieved = progress.achieved /\ progress'.reached = progress.reached
      BY <2>1 DEF AnalyticsInv, AnalyticsTypeOK
    <2>3. QED
      BY <2>2 DEF AnalyticsInv, ProgressIndexesAgree
  <1>2. QED
    BY <1>1, RecordProgress, ResetProgress DEF AnalyticsNext

----------------------------------------------------------------------------
(* scholarships *)

\* An application not yet made is not yet decided.
ScholarshipsInv ==
  /\ ScholarshipsTypeOK
  /\ FundBalances
  /\ \A i \in Applications : i >= fund.count => fund.status[i] = "Pending"

Distributed == {i \in Applications : fund.status[i] = "Distributed"}

LEMMA FundBalancesIs ==
    FundBalances <=>
      /\ fund.balance >= 0
      /\ fund.balance + SumFunctionOnSet(fund.amount, Distributed) = SumFunction(fund.donated)
  BY DEF FundBalances, Distributed

LEMMA ScholarshipsInitInv == ScholarshipsInit => ScholarshipsInv
  <1> SUFFICES ASSUME ScholarshipsInit PROVE ScholarshipsInv
    OBVIOUS
  <1> USE ScholarshipsAssumption, LedgerAssumption
  <1>1. ScholarshipsTypeOK /\ fund.balance = 0 /\ fund.donated = [a \in Accounts |-> 0]
    BY DEF ScholarshipsInit, ScholarshipsTypeOK
  <1>2. Distributed = {}
    BY DEF ScholarshipsInit, Distributed
  <1>3. SumFunctionOnSet(fund.donated, Accounts) = 0
    BY <1>1, SumZeros
  <1>4. SumFunction(fund.donated) = 0
    BY <1>1, <1>3, SumOverDomain
  <1>5. QED
    BY <1>1, <1>2, <1>4, SumEmpty, FundBalancesIs DEF ScholarshipsInit, ScholarshipsInv

LEMMA ScholarshipsStep == ScholarshipsInv /\ ScholarshipsNext => ScholarshipsInv'
  <1> SUFFICES ASSUME ScholarshipsInv, ScholarshipsNext PROVE ScholarshipsInv'
    OBVIOUS
  <1> USE ScholarshipsAssumption, LedgerAssumption
  <1>0. /\ fund \in [balance : Int, donated : [Accounts -> 0 .. MaxDonated],
                     count : 0 .. MaxApplications, amount : [Applications -> Amounts \cup {0}],
                     status : [Applications ->
                                 {"Pending", "Approved", "Rejected", "Distributed"}]]
        /\ fund.balance \in Int /\ fund.balance >= 0
        /\ fund.donated \in [Accounts -> Int]
        /\ IsFiniteSet(Applications) /\ IsFiniteSet(Distributed)
        /\ \A i \in Applications : fund.amount[i] \in Nat
    <2>1. IsFiniteSet(Applications)
      BY FS_Interval DEF Applications
    <2>2. IsFiniteSet(Distributed)
      BY <2>1, FS_Subset DEF Distributed
    <2>3. /\ fund \in [balance : Int, donated : [Accounts -> 0 .. MaxDonated],
                       count : 0 .. MaxApplications, amount : [Applications -> Amounts \cup {0}],
                       status : [Applications ->
                                   {"Pending", "Approved", "Rejected", "Distributed"}]]
          /\ fund.balance \in Int /\ fund.balance >= 0
      BY FundBalancesIs DEF ScholarshipsInv, ScholarshipsTypeOK
    <2>4. fund.donated \in [Accounts -> 0 .. MaxDonated] /\ 0 .. MaxDonated \subseteq Int
      BY <2>3
    <2>5. \A i \in Applications : fund.amount[i] \in Nat
      <3>1. fund.amount \in [Applications -> Amounts \cup {0}]
        BY <2>3
      <3>2. Amounts \cup {0} \subseteq Nat
        OBVIOUS
      <3>3. QED
        BY <3>1, <3>2
    <2>6. QED
      BY <2>1, <2>2, <2>3, <2>4, <2>5
  <1>1. /\ SumFunctionOnSet(fund.amount, Distributed) \in Int
        /\ SumFunction(fund.donated) \in Int
    BY <1>0, SumType, SumFunctionType DEF Distributed
  <1>2. fund.balance + SumFunctionOnSet(fund.amount, Distributed) = SumFunction(fund.donated)
    BY FundBalancesIs DEF ScholarshipsInv
  <1>3. ASSUME NEW a \in Accounts, NEW x \in Amounts, donate(a, x)
        PROVE  ScholarshipsInv'
    <2> DEFINE donated == [fund.donated EXCEPT ![a] = fund.donated[a] + x]
    <2>1. /\ fund.donated[a] + x \in 0 .. MaxDonated
          /\ fund' = [fund EXCEPT !.balance = fund.balance + x, !.donated = donated]
      BY <1>0, <1>3 DEF donate
    <2>2. donated \in [Accounts -> 0 .. MaxDonated]
      BY <1>0, <2>1
    <2>3. SumFunction(donated) = SumFunction(fund.donated) + x
      <3>1. fund.donated[a] + x \in Int /\ fund.donated[a] \in Int /\ x \in Int
        BY <1>0, <2>1
      <3>2. SumFunction(donated) =
              SumFunction(fund.donated) + (fund.donated[a] + x) - fund.donated[a]
        BY <1>0, <3>1, SumExcept
      <3>3. QED
        BY <1>1, <3>1, <3>2
    <2> HIDE DEF donated
    <2>4. fund.balance + x \in Int
      BY <1>0
    <2>5. /\ ScholarshipsTypeOK' /\ fund'.balance = fund.balance + x
          /\ fund'.donated = donated /\ fund'.amount = fund.amount
          /\ fund'.status = fund.status /\ fund'.count = fund.count
      BY <1>0, <2>1, <2>2, <2>4 DEF ScholarshipsTypeOK
    <2>6. Distributed' = Distributed
      BY <2>5 DEF Distributed
    <2>7. QED
      BY <1>0, <1>1, <1>2, <2>3, <2>5, <2>6 DEF ScholarshipsInv, FundBalances, Distributed
  <1>4. ASSUME NEW x \in Amounts, apply_for_scholarship(x)
        PROVE  ScholarshipsInv'
    <2> DEFINE n == fund.count
               amount == [fund.amount EXCEPT ![n] = x]
    <2>1. /\ n \in Applications /\ n + 1 \in 0 .. MaxApplications
          /\ fund' = [fund EXCEPT !.count = n + 1, !.amount = amount]
      BY <1>0, <1>4 DEF apply_for_scholarship, Applications
    <2>2. /\ amount \in [Applications -> Amounts \cup {0}]
          /\ \A i \in Applications : i # n => amount[i] = fund.amount[i]
      BY <1>0
    <2> HIDE DEF amount
    <2>3. /\ ScholarshipsTypeOK' /\ fund'.balance = fund.balance
          /\ fund'.donated = fund.donated /\ fund'.amount = amount
          /\ fund'.status = fund.status /\ fund'.count = n + 1
      BY <1>0, <2>1, <2>2 DEF ScholarshipsTypeOK
    <2>4. Distributed' = Distributed /\ n \notin Distributed
      BY <1>0, <2>1, <2>3 DEF Distributed, ScholarshipsInv
    <2>5. SumFunctionOnSet(amount, Distributed) = SumFunctionOnSet(fund.amount, Distributed)
      <3>1. \A i \in Distributed : amount[i] = fund.amount[i]
        BY <2>2, <2>4 DEF Distributed
      <3>2. QED
        BY <1>0, <3>1, SumAgrees
    <2>6. \A i \in Applications : i >= fund'.count => fund'.status[i] = "Pending"
      BY <1>0, <2>1, <2>3 DEF ScholarshipsInv, Applications
    <2>7. QED
      BY <1>0, <1>2, <2>3, <2>4, <2>5, <2>6 DEF ScholarshipsInv, FundBalances, Distributed
  <1>5. ASSUME NEW i \in Applications, NEW decision \in {"Approved", "Rejected"},
               decide_application(i, decision)
        PROVE  ScholarshipsInv'
    <2> DEFINE status == [fund.status EXCEPT ![i] = decision]
    <2>1. /\ fund' = [fund EXCEPT !.status = status]
          /\ fund.status[i] = "Pending" /\ i < fund.count
      BY <1>5 DEF decide_application
    <2>2. /\ status \in [Applications -> {"Pending", "Approved", "Rejected", "Distributed"}]
          /\ \A j \in Applications : status[j] = IF j = i THEN decision ELSE fund.status[j]
      BY <1>0
    <2> HIDE DEF status
    <2>3. /\ ScholarshipsTypeOK' /\ fund'.balance = fund.balance
          /\ fund'.donated = fund.donated /\ fund'.amount = fund.amount
          /\ fund'.status = status /\ fund'.count = fund.count
      BY <1>0, <2>1, <2>2 DEF ScholarshipsTypeOK
    <2>4. Distributed' = Distributed
      BY <2>1, <2>2, <2>3 DEF Distributed
    <2>5. \A j \in Applications : j >= fund'.count => fund'.status[j] = "Pending"
      BY <1>0, <2>1, <2>2, <2>3 DEF ScholarshipsInv, Applications
    <2>6. QED
      BY <1>0, <1>2, <2>3, <2>4, <2>5 DEF ScholarshipsInv, FundBalances, Distributed
  <1>6. ASSUME NEW i \in Applications, distribute_scholarship(i)
        PROVE  ScholarshipsInv'
    <2> DEFINE status == [fund.status EXCEPT ![i] = "Distributed"]
               x == fund.amount[i]
    <2>1. /\ fund' = [fund EXCEPT !.balance = fund.balance - x, !.status = status]
          /\ fund.status[i] = "Approved" /\ i < fund.count /\ fund.balance >= x
      BY <1>6 DEF distribute_scholarship
    <2>2. /\ status \in [Applications -> {"Pending", "Approved", "Rejected", "Distributed"}]
          /\ \A j \in Applications : status[j] = IF j = i THEN "Distributed" ELSE fund.status[j]
      BY <1>0
    <2>3. x \in Nat /\ fund.balance - x \in Int
      BY <1>0
    <2> HIDE DEF status, x
    <2>4. /\ ScholarshipsTypeOK' /\ fund'.balance = fund.balance - x
          /\ fund'.donated = fund.donated /\ fund'.amount = fund.amount
          /\ fund'.status = status /\ fund'.count = fund.count
      BY <1>0, <2>1, <2>2, <2>3 DEF ScholarshipsTypeOK
    <2>5. Distributed' = Distributed \cup {i} /\ i \notin Distributed
      BY <2>1, <2>2, <2>4 DEF Distributed
    <2>6. SumFunctionOnSet(fund.amount, Distributed \cup {i}) =
            x + SumFunctionOnSet(fund.amount, Distributed)
      <3>1. \A j \in Distributed \cup {i} : fund.amount[j] \in Int
        BY <1>0 DEF Distributed
      <3>2. QED
        BY <1>0, <2>5, <3>1, SumAdds DEF x
    <2>7. \A j \in Applications : j >= fund'.count => fund'.status[j] = "Pending"
      BY <1>0, <2>1, <2>2, <2>4 DEF ScholarshipsInv, Applications
    <2>8. FundBalances'
      <3>1. fund'.balance + SumFunctionOnSet(fund'.amount, Distributed')
              = SumFunction(fund'.donated)
        BY <1>0, <1>1, <1>2, <2>3, <2>4, <2>5, <2>6
      <3>2. fund'.balance >= 0
        BY <1>0, <2>1, <2>3, <2>4
      <3>3. QED
        BY <3>1, <3>2 DEF FundBalances, Distributed
    <2>9. QED
      BY <2>4, <2>7, <2>8 DEF ScholarshipsInv
  <1>7. QED
    BY <1>3, <1>4, <1>5, <1>6
       DEF ScholarshipsNext, approve_application, reject_application

----------------------------------------------------------------------------
(* royalties *)

RoyaltyRecord ==
  [split : Splits \cup {None}, recipients : Seq(Accounts), balance : [Accounts -> Nat],
   withdrawn : Nat, payments : Seq(Royalty), forfeited : Nat]

RoyaltiesInv ==
  /\ royalty \in RoyaltyRecord
  /\ royalty.split # None => royalty.split[1] + royalty.split[2] + royalty.split[3] = 100
  /\ RoyaltiesBalance

LEMMA RoyaltiesInitInv == RoyaltiesInit => RoyaltiesInv
  <1> SUFFICES ASSUME RoyaltiesInit PROVE RoyaltiesInv
    OBVIOUS
  <1> USE RoyaltiesAssumption, LedgerAssumption
  <1>1. /\ royalty \in RoyaltyRecord /\ royalty.split = None
        /\ royalty.balance = [a \in Accounts |-> 0]
        /\ royalty.withdrawn = 0 /\ royalty.payments = <<>> /\ royalty.forfeited = 0
    BY DEF RoyaltiesInit, RoyaltyRecord
  <1>2. SumFunctionOnSet(royalty.balance, Accounts) = 0
    BY <1>1, SumZeros
  <1>3. SumFunction(royalty.balance) = 0
    BY <1>1, <1>2, SumOverDomain
  <1>4. royalty.payments \in Seq(Int)
    BY <1>1
  <1>5. SumFunction(royalty.payments) = 0
    BY <1>1, <1>4, SumOfSeq
  <1>6. QED
    BY <1>1, <1>3, <1>5 DEF RoyaltiesInv, RoyaltiesBalance

\* Crediting an account adds the amount to the books.
Credited(f, b, y) == [a \in Accounts |-> f[a] + (IF b = a THEN y ELSE 0)]

LEMMA CreditAdds ==
    ASSUME NEW f \in [Accounts -> Nat], NEW b \in Accounts, NEW y \in Nat
    PROVE  /\ Credited(f, b, y) \in [Accounts -> Nat]
           /\ SumFunction(Credited(f, b, y)) = SumFunction(f) + y
  <1> DEFINE g == Credited(f, b, y)
             v == f[b] + y
  <1>1. v \in Int /\ f[b] \in Int /\ f \in [Accounts -> Int] /\ IsFiniteSet(Accounts)
    BY LedgerAssumption
  <1>2. \A a \in Accounts : g[a] \in Nat /\ g[a] = IF a = b THEN v ELSE f[a]
    BY DEF Credited
  <1>3. SumFunction(f) \in Int
    BY <1>1, SumFunctionType
  <1>4. g = [a \in Accounts |-> g[a]]
    BY DEF Credited
  <1> HIDE DEF v, g
  <1>5. g \in [Accounts -> Nat] /\ g = [f EXCEPT ![b] = v]
    BY <1>2, <1>4
  <1>6. SumFunction([f EXCEPT ![b] = v]) = SumFunction(f) + v - f[b]
    BY <1>1, SumExcept
  <1>7. SumFunction(f) + v - f[b] = SumFunction(f) + y
    BY <1>1, <1>3 DEF v
  <1>8. QED
    BY <1>5, <1>6, <1>7 DEF g

\* The rounded shares never exceed the payment.
LEMMA SharesFit ==
    ASSUME NEW x \in Nat, NEW p \in Nat, NEW q \in Nat, p + q <= 100
    PROVE  /\ compute_split_amount(x, p) \in Nat /\ compute_split_amount(x, q) \in Nat
           /\ x - compute_split_amount(x, p) - compute_split_amount(x, q) \in Nat
  <1> DEFINE a == x * p
             b == x * q
             c == x * (100 - p - q)
  <1>1. 100 - p - q \in Nat
    OBVIOUS
  <1>2. a \in Nat /\ b \in Nat /\ c \in Nat
    BY <1>1
  <1>3. a + b + c = x * 100
    BY <1>1
  <1> HIDE DEF a, b, c
  <1>4. /\ a \div 100 \in Nat /\ b \div 100 \in Nat
        /\ 100 * (a \div 100) <= a /\ 100 * (b \div 100) <= b
    BY <1>2
  <1>5. a \div 100 + b \div 100 <= x
    BY <1>2, <1>3, <1>4
  <1>6. QED
    BY <1>4, <1>5 DEF compute_split_amount, a, b

LEMMA RoyaltiesStep == RoyaltiesInv /\ RoyaltiesNext => RoyaltiesInv'
  <1> SUFFICES ASSUME RoyaltiesInv, RoyaltiesNext PROVE RoyaltiesInv'
    OBVIOUS
  <1> USE RoyaltiesAssumption, LedgerAssumption
  <1> DEFINE held == royalty.withdrawn + SumFunction(royalty.balance) + royalty.forfeited
             recorded == SumFunction(royalty.payments)
  <1>0. /\ royalty \in RoyaltyRecord
        /\ royalty.balance \in [Accounts -> Nat] /\ royalty.withdrawn \in Nat
        /\ royalty.payments \in Seq(Royalty) /\ royalty.payments \in Seq(Int)
        /\ royalty.forfeited \in Nat
    <2>1. royalty.payments \in Seq(Royalty) /\ Royalty \subseteq Int
      BY DEF RoyaltiesInv, RoyaltyRecord
    <2>2. royalty.payments \in Seq(Int)
      BY <2>1, SeqMonotonic
    <2>3. QED
      BY <2>1, <2>2 DEF RoyaltiesInv, RoyaltyRecord
  <1>1. SumFunction(royalty.balance) \in Nat /\ recorded \in Int
    BY <1>0, SumFunctionType, SumOfSeq
  <1>2. held = recorded
    BY DEF RoyaltiesInv, RoyaltiesBalance
  <1>3. ASSUME NEW s \in Splits, set_royalty_split(s)
        PROVE  RoyaltiesInv'
    <2>1. /\ royalty' \in RoyaltyRecord /\ royalty'.split = s
          /\ royalty'.balance = royalty.balance /\ royalty'.withdrawn = royalty.withdrawn
          /\ royalty'.payments = royalty.payments
          /\ royalty'.forfeited = royalty.forfeited
      BY <1>0, <1>3 DEF set_royalty_split, RoyaltyRecord
    <2>2. s[1] + s[2] + s[3] = 100
      BY <1>3 DEF set_royalty_split
    <2>3. QED
      BY <1>2, <2>1, <2>2 DEF RoyaltiesInv, RoyaltiesBalance
  <1>4. ASSUME NEW a \in Accounts, add_royalty_recipient(a)
        PROVE  RoyaltiesInv'
    <2>1. Append(royalty.recipients, a) \in Seq(Accounts)
      BY <1>0 DEF RoyaltyRecord
    <2>2. /\ royalty' \in RoyaltyRecord /\ royalty'.split = royalty.split
          /\ royalty'.balance = royalty.balance /\ royalty'.withdrawn = royalty.withdrawn
          /\ royalty'.payments = royalty.payments
          /\ royalty'.forfeited = royalty.forfeited
      BY <1>0, <1>4, <2>1 DEF add_royalty_recipient, RoyaltyRecord
    <2>3. QED
      BY <1>2, <2>2 DEF RoyaltiesInv, RoyaltiesBalance
  <1>5. ASSUME NEW a \in Accounts, withdraw_royalties(a)
        PROVE  RoyaltiesInv'
    <2> DEFINE x == royalty.balance[a]
               balance == [royalty.balance EXCEPT ![a] = 0]
    <2>1. /\ x \in Nat /\ balance \in [Accounts -> Nat]
          /\ royalty' = [royalty EXCEPT !.withdrawn = royalty.withdrawn + x,
                                        !.balance = balance]
      BY <1>0, <1>5 DEF withdraw_royalties
    <2>2. SumFunction(balance) = SumFunction(royalty.balance) - x
      <3>1. royalty.balance \in [Accounts -> Int]
        BY <1>0
      <3>2. SumFunction(balance) = SumFunction(royalty.balance) + 0 - x
        BY <3>1, SumExcept
      <3>3. QED
        BY <1>1, <2>1, <3>2
    <2> HIDE DEF balance, x
    <2>3. royalty.withdrawn + x \in Nat
      BY <1>0, <2>1
    <2>4. /\ royalty' \in RoyaltyRecord /\ royalty'.split = royalty.split
          /\ royalty'.balance = balance /\ royalty'.withdrawn = royalty.withdrawn + x
          /\ royalty'.payments = royalty.payments
          /\ royalty'.forfeited = royalty.forfeited
      BY <1>0, <2>1, <2>3 DEF RoyaltyRecord
    <2>5. royalty'.withdrawn + SumFunction(royalty'.balance) + royalty'.forfeited = held
      BY <1>0, <1>1, <2>1, <2>2, <2>4
    <2>6. QED
      BY <1>2, <2>4, <2>5 DEF RoyaltiesInv, RoyaltiesBalance
  <1>6. ASSUME NEW x \in Royalty, distribute_royalties(x)
        PROVE  RoyaltiesInv'
    <2> DEFINE to == royalty.recipients
               s == royalty.split
               creator == compute_split_amount(x, s[1])
               contributor == compute_split_amount(x, s[2])
               rest == x - creator - contributor
               second == IF Len(to) > 1 THEN contributor ELSE 0
               lost == IF Len(to) = 1 THEN contributor ELSE 0
               b0 == royalty.balance
               b1 == Credited(b0, to[1], creator)
               other == IF Len(to) > 1 THEN to[2] ELSE to[1]
               b2 == Credited(b1, other, second)
               b3 == Credited(b2, to[Len(to)], rest)
    <2>1. /\ s # None /\ to # <<>> /\ to \in Seq(Accounts)
          /\ s \in Nat \X Nat \X Nat /\ s[1] + s[2] + s[3] = 100
      BY <1>0, <1>6 DEF distribute_royalties, RoyaltiesInv, RoyaltyRecord
    <2>2. /\ Len(to) \in Nat \ {0} /\ to[1] \in Accounts /\ to[Len(to)] \in Accounts
          /\ other \in Accounts
      BY <2>1
    <2>3. x \in Nat /\ s[1] \in Nat /\ s[2] \in Nat /\ s[3] \in Nat
      BY <2>1
    <2>4. creator \in Nat /\ contributor \in Nat /\ rest \in Nat
      <3>1. s[1] + s[2] <= 100
        BY <2>1, <2>3
      <3> HIDE DEF s
      <3>2. QED
        BY <2>3, <3>1, SharesFit
    <2>5. /\ royalty'.balance = [a \in Accounts |-> b0[a]
              + (IF to[1] = a THEN creator ELSE 0)
              + (IF Len(to) > 1 THEN (IF to[2] = a THEN contributor ELSE 0) ELSE 0)
              + (IF to[Len(to)] = a THEN rest ELSE 0)]
          /\ royalty'.payments = Append(royalty.payments, x)
          /\ royalty'.forfeited = royalty.forfeited + lost
          /\ royalty'.split = s /\ royalty'.recipients = to
          /\ royalty'.withdrawn = royalty.withdrawn
          /\ royalty' = [royalty EXCEPT !.balance = royalty'.balance,
                                        !.payments = royalty'.payments,
                                        !.forfeited = royalty'.forfeited]
      BY <1>0, <1>6 DEF distribute_royalties, RoyaltyRecord
    <2> HIDE DEF to, s, creator, contributor, rest
    <2>6. second \in Nat /\ lost \in Nat
      BY <2>4
    <2>7. b1 \in [Accounts -> Nat] /\ SumFunction(b1) = SumFunction(b0) + creator
      BY <1>0, <2>2, <2>4, CreditAdds
    <2> HIDE DEF b1
    <2>8. b2 \in [Accounts -> Nat] /\ SumFunction(b2) = SumFunction(b1) + second
      BY <2>2, <2>6, <2>7, CreditAdds, ZenonT(60)
    <2> HIDE DEF b2
    <2>9. b3 \in [Accounts -> Nat] /\ SumFunction(b3) = SumFunction(b2) + rest
      BY <2>2, <2>4, <2>8, CreditAdds, ZenonT(60)
    <2>10. royalty'.balance = b3
      <3>1. ASSUME NEW a \in Accounts
            PROVE  b3[a] = b0[a]
                      + (IF to[1] = a THEN creator ELSE 0)
                      + (IF Len(to) > 1 THEN (IF to[2] = a THEN contributor ELSE 0) ELSE 0)
                      + (IF to[Len(to)] = a THEN rest ELSE 0)
        BY <1>0, <2>4 DEF b1, b2, Credited
      <3>2. \A a \in Accounts : royalty'.balance[a] = b3[a]
        BY <2>5, <3>1, ZenonT(60)
      <3>3. royalty'.balance = [a \in Accounts |-> royalty'.balance[a]]
        BY <2>5
      <3> HIDE DEF b3
      <3>4. QED
        BY <2>9, <3>2, <3>3
    <2> HIDE DEF b3, second, lost
    <2>11. /\ SumFunction(Append(royalty.payments, x)) = recorded + x
           /\ Append(royalty.payments, x) \in Seq(Royalty)
      BY <1>0, <2>3, SumOfAppend
    <2>12. royalty' \in RoyaltyRecord
      <3>1. royalty.forfeited + lost \in Nat
        BY <1>0, <2>6
      <3>2. QED
        BY <1>0, <2>5, <2>9, <2>10, <2>11, <3>1 DEF RoyaltyRecord
    <2>13. SumFunction(royalty'.balance) = SumFunction(b0) + creator + second + rest
      BY <1>1, <2>4, <2>6, <2>7, <2>8, <2>9, <2>10
    <2>14. RoyaltiesBalance'
      <3>1. Len(to) > 1 \/ Len(to) = 1
        <4> DEFINE n == Len(to)
        <4>1. n \in Nat /\ n # 0
          BY <2>2
        <4> HIDE DEF n
        <4>2. n > 1 \/ n = 1
          BY <4>1
        <4>3. QED
          BY <4>2 DEF n
      <3>2. second + lost = contributor
        <4>1. CASE Len(to) = 1
          BY <2>4, <4>1 DEF second, lost
        <4>2. CASE Len(to) > 1
          BY <2>2, <2>4, <4>2 DEF second, lost
        <4>3. QED
          BY <3>1, <4>1, <4>2
      <3>3. creator + second + rest + lost = x
        BY <2>3, <2>4, <2>6, <3>2 DEF rest
      <3>4. /\ royalty'.withdrawn = royalty.withdrawn /\ royalty'.forfeited = royalty.forfeited + lost
            /\ SumFunction(royalty'.payments) = recorded + x
        BY <2>5, <2>11
      <3>5. /\ royalty.withdrawn \in Nat /\ SumFunction(b0) \in Nat /\ royalty.forfeited \in Nat
            /\ royalty.withdrawn + SumFunction(b0) + royalty.forfeited = recorded
        BY <1>0, <1>1, <1>2
      <3> HIDE DEF held, recorded, b0
      <3>6. royalty.withdrawn + (SumFunction(b0) + creator + second + rest)
              + (royalty.forfeited + lost) = recorded + x
        BY <2>3, <2>4, <2>6, <3>3, <3>5
      <3>7. QED
        BY <2>13, <3>4, <3>6 DEF RoyaltiesBalance
    <2>15. QED
      BY <2>1, <2>5, <2>12, <2>14 DEF RoyaltiesInv
  <1>7. QED
    BY <1>3, <1>4, <1>5, <1>6 DEF RoyaltiesNext

----------------------------------------------------------------------------
(* buybacks *)

Config ==
  [enabled : BOOLEAN, threshold : Int, max : Int, min : Int, interval : Nat]

Bought ==
  [ledger : Int, bought : Int, spent : Int, reason : {"price_thr", "manual"},
   left : Int, since : Int, config : Config]

\* last is the ledger of the last entry, which the interval is counted from.
BuybackInv ==
  /\ buyback \in [config : Config, reserve : Int, total : Int, last : Int,
                  history : Seq(Bought), added : Int]
  /\ buyback.history # <<>> => buyback.last = buyback.history[Len(buyback.history)].ledger
  /\ BuybacksAreSpaced

LEMMA BuybackInitInv == BuybackInit => BuybackInv
  <1> SUFFICES ASSUME BuybackInit PROVE BuybackInv
    OBVIOUS
  <1>1. buyback.history = <<>>
    BY DEF BuybackInit
  <1>2. FirstConfig \in Config
    BY BuybackAssumption DEF Config
  <1>3. QED
    BY <1>1, <1>2 DEF BuybackInit, BuybackInv, BuybacksAreSpaced

LEMMA BuybackExecuted ==
    ASSUME BuybackInv, sequence \in Nat, NEW x \in Int, NEW reason \in {"price_thr", "manual"},
           execute_buyback_via_dex(x, reason),
           reason = "price_thr" => x > 0 /\ sequence - buyback.last >= buyback.config.interval
    PROVE  BuybackInv'
  <1> DEFINE H == buyback.history
             bst == Least((x * 1000000) \div Price, buyback.config.max)
             e == [ledger |-> sequence, bought |-> bst, spent |-> x, reason |-> reason,
                   left |-> buyback.reserve - x, since |-> sequence - buyback.last,
                   config |-> buyback.config]
  <1>1. /\ H \in Seq(Bought) /\ buyback.config \in Config /\ buyback.last \in Int
        /\ buyback.reserve \in Int /\ buyback.total \in Int
    BY DEF BuybackInv
  <1>2. bst \in Int
    <2>1. (x * 1000000) \div Price \in Int
      BY BuybackAssumption
    <2>2. buyback.config.max \in Int
      BY <1>1 DEF Config
    <2>3. QED
      BY <2>1, <2>2 DEF Least
  <1>3. buyback' = [buyback EXCEPT !.reserve = buyback.reserve - x,
                                   !.total = buyback.total + bst,
                                   !.last = sequence, !.history = Append(H, e)]
    BY DEF execute_buyback_via_dex
  <1> HIDE DEF bst
  <1>4. e \in Bought
    BY <1>1, <1>2 DEF Bought
  <1>5. e.ledger = sequence /\ e.reason = reason /\ e.spent = x /\ e.config = buyback.config
    OBVIOUS
  <1>6. buyback.reserve - x \in Int /\ buyback.total + bst \in Int
    BY <1>1, <1>2
  <1> HIDE DEF e, H
  <1> DEFINE G == Append(H, e)
  <1>7. /\ G \in Seq(Bought) /\ Len(G) = Len(H) + 1 /\ G # <<>>
        /\ G[Len(G)] = e /\ Len(H) \in Nat
        /\ \A i \in 1 .. Len(H) : G[i] = H[i]
    BY <1>1, <1>4
  <1> HIDE DEF G
  <1>8. /\ buyback'.history = G /\ buyback'.last = sequence
        /\ buyback' \in [config : Config, reserve : Int, total : Int, last : Int,
                         history : Seq(Bought), added : Int]
    <2>1. /\ buyback \in [config : Config, reserve : Int, total : Int, last : Int,
                          history : Seq(Bought), added : Int]
          /\ buyback' = [buyback EXCEPT !.reserve = buyback.reserve - x,
                                        !.total = buyback.total + bst,
                                        !.last = sequence, !.history = G]
      BY <1>3 DEF BuybackInv, G
    <2> DEFINE g == [buyback EXCEPT !.reserve = buyback.reserve - x,
                                    !.total = buyback.total + bst]
    <2>2. /\ g \in [config : Config, reserve : Int, total : Int, last : Int,
                     history : Seq(Bought), added : Int]
          /\ buyback' = [g EXCEPT !.last = sequence, !.history = G]
      BY <1>6, <2>1
    <2> HIDE DEF g
    <2>3. sequence \in Int /\ G \in Seq(Bought)
      BY <1>7
    <2> HIDE DEF H
    <2>4. QED
      BY <2>2, <2>3
  <1>9. ASSUME NEW i \in DOMAIN G, G[i].reason = "price_thr"
        PROVE  /\ G[i].spent > 0
               /\ i > 1 => G[i].ledger - G[i-1].ledger >= G[i].config.interval
    <2>1. i \in 1 .. Len(H) + 1
      BY <1>7
    <2>2. CASE i = Len(H) + 1
      <3>1. G[i] = e /\ (i > 1 => i - 1 \in 1 .. Len(H) /\ G[i-1] = H[Len(H)])
        BY <1>7, <2>2
      <3>2. i > 1 => buyback.last = H[Len(H)].ledger
        <4>1. i > 1 => H # <<>>
          BY <1>1, <1>7, <2>2
        <4>2. QED
          BY <4>1 DEF BuybackInv, H
      <3>3. QED
        BY <1>5, <1>9, <3>1, <3>2
    <2>3. CASE i \in 1 .. Len(H)
      <3>1. G[i] = H[i] /\ (i > 1 => G[i-1] = H[i-1])
        BY <1>7, <2>3
      <3>2. H[i].reason = "price_thr" =>
              /\ H[i].spent > 0
              /\ i > 1 => H[i].ledger - H[i-1].ledger >= H[i].config.interval
        BY <1>1, <2>3 DEF BuybackInv, BuybacksAreSpaced, H
      <3>3. QED
        BY <1>9, <3>1, <3>2
    <2>4. QED
      BY <1>7, <2>1, <2>2, <2>3
  <1>10. BuybacksAreSpaced'
    BY <1>8, <1>9 DEF BuybacksAreSpaced
  <1>11. QED
    BY <1>5, <1>7, <1>8, <1>10 DEF BuybackInv

LEMMA BuybackStep == BuybackInv /\ sequence \in Nat /\ BuybackNext => BuybackInv'
  <1> SUFFICES ASSUME BuybackInv, sequence \in Nat, BuybackNext PROVE BuybackInv'
    OBVIOUS
  <1>1. ASSUME NEW c \in Configs, update_config(c) PROVE BuybackInv'
    <2>1. c \in Config
      BY BuybackAssumption DEF Config
    <2>2. QED
      BY <1>1, <2>1 DEF update_config, BuybackInv, BuybacksAreSpaced
  <1>2. ASSUME NEW x \in Deposits, add_to_reserve(x) PROVE BuybackInv'
    <2>1. x \in Int
      BY BuybackAssumption
    <2>2. buyback.reserve + x \in Int /\ buyback.added + x \in Int
      BY <2>1 DEF BuybackInv
    <2>3. /\ buyback' \in [config : Config, reserve : Int, total : Int, last : Int,
                            history : Seq(Bought), added : Int]
          /\ buyback'.last = buyback.last /\ buyback'.history = buyback.history
      BY <1>2, <2>2 DEF add_to_reserve, BuybackInv
    <2>4. QED
      BY <2>3 DEF BuybackInv, BuybacksAreSpaced
  <1>3. ASSUME check_and_execute_buyback PROVE BuybackInv'
    <2> DEFINE x == Least(buyback.reserve - buyback.config.min, buyback.config.max)
    <2>1. /\ sequence - buyback.last >= buyback.config.interval /\ x > 0
          /\ execute_buyback_via_dex(x, "price_thr")
      BY <1>3 DEF check_and_execute_buyback
    <2>2. x \in Int
      BY DEF Least, BuybackInv, Config
    <2> HIDE DEF x
    <2>3. QED
      BY <2>1, <2>2, BuybackExecuted
  <1>4. ASSUME NEW x \in Orders, manual_buyback(x) PROVE BuybackInv'
    <2>1. x \in Int /\ execute_buyback_via_dex(x, "manual")
      BY <1>4, BuybackAssumption DEF manual_buyback
    <2>2. QED
      BY <2>1, BuybackExecuted
  <1>5. QED
    BY <1>1, <1>2, <1>3, <1>4 DEF BuybackNext

\* The books of the reserve.
BuybackBooks == BuybackTypeOK /\ ReserveBalances

Spent(H) == [i \in DOMAIN H |-> H[i].spent]
Received(H) == [i \in DOMAIN H |-> H[i].bought]

LEMMA BuybackSums ==
    ASSUME NEW H \in Seq(Bought)
    PROVE  /\ SumFunction(Spent(H)) \in Int /\ SumFunction(Received(H)) \in Int
           /\ H = <<>> => SumFunction(Spent(H)) = 0 /\ SumFunction(Received(H)) = 0
           /\ \A e \in Bought :
                /\ SumFunction(Spent(Append(H, e))) = SumFunction(Spent(H)) + e.spent
                /\ SumFunction(Received(Append(H, e))) = SumFunction(Received(H)) + e.bought
  <1>1. /\ Len(H) \in Nat /\ DOMAIN H = 1 .. Len(H)
        /\ \A i \in 1 .. Len(H) : H[i].spent \in Int /\ H[i].bought \in Int
    <2>1. \A i \in 1 .. Len(H) : H[i] \in Bought
      OBVIOUS
    <2>2. QED
      BY <2>1 DEF Bought
  <1>2. /\ DOMAIN Spent(H) = 1 .. Len(H) /\ DOMAIN Received(H) = 1 .. Len(H)
        /\ \A i \in 1 .. Len(H) : Spent(H)[i] = H[i].spent /\ Received(H)[i] = H[i].bought
    BY <1>1 DEF Spent, Received
  <1>3. /\ SumFunction(Spent(H)) = SumFunctionOnSet(Spent(H), 1 .. Len(H))
        /\ SumFunction(Received(H)) = SumFunctionOnSet(Received(H), 1 .. Len(H))
    BY <1>2, SumOverDomain
  <1>4. SumFunction(Spent(H)) \in Int /\ SumFunction(Received(H)) \in Int
    <2>1. IsFiniteSet(1 .. Len(H))
      <3>1. \A n \in Nat : IsFiniteSet(1 .. n)
        BY FS_Interval
      <3>2. QED
        BY <1>1, <3>1
    <2>2. \A i \in 1 .. Len(H) : Spent(H)[i] \in Int /\ Received(H)[i] \in Int
      BY <1>1, <1>2
    <2>3. QED
      BY <1>3, <2>1, <2>2, SumType
  <1>5. H = <<>> => SumFunction(Spent(H)) = 0 /\ SumFunction(Received(H)) = 0
    <2>1. H = <<>> => 1 .. Len(H) = {}
      OBVIOUS
    <2>2. QED
      BY <1>3, <2>1, SumEmpty
  <1>6. ASSUME NEW e \in Bought
        PROVE  /\ SumFunction(Spent(Append(H, e))) = SumFunction(Spent(H)) + e.spent
               /\ SumFunction(Received(Append(H, e))) = SumFunction(Received(H)) + e.bought
    <2> DEFINE n == Len(H)
               G == Append(H, e)
    <2>1. /\ n \in Nat /\ DOMAIN G = 1 .. (n + 1)
          /\ \A i \in 1 .. n : G[i] = H[i]
          /\ G[n + 1] = e /\ e.spent \in Int /\ e.bought \in Int
      BY <1>1 DEF Bought
    <2> HIDE DEF G, n
    <2>2. /\ DOMAIN Spent(G) = 1 .. (n + 1) /\ DOMAIN Received(G) = 1 .. (n + 1)
          /\ Spent(G)[n + 1] = e.spent /\ Received(G)[n + 1] = e.bought
      BY <2>1 DEF Spent, Received
    <2>3. \A i \in 1 .. n : i \in 1 .. (n + 1)
      BY <2>1
    <2>4. \A i \in 1 .. n : Spent(H)[i] = Spent(G)[i] /\ Received(H)[i] = Received(G)[i]
      BY <1>2, <2>1, <2>3 DEF Spent, Received, n
    <2>5. \A i \in 1 .. (n + 1) : Spent(G)[i] \in Int /\ Received(G)[i] \in Int
      <3>1. \A i \in 1 .. (n + 1) : i \in 1 .. n \/ i = n + 1
        BY <2>1
      <3>2. QED
        BY <1>1, <1>2, <2>1, <2>2, <2>4, <3>1 DEF n
    <2>6. /\ SumFunctionOnSet(Spent(G), 1 .. (n + 1))
                = SumFunctionOnSet(Spent(H), 1 .. n) + Spent(G)[n + 1]
          /\ SumFunctionOnSet(Received(G), 1 .. (n + 1))
                = SumFunctionOnSet(Received(H), 1 .. n) + Received(G)[n + 1]
      BY <2>1, <2>4, <2>5, SumAppend
    <2>7. /\ SumFunction(Spent(G)) = SumFunctionOnSet(Spent(G), 1 .. (n + 1))
          /\ SumFunction(Received(G)) = SumFunctionOnSet(Received(G), 1 .. (n + 1))
      BY <2>2, SumOverDomain
    <2>8. QED
      BY <1>3, <2>2, <2>6, <2>7 DEF n, G
  <1>7. QED
    BY <1>4, <1>5, <1>6

LEMMA ReserveBalancesIs ==
    ReserveBalances <=>
      /\ buyback.reserve + SumFunction(Spent(buyback.history)) = buyback.added
      /\ buyback.total = SumFunction(Received(buyback.history))
      /\ \A i \in DOMAIN buyback.history :
           buyback.history[i].left >= buyback.history[i].config.min
      /\ buyback.reserve < 0 =>
           \E i \in DOMAIN buyback.history : buyback.history[i].config.min < 0
  BY DEF ReserveBalances, Spent, Received

LEMMA BuybackBooksInit == BuybackInit => BuybackBooks
  <1> SUFFICES ASSUME BuybackInit PROVE BuybackBooks
    OBVIOUS
  <1>1. /\ buyback.history = <<>> /\ buyback.reserve = 0 /\ buyback.added = 0
        /\ buyback.total = 0 /\ buyback.last = 0 /\ buyback.config = FirstConfig
    BY DEF BuybackInit
  <1>2. buyback.history \in Seq(Bought)
    BY <1>1
  <1>3. ReserveBalances
    <2>1. /\ SumFunction(Spent(buyback.history)) = 0
          /\ SumFunction(Received(buyback.history)) = 0
      BY <1>1, <1>2, BuybackSums
    <2>2. \A i \in DOMAIN buyback.history : FALSE
      BY <1>1
    <2>3. QED
      BY <1>1, <2>1, <2>2, ReserveBalancesIs
  <1>4. BuybackTypeOK
    BY <1>1, BuybackAssumption, LedgerAssumption DEF BuybackTypeOK, Clock
  <1>5. QED
    BY <1>3, <1>4 DEF BuybackBooks

\* A buyback that leaves what the configuration wants left.
LEMMA BuybackBooked ==
    ASSUME BuybackInv, BuybackBooks, sequence \in Clock, NEW x \in Int,
           NEW reason \in {"price_thr", "manual"}, execute_buyback_via_dex(x, reason),
           buyback.reserve - x >= buyback.config.min
    PROVE  BuybackBooks'
  <1> DEFINE H == buyback.history
             bst == Least((x * 1000000) \div Price, buyback.config.max)
             e == [ledger |-> sequence, bought |-> bst, spent |-> x, reason |-> reason,
                   left |-> buyback.reserve - x, since |-> sequence - buyback.last,
                   config |-> buyback.config]
  <1>1. /\ H \in Seq(Bought) /\ buyback.config \in Config /\ buyback.last \in Int
        /\ buyback.reserve \in Int /\ buyback.total \in Int /\ sequence \in Int
        /\ buyback.added \in 0 .. MaxAdded
    BY LedgerAssumption DEF BuybackInv, BuybackBooks, BuybackTypeOK, Clock
  <1>2. bst \in Int
    <2>1. (x * 1000000) \div Price \in Int
      BY BuybackAssumption
    <2>2. buyback.config.max \in Int
      BY <1>1 DEF Config
    <2>3. QED
      BY <2>1, <2>2 DEF Least
  <1>3. /\ buyback'.reserve = buyback.reserve - x /\ buyback'.total = buyback.total + bst
        /\ buyback'.last = sequence /\ buyback'.history = Append(H, e)
        /\ buyback'.added = buyback.added /\ buyback'.config = buyback.config
        /\ Len(H) < MaxBuybacks
    BY DEF execute_buyback_via_dex, BuybackInv
  <1> HIDE DEF bst
  <1>4. e \in Bought
    BY <1>1, <1>2 DEF Bought
  <1>5. e.bought = bst /\ e.spent = x /\ e.left = buyback.reserve - x /\ e.config = buyback.config
    OBVIOUS
  <1> HIDE DEF e, H
  <1> DEFINE G == Append(H, e)
  <1>6. /\ Len(G) = Len(H) + 1 /\ Len(H) \in Nat
        /\ \A i \in DOMAIN G : G[i] = e \/ (i \in DOMAIN H /\ G[i] = H[i])
    BY <1>1, <1>4
  <1>7. /\ SumFunction(Spent(G)) = SumFunction(Spent(H)) + x
        /\ SumFunction(Received(G)) = SumFunction(Received(H)) + bst
        /\ SumFunction(Spent(H)) \in Int /\ SumFunction(Received(H)) \in Int
    BY <1>1, <1>4, <1>5, BuybackSums
  <1> HIDE DEF G
  <1>8. /\ buyback.reserve + SumFunction(Spent(H)) = buyback.added
        /\ buyback.total = SumFunction(Received(H))
        /\ \A i \in DOMAIN H : H[i].left >= H[i].config.min
    BY ReserveBalancesIs DEF BuybackBooks, H
  <1>9. /\ buyback.reserve - x + SumFunction(Spent(G)) = buyback.added
        /\ buyback.total + bst = SumFunction(Received(G))
    BY <1>1, <1>2, <1>7, <1>8
  <1>10. \A i \in DOMAIN G : G[i].left >= G[i].config.min
    BY <1>5, <1>6, <1>8
  <1>14. buyback.reserve - x < 0 => \E i \in DOMAIN G : G[i].config.min < 0
    <2>1. buyback.config.min \in Int
      BY <1>1 DEF Config
    <2>2. Len(G) \in DOMAIN G /\ G[Len(G)] = e
      BY <1>1, <1>4 DEF G
    <2>3. SUFFICES ASSUME buyback.reserve - x < 0 PROVE buyback.config.min < 0
      BY <1>5, <2>2
    <2>4. QED
      BY <1>1, <2>1, <2>3
  <1>11. ReserveBalances'
    <2>1. buyback'.history = G
      BY <1>3 DEF G
    <2>2. QED
      BY <1>3, <1>9, <1>10, <1>14, <2>1 DEF ReserveBalances, Spent, Received
  <1>12. BuybackTypeOK'
    <2>1. Len(buyback'.history) <= MaxBuybacks
      BY <1>3, <1>6, BuybackAssumption DEF G
    <2>2. buyback.reserve - x \in Int /\ buyback.total + bst \in Int
      BY <1>1, <1>2
    <2>3. QED
      BY <1>1, <1>3, <2>1, <2>2 DEF BuybackTypeOK, Config
  <1>13. QED
    BY <1>11, <1>12 DEF BuybackBooks

LEMMA BuybackBooksStep ==
    BuybackInv /\ BuybackBooks /\ sequence \in Clock /\ BuybackNext => BuybackBooks'
  <1> SUFFICES ASSUME BuybackInv, BuybackBooks, sequence \in Clock, BuybackNext
               PROVE  BuybackBooks'
    OBVIOUS
  <1>0. /\ buyback.reserve \in Int /\ buyback.added \in 0 .. MaxAdded
        /\ buyback.config \in Config /\ buyback.history \in Seq(Bought)
        /\ MaxAdded \in Nat
    BY BuybackAssumption DEF BuybackInv, BuybackBooks, BuybackTypeOK
  <1>1. ASSUME NEW c \in Configs, update_config(c) PROVE BuybackBooks'
    <2>1. c \in Config
      BY BuybackAssumption DEF Config
    <2>2. QED
      BY <1>1, <2>1 DEF update_config, BuybackInv, BuybackBooks, BuybackTypeOK, ReserveBalances,
                        Config
  <1>2. ASSUME NEW x \in Deposits, add_to_reserve(x) PROVE BuybackBooks'
    <2>1. x \in Nat
      BY BuybackAssumption
    <2>2. /\ buyback'.reserve = buyback.reserve + x /\ buyback'.added = buyback.added + x
          /\ buyback'.last = buyback.last /\ buyback'.history = buyback.history
          /\ buyback'.total = buyback.total /\ buyback'.config = buyback.config
          /\ buyback.added + x <= MaxAdded
      BY <1>2 DEF add_to_reserve, BuybackInv
    <2>3. buyback.reserve + x \in Int /\ buyback.added + x \in 0 .. MaxAdded
      BY <1>0, <2>1, <2>2
    <2>4. BuybackTypeOK'
      BY <2>2, <2>3 DEF BuybackBooks, BuybackTypeOK
    <2>5. ReserveBalances'
      <3>1. SumFunction(Spent(buyback.history)) \in Int
        BY <1>0, BuybackSums
      <3>2. buyback.reserve + SumFunction(Spent(buyback.history)) = buyback.added
        BY ReserveBalancesIs DEF BuybackBooks
      <3>3. buyback.reserve + x + SumFunction(Spent(buyback.history)) = buyback.added + x
        BY <1>0, <2>1, <3>1, <3>2
      <3>4. buyback.reserve + x < 0 => buyback.reserve < 0
        BY <1>0, <2>1
      <3>5. QED
        BY <2>2, <3>3, <3>4 DEF BuybackBooks, ReserveBalances, Spent
    <2>6. QED
      BY <2>4, <2>5 DEF BuybackBooks
  <1>3. ASSUME check_and_execute_buyback PROVE BuybackBooks'
    <2> DEFINE x == Least(buyback.reserve - buyback.config.min, buyback.config.max)
    <2>1. execute_buyback_via_dex(x, "price_thr")
      BY <1>3 DEF check_and_execute_buyback
    <2>2. x \in Int /\ buyback.reserve - x >= buyback.config.min
      BY <1>0 DEF Least, Config
    <2> HIDE DEF x
    <2>3. QED
      BY <2>1, <2>2, BuybackBooked
  <1>4. ASSUME NEW x \in Orders, manual_buyback(x) PROVE BuybackBooks'
    <2>1. /\ x \in Int /\ execute_buyback_via_dex(x, "manual")
          /\ buyback.reserve >= x + buyback.config.min
      BY <1>4, BuybackAssumption DEF manual_buyback
    <2>2. buyback.reserve - x >= buyback.config.min
      BY <1>0, <2>1 DEF Config
    <2>3. QED
      BY <2>1, <2>2, BuybackBooked
  <1>5. QED
    BY <1>1, <1>2, <1>3, <1>4 DEF BuybackNext

----------------------------------------------------------------------------
(* upgrades *)

PlanRecord == [hash : Hashes, at : Nat, after : Nat, until : Nat \cup {None}]

\* What is pending is the last plan, not yet ended, under a timelock of its own.
UpgradeInv ==
  /\ upgrade \in [paused : BOOLEAN, pauseTime : Nat, autoUnpause : Nat,
                  pending : [hash : Hashes, at : Nat, after : Nat] \cup {None},
                  history : Seq([hash : Hashes, at : Nat]), plans : Seq(PlanRecord)]
  /\ upgrade.pending # None =>
       LET p == upgrade.plans[Len(upgrade.plans)]
       IN  /\ Len(upgrade.plans) >= 1 /\ p.until = None /\ p.at < p.after
           /\ upgrade.pending = [hash |-> p.hash, at |-> p.at, after |-> p.after]
  /\ UpgradesWaited

LEMMA UpgradeInitInv == SharedInit => UpgradeInv
  <1> SUFFICES ASSUME SharedInit PROVE UpgradeInv
    OBVIOUS
  <1>1. /\ upgrade.history = <<>> /\ upgrade.plans = <<>> /\ upgrade.pending = None
        /\ upgrade \in [paused : BOOLEAN, pauseTime : Nat, autoUnpause : Nat,
                        pending : [hash : Hashes, at : Nat, after : Nat] \cup {None},
                        history : Seq([hash : Hashes, at : Nat]), plans : Seq(PlanRecord)]
    BY DEF SharedInit
  <1>2. UpgradesWaited
    <2> DEFINE plan == [i \in {} |-> 1]
    <2>1. DOMAIN upgrade.history = {} /\ DOMAIN upgrade.plans = {}
      BY <1>1
    <2>2. plan \in [DOMAIN upgrade.history -> DOMAIN upgrade.plans]
      BY <2>1
    <2>3. QED
      BY <2>1, <2>2 DEF UpgradesWaited
  <1>3. QED
    BY <1>1, <1>2 DEF UpgradeInv

\* plan names, in order, a plan that was fulfilled for each upgrade executed.
Waited(H, P, plan) ==
  /\ plan \in [DOMAIN H -> DOMAIN P]
  /\ \A i \in DOMAIN H :
       /\ P[plan[i]].hash = H[i].hash /\ P[plan[i]].until = H[i].at
       /\ P[plan[i]].at < P[plan[i]].after /\ P[plan[i]].after <= H[i].at
       /\ \A j \in DOMAIN H : i < j => plan[i] < plan[j]

LEMMA WaitedByPlan == UpgradesWaited <=> \E plan : Waited(upgrade.history, upgrade.plans, plan)
  BY DEF UpgradesWaited, Waited

\* Ending the last plan changes nothing else.
LEMMA EndedPlan ==
    ASSUME NEW P \in Seq(PlanRecord), Len(P) >= 1, P[Len(P)].until = None, NEW at \in Nat
    PROVE  /\ Ended(P, at) \in Seq(PlanRecord) /\ Len(Ended(P, at)) = Len(P)
           /\ \A j \in 1 .. Len(P) :
                Ended(P, at)[j] = IF j = Len(P) THEN [P[j] EXCEPT !.until = at] ELSE P[j]
  <1> DEFINE n == Len(P)
             e == [P[n] EXCEPT !.until = at]
  <1>1. n \in 1 .. Len(P) /\ P[n] \in PlanRecord
    BY ElementOfSeq
  <1>2. e \in PlanRecord
    BY <1>1 DEF PlanRecord
  <1>3. Ended(P, at) = [P EXCEPT ![n] = e]
    BY <1>1 DEF Ended
  <1> HIDE DEF e
  <1>4. /\ [P EXCEPT ![n] = e] \in Seq(PlanRecord)
        /\ Len([P EXCEPT ![n] = e]) = Len(P)
        /\ \A j \in 1 .. Len(P) : [P EXCEPT ![n] = e][j] = IF j = n THEN e ELSE P[j]
    BY <1>1, <1>2, ExceptSeq
  <1>5. QED
    BY <1>3, <1>4 DEF e

\* A plan that is over stays what it was, so it still covers its upgrade.
LEMMA StillWaited ==
    ASSUME NEW H \in Seq([hash : Hashes, at : Nat]), NEW P \in Seq(PlanRecord),
           NEW Q \in Seq(PlanRecord), NEW plan, Waited(H, P, plan),
           Len(P) <= Len(Q),
           \A j \in 1 .. Len(P) : P[j].until # None => Q[j] = P[j]
    PROVE  Waited(H, Q, plan)
  <1>1. DOMAIN P = 1 .. Len(P) /\ DOMAIN Q = 1 .. Len(Q)
        /\ Len(P) \in Nat /\ Len(Q) \in Nat /\ DOMAIN H = 1 .. Len(H)
    OBVIOUS
  <1>2. ASSUME NEW i \in DOMAIN H PROVE Q[plan[i]] = P[plan[i]]
    <2>1. plan[i] \in 1 .. Len(P) /\ P[plan[i]].until = H[i].at
      BY <1>1, <1>2 DEF Waited
    <2>2. H[i].at \in Nat
      <3>1. H[i] \in [hash : Hashes, at : Nat]
        BY <1>1, <1>2, ElementOfSeq
      <3>2. QED
        BY <3>1
    <2>3. QED
      BY <2>1, <2>2, LedgerAssumption
  <1>3. plan \in [DOMAIN H -> DOMAIN Q]
    BY <1>1 DEF Waited
  <1>4. QED
    BY <1>2, <1>3 DEF Waited

LEMMA ScheduleStep ==
    ASSUME UpgradeInv, sequence \in Nat, NEW h \in Hashes, NEW t \in 0 .. MaxTimelock,
           schedule_upgrade(h, t)
    PROVE  UpgradeInv'
  <1> DEFINE H == upgrade.history
             P == upgrade.plans
             Q == IF upgrade.pending = None THEN P ELSE Ended(P, sequence)
             p == [hash |-> h, at |-> sequence, after |-> sequence + t, until |-> None]
             r == [hash |-> h, at |-> sequence, after |-> sequence + t]
  <1>1. /\ H \in Seq([hash : Hashes, at : Nat]) /\ P \in Seq(PlanRecord)
        /\ \E plan : Waited(H, P, plan)
        /\ upgrade.pending # None => Len(P) >= 1 /\ P[Len(P)].until = None
    BY WaitedByPlan DEF UpgradeInv
  <1>2. t \in Nat /\ t > 0 /\ sequence + t \in Nat
    BY SharedAssumption DEF schedule_upgrade
  <1>3. p \in PlanRecord /\ r \in [hash : Hashes, at : Nat, after : Nat]
    BY <1>2 DEF PlanRecord
  <1>4. upgrade' = [upgrade EXCEPT !.pending = r, !.plans = Append(Q, p)]
    BY DEF schedule_upgrade
  <1>5. /\ Q \in Seq(PlanRecord) /\ Len(Q) = Len(P)
        /\ \A j \in 1 .. Len(P) : P[j].until # None => Q[j] = P[j]
    <2>1. CASE upgrade.pending = None
      BY <1>1, <2>1
    <2>2. CASE upgrade.pending # None
      <3>1. /\ Ended(P, sequence) \in Seq(PlanRecord) /\ Len(Ended(P, sequence)) = Len(P)
            /\ \A j \in 1 .. Len(P) : Ended(P, sequence)[j]
                 = IF j = Len(P) THEN [P[j] EXCEPT !.until = sequence] ELSE P[j]
        BY <1>1, <2>2, EndedPlan
      <3>2. QED
        BY <1>1, <2>2, <3>1
    <2>3. QED
      BY <2>1, <2>2
  <1>6. p.hash = r.hash /\ p.at = r.at /\ p.after = r.after /\ p.until = None /\ p.at < p.after
        /\ r = [hash |-> p.hash, at |-> p.at, after |-> p.after]
    BY <1>2
  <1> HIDE DEF Q, p, r
  <1> DEFINE R == Append(Q, p)
  <1>7. /\ R \in Seq(PlanRecord) /\ Len(R) = Len(P) + 1 /\ R[Len(R)] = p
        /\ \A j \in 1 .. Len(P) : P[j].until # None => R[j] = P[j]
    BY <1>1, <1>3, <1>5
  <1> HIDE DEF R
  <1>8. /\ upgrade'.pending = r /\ upgrade'.plans = R /\ upgrade'.history = H
        /\ upgrade' \in [paused : BOOLEAN, pauseTime : Nat, autoUnpause : Nat,
                  pending : [hash : Hashes, at : Nat, after : Nat] \cup {None},
                  history : Seq([hash : Hashes, at : Nat]), plans : Seq(PlanRecord)]
    BY <1>3, <1>4, <1>7 DEF UpgradeInv, R
  <1>9. \E plan : Waited(H, R, plan)
    <2>1. Len(P) <= Len(R)
      BY <1>1, <1>7
    <2>2. QED
      BY <1>1, <1>7, <2>1, StillWaited
  <1>10. UpgradesWaited'
    BY <1>8, <1>9 DEF UpgradesWaited, Waited
  <1>11. Len(R) >= 1
    BY <1>1, <1>7
  <1>12. QED
    BY <1>6, <1>7, <1>8, <1>10, <1>11 DEF UpgradeInv

\* The end of the pending upgrade, executed or not, ends the last plan.
LEMMA PlanEnds ==
    ASSUME UpgradeInv, sequence \in Nat, upgrade.pending # None
    PROVE  LET H == upgrade.history
               P == upgrade.plans
               Q == Ended(P, sequence)
               n == Len(P)
           IN  /\ H \in Seq([hash : Hashes, at : Nat]) /\ P \in Seq(PlanRecord)
               /\ Q \in Seq(PlanRecord) /\ Len(Q) = n /\ n >= 1
               /\ \A plan : Waited(H, P, plan) => Waited(H, Q, plan)
               /\ \E plan : Waited(H, P, plan)
               /\ P[n].until = None /\ Q[n].until = sequence /\ Q[n].at < Q[n].after
               /\ upgrade.pending.hash = Q[n].hash /\ upgrade.pending.after = Q[n].after
               /\ upgrade.pending.hash \in Hashes
  <1> DEFINE H == upgrade.history
             P == upgrade.plans
             Q == Ended(P, sequence)
             n == Len(P)
  <1>1. /\ H \in Seq([hash : Hashes, at : Nat]) /\ P \in Seq(PlanRecord)
        /\ \E plan : Waited(H, P, plan)
        /\ n >= 1 /\ P[n].until = None /\ P[n].at < P[n].after
        /\ upgrade.pending = [hash |-> P[n].hash, at |-> P[n].at, after |-> P[n].after]
    BY WaitedByPlan DEF UpgradeInv
  <1>2. /\ Q \in Seq(PlanRecord) /\ Len(Q) = n
        /\ \A j \in 1 .. n : Q[j] = IF j = n THEN [P[j] EXCEPT !.until = sequence] ELSE P[j]
    BY <1>1, EndedPlan
  <1>3. n \in 1 .. Len(P) /\ P[n] \in PlanRecord
    BY <1>1, ElementOfSeq
  <1>4. Q[n] = [P[n] EXCEPT !.until = sequence]
    BY <1>2, <1>3
  <1>5. Q[n].until = sequence /\ Q[n].at = P[n].at /\ Q[n].after = P[n].after
        /\ Q[n].hash = P[n].hash /\ P[n].hash \in Hashes
    BY <1>3, <1>4 DEF PlanRecord
  <1>6. \A j \in 1 .. n : P[j].until # None => Q[j] = P[j]
    BY <1>1, <1>2
  <1> HIDE DEF Q, n
  <1>7. ASSUME NEW plan, Waited(H, P, plan) PROVE Waited(H, Q, plan)
    <2>1. Len(P) <= Len(Q)
      BY <1>1, <1>2 DEF n
    <2>2. QED
      BY <1>1, <1>2, <1>6, <1>7, <2>1, StillWaited DEF n
  <1>8. QED
    BY <1>1, <1>2, <1>5, <1>7 DEF Q, n

LEMMA ExecuteStep ==
    ASSUME UpgradeInv, sequence \in Nat, execute_upgrade
    PROVE  UpgradeInv'
  <1> DEFINE H == upgrade.history
             P == upgrade.plans
             Q == Ended(P, sequence)
             n == Len(P)
             h == [hash |-> upgrade.pending.hash, at |-> sequence]
             G == Append(H, h)
  <1>1. /\ upgrade.pending # None /\ sequence >= upgrade.pending.after
        /\ upgrade' = [upgrade EXCEPT !.history = G, !.pending = None, !.plans = Q]
    BY DEF execute_upgrade
  <1>2. /\ H \in Seq([hash : Hashes, at : Nat]) /\ P \in Seq(PlanRecord)
        /\ Q \in Seq(PlanRecord) /\ Len(Q) = n /\ n >= 1
        /\ P[n].until = None /\ Q[n].until = sequence /\ Q[n].at < Q[n].after
        /\ upgrade.pending.hash = Q[n].hash /\ upgrade.pending.after = Q[n].after
        /\ upgrade.pending.hash \in Hashes
    BY <1>1, PlanEnds
  <1>3. PICK plan : Waited(H, P, plan) /\ Waited(H, Q, plan)
    BY <1>1, PlanEnds
  <1>4. h \in [hash : Hashes, at : Nat] /\ h.hash = Q[n].hash /\ h.at = sequence
    BY <1>2
  <1> HIDE DEF Q, h
  <1>5. /\ G \in Seq([hash : Hashes, at : Nat]) /\ Len(G) = Len(H) + 1 /\ Len(H) \in Nat
        /\ DOMAIN G = 1 .. Len(H) + 1 /\ DOMAIN H = 1 .. Len(H)
        /\ G[Len(H) + 1] = h /\ \A i \in 1 .. Len(H) : G[i] = H[i]
    BY <1>2, <1>4
  <1> HIDE DEF G
  <1> DEFINE next == [i \in 1 .. Len(H) + 1 |-> IF i = Len(H) + 1 THEN n ELSE plan[i]]
  <1>6. n \in Nat /\ DOMAIN P = 1 .. n /\ DOMAIN Q = 1 .. n
    BY <1>2
  <1>7. ASSUME NEW i \in 1 .. Len(H) PROVE plan[i] \in 1 .. n - 1
    <2>1. plan[i] \in 1 .. n /\ P[plan[i]].until = H[i].at
      BY <1>3, <1>5, <1>6 DEF Waited
    <2>2. H[i].at \in Nat
      <3>1. H[i] \in [hash : Hashes, at : Nat]
        BY <1>2, ElementOfSeq
      <3>2. QED
        BY <3>1
    <2>3. plan[i] # n
      BY <1>2, <2>1, <2>2, LedgerAssumption
    <2>4. QED
      BY <1>6, <2>1, <2>3
  <1>8. \A i \in 1 .. Len(H) + 1 : next[i] \in 1 .. n
    BY <1>2, <1>6, <1>7
  <1>9. next \in [DOMAIN G -> DOMAIN Q]
    BY <1>5, <1>6, <1>8
  <1>10. ASSUME NEW i \in DOMAIN G
         PROVE  /\ Q[next[i]].hash = G[i].hash /\ Q[next[i]].until = G[i].at
                /\ Q[next[i]].at < Q[next[i]].after /\ Q[next[i]].after <= G[i].at
                /\ \A j \in DOMAIN G : i < j => next[i] < next[j]
    <2>1. CASE i = Len(H) + 1
      <3>1. next[i] = n /\ G[i] = h
        BY <1>5, <2>1
      <3>2. \A j \in DOMAIN G : ~(i < j)
        BY <1>5, <2>1
      <3>3. QED
        BY <1>1, <1>2, <1>4, <3>1, <3>2
    <2>2. CASE i \in 1 .. Len(H)
      <3>1. next[i] = plan[i] /\ G[i] = H[i] /\ i \in DOMAIN H
        BY <1>5, <2>2
      <3>2. /\ Q[plan[i]].hash = H[i].hash /\ Q[plan[i]].until = H[i].at
            /\ Q[plan[i]].at < Q[plan[i]].after /\ Q[plan[i]].after <= H[i].at
        BY <1>3, <3>1 DEF Waited
      <3>3. ASSUME NEW j \in DOMAIN G, i < j PROVE next[i] < next[j]
        <4>1. CASE j = Len(H) + 1
          BY <1>5, <1>6, <1>7, <2>2, <3>1, <4>1
        <4>2. CASE j \in 1 .. Len(H)
          <5>1. next[j] = plan[j] /\ j \in DOMAIN H
            BY <1>5, <4>2
          <5>2. plan[i] < plan[j]
            BY <1>3, <3>1, <3>3, <5>1 DEF Waited
          <5>3. QED
            BY <3>1, <5>1, <5>2
        <4>3. j = Len(H) + 1 \/ j \in 1 .. Len(H)
          <5> HIDE DEF H
          <5>1. QED
            BY <1>5, <3>3
        <4>4. QED
          BY <4>1, <4>2, <4>3
      <3>4. QED
        BY <3>1, <3>2, <3>3
    <2>3. i = Len(H) + 1 \/ i \in 1 .. Len(H)
      <3> HIDE DEF H
      <3>1. QED
        BY <1>5, <1>10
    <2>4. QED
      BY <2>1, <2>2, <2>3
  <1>11. Waited(G, Q, next)
    BY <1>9, <1>10 DEF Waited
  <1>12. /\ upgrade'.pending = None /\ upgrade'.plans = Q /\ upgrade'.history = G
         /\ upgrade' \in [paused : BOOLEAN, pauseTime : Nat, autoUnpause : Nat,
                  pending : [hash : Hashes, at : Nat, after : Nat] \cup {None},
                  history : Seq([hash : Hashes, at : Nat]), plans : Seq(PlanRecord)]
    BY <1>1, <1>2, <1>5 DEF UpgradeInv
  <1> HIDE DEF next
  <1>13. UpgradesWaited'
    BY <1>11, <1>12 DEF UpgradesWaited, Waited
  <1>14. QED
    BY <1>12, <1>13 DEF UpgradeInv

LEMMA UpgradeStep == UpgradeInv /\ sequence \in Nat /\ UpgradeNext => UpgradeInv'
  <1> SUFFICES ASSUME UpgradeInv, sequence \in Nat, UpgradeNext PROVE UpgradeInv'
    OBVIOUS
  <1>1. ASSUME NEW k \in 0 .. MaxPause, pause_contract(k) PROVE UpgradeInv'
    <2>1. sequence + k \in Nat
      BY SharedAssumption
    <2>2. /\ upgrade' \in [paused : BOOLEAN, pauseTime : Nat, autoUnpause : Nat,
                  pending : [hash : Hashes, at : Nat, after : Nat] \cup {None},
                  history : Seq([hash : Hashes, at : Nat]), plans : Seq(PlanRecord)]
          /\ upgrade'.pending = upgrade.pending /\ upgrade'.plans = upgrade.plans
          /\ upgrade'.history = upgrade.history
      BY <1>1, <2>1 DEF pause_contract, UpgradeInv
    <2>3. QED
      BY <2>2 DEF UpgradeInv, UpgradesWaited
  <1>2. ASSUME unpause_contract PROVE UpgradeInv'
    BY <1>2 DEF unpause_contract, UpgradeInv, UpgradesWaited
  <1>3. ASSUME cancel_upgrade PROVE UpgradeInv'
    <2> DEFINE Q == Ended(upgrade.plans, sequence)
    <2>1. upgrade.pending # None /\ upgrade' = [upgrade EXCEPT !.pending = None, !.plans = Q]
      BY <1>3 DEF cancel_upgrade
    <2>2. Q \in Seq(PlanRecord) /\ \E plan : Waited(upgrade.history, Q, plan)
      BY <2>1, PlanEnds
    <2> HIDE DEF Q
    <2>3. /\ upgrade'.pending = None /\ upgrade'.plans = Q
          /\ upgrade'.history = upgrade.history
          /\ upgrade' \in [paused : BOOLEAN, pauseTime : Nat, autoUnpause : Nat,
                  pending : [hash : Hashes, at : Nat, after : Nat] \cup {None},
                  history : Seq([hash : Hashes, at : Nat]), plans : Seq(PlanRecord)]
      BY <2>1, <2>2 DEF UpgradeInv
    <2>4. UpgradesWaited'
      BY <2>2, <2>3 DEF UpgradesWaited, Waited
    <2>5. QED
      BY <2>3, <2>4 DEF UpgradeInv
  <1>4. QED
    BY <1>1, <1>2, <1>3, ScheduleStep, ExecuteStep DEF UpgradeNext

LEMMA UpgradeInvImplies == UpgradeInv => UpgradesWaited /\ PendingIsLastPlan
  BY DEF UpgradeInv, PendingIsLastPlan

----------------------------------------------------------------------------
(* reputation *)

ReputationRecord == [score : Nat, level : {1, 2}, last : Clock, stored : BOOLEAN]

ReputationStore ==
  [callers : SUBSET Accounts, decay : Decays, total : Int, rep : [Accounts -> ReputationRecord],
   history : [Accounts -> Seq(Int)], board : [Accounts -> Nat]]

ReputationInv ==
  /\ reputation \in ReputationStore
  /\ \A u \in Accounts : Len(reputation.history[u]) <= MaxUpdates
  /\ HistoryAddsUp

\* What the histories of all users add up to.
Totals(H) == [u \in Accounts |-> SumFunction(H[u])]

LEMMA TotalsType ==
    ASSUME NEW H \in [Accounts -> Seq(Int)]
    PROVE  Totals(H) \in [Accounts -> Int] /\ SumFunction(Totals(H)) \in Int
  <1>1. \A u \in Accounts : SumFunction(H[u]) \in Int
    BY SumOfSeq
  <1>2. Totals(H) \in [Accounts -> Int]
    BY <1>1 DEF Totals
  <1>3. QED
    BY <1>2, LedgerAssumption, SumFunctionType

\* One user's history is an entry longer.
LEMMA HistoryGrows ==
    ASSUME NEW H \in [Accounts -> Seq(Int)], NEW u \in Accounts, NEW e \in Int
    PROVE  /\ [H EXCEPT ![u] = Append(H[u], e)] \in [Accounts -> Seq(Int)]
           /\ SumFunction(Totals([H EXCEPT ![u] = Append(H[u], e)]))
                = SumFunction(Totals(H)) + e
  <1> DEFINE h == Append(H[u], e)
             G == [H EXCEPT ![u] = h]
             v == SumFunction(h)
  <1>1. h \in Seq(Int) /\ v = SumFunction(H[u]) + e /\ SumFunction(H[u]) \in Int
    BY SumOfAppend, SumOfSeq
  <1> HIDE DEF h
  <1>2. G \in [Accounts -> Seq(Int)] /\ \A w \in Accounts : G[w] = IF w = u THEN h ELSE H[w]
    BY <1>1
  <1>3. Totals(H) \in [Accounts -> Int] /\ SumFunction(Totals(H)) \in Int
    BY TotalsType
  <1> HIDE DEF G
  <1>4. Totals(G) = [Totals(H) EXCEPT ![u] = v]
    <2>1. \A w \in Accounts : Totals(G)[w] = IF w = u THEN v ELSE Totals(H)[w]
      BY <1>2 DEF Totals
    <2>2. Totals(G) = [w \in Accounts |-> Totals(G)[w]]
      BY DEF Totals
    <2>3. QED
      BY <1>3, <2>1, <2>2
  <1>5. v \in Int /\ Totals(H)[u] = SumFunction(H[u])
    BY <1>1 DEF Totals
  <1> HIDE DEF v
  <1> DEFINE T == Totals(H)
  <1>6. SumFunction([T EXCEPT ![u] = v]) = SumFunction(T) + v - T[u]
    <2>1. T \in [Accounts -> Int] /\ IsFiniteSet(Accounts) /\ v \in Int
      BY <1>3, <1>5, LedgerAssumption
    <2> HIDE DEF T
    <2>2. QED
      BY <2>1, SumExcept
  <1>7. SumFunction(Totals(H)) + v - Totals(H)[u] = SumFunction(Totals(H)) + e
    BY <1>1, <1>3, <1>5
  <1>8. QED
    BY <1>2, <1>4, <1>6, <1>7 DEF G, h

LEMMA HistoryAddsUpIs ==
    HistoryAddsUp <=>
      /\ reputation.total = SumFunction(Totals(reputation.history))
      /\ \A u \in Accounts :
           reputation.board[u] <= IF reputation.history[u] = <<>> THEN 0 ELSE 1
  BY DEF HistoryAddsUp, Totals

LEMMA ReputationInitInv == ReputationInit => ReputationInv
  <1> SUFFICES ASSUME ReputationInit PROVE ReputationInv
    OBVIOUS
  <1> USE ReputationAssumption, LedgerAssumption
  <1>1. reputation.history = [u \in Accounts |-> <<>>] /\ reputation.total = 0
    BY DEF ReputationInit
  <1>2. NoRecord \in ReputationRecord
    BY DEF NoRecord, ReputationRecord, Clock
  <1>3. reputation.history \in [Accounts -> Seq(Int)]
    BY <1>1
  <1>4. reputation \in ReputationStore
    BY <1>2, <1>3 DEF ReputationInit, ReputationStore
  <1>5. Totals(reputation.history) = [u \in Accounts |-> SumFunction(<<>>)]
    BY <1>1 DEF Totals
  <1>6. SumFunction(<<>>) = 0
    <2>1. <<>> \in Seq(Int)
      OBVIOUS
    <2>2. QED
      BY <2>1, SumOfSeq
  <1>7. SumFunction(Totals(reputation.history)) = 0
    <2>1. SumFunction(Totals(reputation.history))
            = SumFunctionOnSet(Totals(reputation.history), Accounts)
      BY <1>5, SumOverDomain
    <2>2. \A u \in Accounts : Totals(reputation.history)[u] = 0
      BY <1>5, <1>6
    <2>3. QED
      BY <2>1, <2>2, SumZeros
  <1>8. \A u \in Accounts : Len(reputation.history[u]) <= MaxUpdates
    BY <1>1
  <1>9. \A u \in Accounts : reputation.board[u] = 0
    BY DEF ReputationInit
  <1>10. HistoryAddsUp
    BY <1>1, <1>7, <1>9, HistoryAddsUpIs
  <1>11. QED
    BY <1>4, <1>8, <1>10 DEF ReputationInv

\* The records a call writes are records.
LEMMA RecordTypes ==
    ASSUME reputation \in ReputationStore, sequence \in Clock, NEW u \in Accounts
    PROVE  /\ Record(u) \in ReputationRecord
           /\ \A r \in ReputationRecord : apply_decay_internal(r) \in ReputationRecord
           /\ \A n \in Int : NotNegative(n) \in Nat
           /\ \A n : calculate_level(n) \in {1, 2}
  <1> USE ReputationAssumption
  <1>1. \A n \in Int : NotNegative(n) \in Nat
    BY DEF NotNegative
  <1>2. Record(u) \in ReputationRecord
    <2>1. reputation.rep[u] \in ReputationRecord
      BY DEF ReputationStore
    <2>2. NoRecord \in ReputationRecord
      BY LedgerAssumption DEF NoRecord, ReputationRecord, Clock
    <2>3. [NoRecord EXCEPT !.last = sequence, !.stored = TRUE] \in ReputationRecord
      BY <2>2 DEF ReputationRecord
    <2>4. QED
      BY <2>1, <2>3 DEF Record
  <1>3. ASSUME NEW r \in ReputationRecord
        PROVE  apply_decay_internal(r) \in ReputationRecord
    <2> DEFINE d == reputation.decay
               elapsed == sequence - r.last
               score == NotNegative(r.score + d.rate * (elapsed \div d.interval))
    <2>1. d \in [enabled : BOOLEAN, rate : Int, interval : Nat \ {0}]
      BY DEF ReputationStore
    <2>2. /\ d.rate \in Int /\ d.interval \in Nat \ {0} /\ elapsed \in Int /\ r.score \in Int
      BY <2>1, LedgerAssumption DEF ReputationRecord, Clock
    <2> HIDE DEF d, elapsed
    <2>3. elapsed \div d.interval \in Int
      BY <2>2
    <2>4. d.rate * (elapsed \div d.interval) \in Int
      BY <2>2, <2>3
    <2>5. r.score + d.rate * (elapsed \div d.interval) \in Int
      BY <2>2, <2>4
    <2>6. score \in Nat
      BY <1>1, <2>5
    <2>7. \/ apply_decay_internal(r) = r
          \/ apply_decay_internal(r) = [r EXCEPT !.score = score, !.last = sequence]
      BY DEF apply_decay_internal, d, elapsed
    <2> HIDE DEF score
    <2>8. QED
      BY <2>6, <2>7 DEF ReputationRecord
  <1>4. \A n : calculate_level(n) \in {1, 2}
    BY DEF calculate_level
  <1>5. QED
    BY <1>1, <1>2, <1>3, <1>4

\* A user's record and history are written, and the total counts the change.
LEMMA ReputationWritten ==
    ASSUME ReputationInv, NEW u \in Accounts, NEW r \in ReputationRecord, NEW e \in Int,
           NEW board \in [Accounts -> Nat],
           Len(reputation.history[u]) < MaxUpdates,
           board = reputation.board
             \/ board = [reputation.board EXCEPT ![u] = IF @ = 0 THEN 1 ELSE @],
           reputation' = [reputation EXCEPT
             !.rep = [reputation.rep EXCEPT ![u] = r],
             !.history = [reputation.history EXCEPT ![u] = Append(reputation.history[u], e)],
             !.total = reputation.total + e, !.board = board]
    PROVE  ReputationInv'
  <1> DEFINE H == reputation.history
             G == [H EXCEPT ![u] = Append(H[u], e)]
             rep == [reputation.rep EXCEPT ![u] = r]
  <1>1. /\ reputation \in ReputationStore /\ H \in [Accounts -> Seq(Int)]
        /\ reputation.total \in Int /\ rep \in [Accounts -> ReputationRecord]
        /\ reputation.board \in [Accounts -> Nat]
    BY DEF ReputationInv, ReputationStore
  <1>2. /\ G \in [Accounts -> Seq(Int)]
        /\ SumFunction(Totals(G)) = SumFunction(Totals(H)) + e
    BY <1>1, HistoryGrows
  <1>3. /\ \A w \in Accounts : w # u => G[w] = H[w]
        /\ G[u] = Append(H[u], e) /\ G[u] # <<>> /\ Len(G[u]) = Len(H[u]) + 1
        /\ Len(H[u]) \in Nat
    BY <1>1
  <1> HIDE DEF G, rep
  <1>4. /\ reputation'.history = G /\ reputation'.total = reputation.total + e
        /\ reputation'.board = board /\ reputation' \in ReputationStore
    <2>1. reputation.total + e \in Int
      BY <1>1
    <2>2. reputation' = [reputation EXCEPT !.rep = rep, !.history = G,
                                           !.total = reputation.total + e, !.board = board]
      BY DEF G, rep
    <2>3. QED
      BY <1>1, <1>2, <2>1, <2>2 DEF ReputationStore
  <1>5. /\ reputation.total = SumFunction(Totals(H))
        /\ \A w \in Accounts : reputation.board[w] <= IF H[w] = <<>> THEN 0 ELSE 1
    BY HistoryAddsUpIs DEF ReputationInv
  <1>6. \A w \in Accounts : board[w] <= IF G[w] = <<>> THEN 0 ELSE 1
    <2>1. ASSUME NEW w \in Accounts, w # u
          PROVE  board[w] <= IF G[w] = <<>> THEN 0 ELSE 1
      <3>1. board[w] = reputation.board[w]
        BY <1>1, <2>1
      <3>2. QED
        BY <1>3, <1>5, <2>1, <3>1
    <2>2. board[u] <= 1
      <3>1. reputation.board[u] \in Nat /\ reputation.board[u] <= 1
        BY <1>1, <1>5
      <3>2. board[u] = reputation.board[u] \/ board[u] = 1
        BY <1>1, <3>1
      <3>3. QED
        BY <3>1, <3>2
    <2>3. QED
      BY <1>3, <2>1, <2>2
  <1>7. \A w \in Accounts : Len(G[w]) <= MaxUpdates
    BY <1>3, ReputationAssumption, SMTT(30) DEF ReputationInv
  <1>8. HistoryAddsUp'
    <2>1. reputation'.total = SumFunction(Totals(reputation'.history))
      BY <1>2, <1>4, <1>5
    <2>2. \A w \in Accounts : reputation'.board[w] <= IF reputation'.history[w] = <<>> THEN 0 ELSE 1
      BY <1>4, <1>6
    <2>3. QED
      BY <2>1, <2>2 DEF HistoryAddsUp, Totals
  <1>9. QED
    BY <1>4, <1>7, <1>8 DEF ReputationInv

LEMMA ReputationStep ==
    ReputationInv /\ sequence \in Clock /\ ReputationNext => ReputationInv'
  <1> SUFFICES ASSUME ReputationInv, sequence \in Clock, ReputationNext PROVE ReputationInv'
    OBVIOUS
  <1> USE ReputationAssumption
  <1>0. /\ reputation \in ReputationStore /\ reputation.total \in Int
        /\ reputation.history \in [Accounts -> Seq(Int)]
        /\ reputation.rep \in [Accounts -> ReputationRecord]
        /\ reputation.board \in [Accounts -> Nat]
    BY DEF ReputationInv, ReputationStore
  <1>1. ASSUME reputation' \in ReputationStore, reputation'.total = reputation.total,
               reputation'.history = reputation.history, reputation'.board = reputation.board
        PROVE  ReputationInv'
    BY <1>1 DEF ReputationInv, HistoryAddsUp
  <1>2. ASSUME NEW a \in Accounts, add_authorized_caller(a) \/ remove_authorized_caller(a)
        PROVE  ReputationInv'
    <2>1. PICK callers \in SUBSET Accounts : reputation' = [reputation EXCEPT !.callers = callers]
      <3>1. reputation.callers \cup {a} \in SUBSET Accounts
            /\ reputation.callers \ {a} \in SUBSET Accounts
        BY <1>0 DEF ReputationStore
      <3>2. QED
        BY <1>2, <3>1 DEF add_authorized_caller, remove_authorized_caller
    <2>2. QED
      BY <1>0, <1>1, <2>1 DEF ReputationStore
  <1>3. ASSUME NEW d \in Decays, set_decay_config(d)
        PROVE  ReputationInv'
    BY <1>0, <1>1, <1>3 DEF set_decay_config, ReputationStore
  <1>4. ASSUME NEW a \in Accounts, NEW u \in Accounts, apply_decay(a, u)
        PROVE  ReputationInv'
    <2> DEFINE old == reputation.rep[u]
               new == apply_decay_internal(old)
               e == new.score - old.score
               H == [reputation.history EXCEPT ![u] = Append(reputation.history[u], e)]
    <2>1. old \in ReputationRecord /\ new \in ReputationRecord
      BY <1>0, RecordTypes
    <2>2. Len(reputation.history[u]) < MaxUpdates
      BY <1>4 DEF apply_decay
    <2>3. reputation' = [reputation EXCEPT
             !.rep = [reputation.rep EXCEPT ![u] = new],
             !.history = [reputation.history EXCEPT ![u] = Append(reputation.history[u], e)],
             !.total = reputation.total + new.score - old.score]
      BY <1>4 DEF apply_decay
    <2> HIDE DEF new, old
    <2>4. e \in Int /\ reputation.total + new.score - old.score = reputation.total + e
      BY <1>0, <2>1 DEF ReputationRecord
    <2> HIDE DEF e
    <2>5. reputation.board = reputation.board
      OBVIOUS
    <2>6. reputation' = [reputation EXCEPT
             !.rep = [reputation.rep EXCEPT ![u] = new],
             !.history = [reputation.history EXCEPT ![u] = Append(reputation.history[u], e)],
             !.total = reputation.total + e, !.board = reputation.board]
      BY <1>0, <2>3, <2>4 DEF ReputationStore
    <2>7. QED
      BY <1>0, <2>1, <2>2, <2>4, <2>6, ReputationWritten
  <1>5. ASSUME NEW a \in Accounts, NEW u \in Accounts, NEW x \in Changes,
               update_reputation(a, u, x)
        PROVE  ReputationInv'
    <2> DEFINE now == apply_decay_internal(Record(u))
               score == NotNegative(now.score + x)
               r == [score |-> score, level |-> calculate_level(score),
                     last |-> sequence, stored |-> TRUE]
               board == [reputation.board EXCEPT ![u] = IF @ = 0 THEN 1 ELSE @]
    <2>1. now \in ReputationRecord /\ x \in Int
      BY <1>0, RecordTypes
    <2>2. now.score + x \in Int
      BY <2>1 DEF ReputationRecord
    <2>3. Len(reputation.history[u]) < MaxUpdates
      BY <1>5 DEF update_reputation
    <2>4. reputation' = [reputation EXCEPT
             !.rep = [reputation.rep EXCEPT ![u] = r],
             !.history = [reputation.history EXCEPT ![u] = Append(reputation.history[u], x)],
             !.total = reputation.total + x, !.board = board]
      BY <1>5 DEF update_reputation
    <2> HIDE DEF now
    <2>5. score \in Nat /\ calculate_level(score) \in {1, 2}
      BY <1>0, <2>2, RecordTypes
    <2> HIDE DEF score
    <2>6. r \in ReputationRecord
      BY <2>5 DEF ReputationRecord
    <2>7. board \in [Accounts -> Nat]
      BY <1>0
    <2> HIDE DEF r
    <2>8. QED
      BY <2>1, <2>3, <2>4, <2>6, <2>7, ReputationWritten
  <1>6. ASSUME NEW a \in Accounts, NEW u \in Accounts, NEW x \in Penalties, slash(a, u, x)
        PROVE  ReputationInv'
    <2> DEFINE score == NotNegative(Record(u).score - x)
               r == [score |-> score, level |-> calculate_level(score),
                     last |-> sequence, stored |-> TRUE]
    <2>1. Record(u) \in ReputationRecord /\ x \in Int
      BY <1>0, RecordTypes
    <2>2. Record(u).score - x \in Int
      BY <2>1 DEF ReputationRecord
    <2>3. reputation' = [reputation EXCEPT !.rep = [reputation.rep EXCEPT ![u] = r]]
      BY <1>6 DEF slash
    <2>4. score \in Nat /\ calculate_level(score) \in {1, 2}
      BY <1>0, <2>2, RecordTypes
    <2> HIDE DEF score
    <2>5. r \in ReputationRecord
      BY <2>4 DEF ReputationRecord
    <2> HIDE DEF r
    <2>6. QED
      BY <1>0, <1>1, <2>3, <2>5 DEF ReputationStore
  <1>7. QED
    BY <1>2, <1>3, <1>4, <1>5, <1>6 DEF ReputationNext

LEMMA ReputationInvImplies == ReputationInv => ReputationTypeOK /\ HistoryAddsUp
  BY DEF ReputationInv, ReputationTypeOK, ReputationStore, ReputationRecord

----------------------------------------------------------------------------
(* types *)

\* At most one execution for each schedule, the pending one still to come.
UpgradeTypes ==
  /\ upgrade.pauseTime \in Clock
  /\ upgrade.pending \in Plan \cup {None}
  /\ Len(upgrade.plans) <= MaxPlans
  /\ Len(upgrade.history) + (IF upgrade.pending = None THEN 0 ELSE 1) <= Len(upgrade.plans)

AccessTypes ==
  /\ shared \in [role : [Accounts -> Roles \cup {"None"}],
                 authorized : SUBSET (Accounts \X Accounts),
                 calls : Seq(Accounts \X Accounts), locked : BOOLEAN]
  /\ Len(shared.calls) <= MaxCalls

LEMMA SharedTypesInit == SharedInit => UpgradeTypes /\ AccessTypes
  BY SharedAssumption, LedgerAssumption
     DEF SharedInit, UpgradeTypes, AccessTypes, Roles, Clock

LEMMA AccessTypesStep == AccessTypes /\ SharedNext => AccessTypes'
  <1> SUFFICES ASSUME AccessTypes, SharedNext PROVE AccessTypes'
    OBVIOUS
  <1>1. ASSUME NEW a \in Accounts, NEW r \in Roles, assign_role(a, r) PROVE AccessTypes'
    BY <1>1 DEF assign_role, AccessTypes
  <1>2. ASSUME NEW a \in Accounts, NEW b \in Accounts, authorize_caller(a, b)
        PROVE  AccessTypes'
    BY <1>2 DEF authorize_caller, AccessTypes
  <1>3. ASSUME NEW a \in Accounts, NEW b \in Accounts, call_contract(a, b)
        PROVE  AccessTypes'
    <2> DEFINE calls == Append(shared.calls, <<b, a>>)
    <2>1. /\ shared' = [shared EXCEPT !.calls = calls]
          /\ shared.calls \in Seq(Accounts \X Accounts) /\ Len(shared.calls) < MaxCalls
      BY <1>3 DEF call_contract, AccessTypes
    <2>2. calls \in Seq(Accounts \X Accounts) /\ Len(calls) <= MaxCalls
      BY <2>1, SharedAssumption
    <2> HIDE DEF calls
    <2>3. QED
      BY <2>1, <2>2 DEF AccessTypes
  <1>4. ASSUME acquire_reentrancy_lock \/ release_reentrancy_lock PROVE AccessTypes'
    BY <1>4 DEF acquire_reentrancy_lock, release_reentrancy_lock, AccessTypes
  <1>5. QED
    BY <1>1, <1>2, <1>3, <1>4 DEF SharedNext

LEMMA EndedKeepsLength ==
    ASSUME NEW P \in Seq(PlanRecord), NEW at
    PROVE  Len(Ended(P, at)) = Len(P)
  BY DEF Ended

LEMMA UpgradeTypesStep ==
    UpgradeInv /\ UpgradeTypes /\ sequence \in Clock /\ UpgradeNext => UpgradeTypes'
  <1> SUFFICES ASSUME UpgradeInv, UpgradeTypes, sequence \in Clock, UpgradeNext
               PROVE  UpgradeTypes'
    OBVIOUS
  <1> USE SharedAssumption
  <1> DEFINE P == upgrade.plans
             H == upgrade.history
  <1>0. /\ P \in Seq(PlanRecord) /\ Len(P) \in Nat /\ Len(Ended(P, sequence)) = Len(P)
        /\ H \in Seq([hash : Hashes, at : Nat]) /\ Len(H) \in Nat
        /\ DOMAIN upgrade = {"paused", "pauseTime", "autoUnpause", "pending", "history", "plans"}
    BY EndedKeepsLength DEF UpgradeInv
  <1>1. ASSUME NEW n \in 0 .. MaxPause, pause_contract(n) PROVE UpgradeTypes'
    BY <1>0, <1>1 DEF pause_contract, UpgradeTypes
  <1>2. ASSUME unpause_contract PROVE UpgradeTypes'
    BY <1>0, <1>2 DEF unpause_contract, UpgradeTypes
  <1>3. ASSUME NEW h \in Hashes, NEW t \in 0 .. MaxTimelock, schedule_upgrade(h, t)
        PROVE  UpgradeTypes'
    <2> DEFINE plan == [hash |-> h, at |-> sequence, after |-> sequence + t]
               r == [hash |-> h, at |-> sequence, after |-> sequence + t, until |-> None]
               Q == IF upgrade.pending = None THEN P ELSE Ended(P, sequence)
               plans == Append(Q, r)
    <2>1. /\ upgrade' = [upgrade EXCEPT !.pending = plan, !.plans = plans]
          /\ Len(P) < MaxPlans
      BY <1>3 DEF schedule_upgrade
    <2>2. plan \in Plan
      BY LedgerAssumption DEF Plan, Clock
    <2>3. Len(Q) = Len(P) /\ Q \in Seq(PlanRecord)
      <3>1. CASE upgrade.pending # None
        <4>1. Len(P) >= 1 /\ P[Len(P)].until = None /\ sequence \in Nat
          BY <3>1, LedgerAssumption DEF UpgradeInv, Clock
        <4>2. QED
          BY <1>0, <3>1, <4>1, EndedPlan
      <3>2. QED
        BY <1>0, <3>1
    <2> HIDE DEF Q
    <2>4. Len(plans) = Len(P) + 1
      BY <1>0, <2>3
    <2> HIDE DEF plan, plans
    <2>5. /\ upgrade'.pending = plan /\ upgrade'.plans = plans /\ upgrade'.history = H
          /\ upgrade'.pauseTime = upgrade.pauseTime
      BY <1>0, <2>1
    <2>6. Len(H) + 1 <= Len(plans)
      BY <1>0, <2>4 DEF UpgradeTypes
    <2>7. QED
      BY <1>0, <2>1, <2>2, <2>4, <2>5, <2>6 DEF UpgradeTypes
  <1>4. ASSUME execute_upgrade PROVE UpgradeTypes'
    <2> DEFINE plans == Ended(P, sequence)
               history == Append(H, [hash |-> upgrade.pending.hash, at |-> sequence])
    <2>1. /\ upgrade.pending # None
          /\ upgrade' = [upgrade EXCEPT !.history = history, !.pending = None, !.plans = plans]
      BY <1>4 DEF execute_upgrade
    <2>2. Len(history) = Len(H) + 1 /\ Len(plans) = Len(P)
      BY <1>0
    <2> HIDE DEF plans, history
    <2>3. /\ upgrade'.pending = None /\ upgrade'.plans = plans /\ upgrade'.history = history
          /\ upgrade'.pauseTime = upgrade.pauseTime
      BY <1>0, <2>1
    <2>4. QED
      BY <1>0, <2>1, <2>2, <2>3 DEF UpgradeTypes
  <1>5. ASSUME cancel_upgrade PROVE UpgradeTypes'
    <2> DEFINE plans == Ended(P, sequence)
    <2>1. /\ upgrade.pending # None
          /\ upgrade' = [upgrade EXCEPT !.pending = None, !.plans = plans]
      BY <1>5 DEF cancel_upgrade
    <2>2. Len(plans) = Len(P)
      BY <1>0
    <2> HIDE DEF plans
    <2>3. /\ upgrade'.pending = None /\ upgrade'.plans = plans /\ upgrade'.history = H
          /\ upgrade'.pauseTime = upgrade.pauseTime
      BY <1>0, <2>1
    <2>4. QED
      BY <1>0, <2>1, <2>2, <2>3 DEF UpgradeTypes
  <1>6. QED
    BY <1>1, <1>2, <1>3, <1>4, <1>5 DEF UpgradeNext

LEMMA RestrictionsTyped == RestrictionsTypeOK /\ RestrictionsNext => RestrictionsTypeOK'
  <1> SUFFICES ASSUME RestrictionsTypeOK, RestrictionsNext PROVE RestrictionsTypeOK'
    OBVIOUS
  <1> USE TokenRestrictionsAssumption DEF RestrictionsTypeOK
  <1>1. ASSUME NEW a \in Accounts, add_to_whitelist(a) \/ remove_from_whitelist(a)
        PROVE  RestrictionsTypeOK'
    BY <1>1 DEF add_to_whitelist, remove_from_whitelist
  <1>2. ASSUME NEW a \in Accounts, add_to_blacklist(a) \/ remove_from_blacklist(a)
        PROVE  RestrictionsTypeOK'
    BY <1>2 DEF add_to_blacklist, remove_from_blacklist
  <1>3. ASSUME NEW a \in Accounts, NEW x \in Limits, set_transfer_limit(a, x)
        PROVE  RestrictionsTypeOK'
    BY <1>3 DEF set_transfer_limit
  <1>4. ASSUME NEW a \in Accounts, NEW b \in Accounts,
               request_transfer_approval(a, b) \/ approve_transfer(a, b)
        PROVE  RestrictionsTypeOK'
    BY <1>4 DEF request_transfer_approval, approve_transfer
  <1>5. ASSUME NEW on \in BOOLEAN, set_emergency_override(on) PROVE RestrictionsTypeOK'
    <2> DEFINE n == restrictions.log + 1
    <2>1. n \in 0 .. MaxLog /\ restrictions' = [restrictions EXCEPT !.override = on, !.log = n]
      BY <1>5 DEF set_emergency_override
    <2> HIDE DEF n
    <2>2. QED
      BY <2>1
  <1>6. QED
    BY <1>1, <1>2, <1>3, <1>4, <1>5 DEF RestrictionsNext

LEMMA DisputesTyped == DisputesInv /\ DisputesTypeOK /\ DisputesNext => DisputesTypeOK'
  <1> SUFFICES ASSUME DisputesInv, DisputesTypeOK, DisputesNext PROVE DisputesTypeOK'
    OBVIOUS
  <1>0. disputes \in Dispute
    BY DEF DisputesInv
  <1> USE DisputesAssumption DEF DisputesTypeOK, Dispute, DisputeIds, Outcomes
  <1>1. ASSUME NEW a \in Accounts, set_arbiter(a) PROVE DisputesTypeOK'
    BY <1>0, <1>1 DEF set_arbiter
  <1>2. ASSUME NEW a \in Accounts, NEW b \in Accounts, NEW x \in Claims, open_dispute(a, b, x)
        PROVE  DisputesTypeOK'
    BY <1>0, <1>2 DEF open_dispute
  <1>3. ASSUME NEW a \in Accounts, NEW d \in DisputeIds, submit_evidence(a, d)
        PROVE  DisputesTypeOK'
    BY <1>0, <1>3 DEF submit_evidence
  <1>4. ASSUME NEW a \in Accounts, NEW d \in DisputeIds, settle(a, d)
        PROVE  DisputesTypeOK'
    BY <1>0, <1>4 DEF settle
  <1>5. ASSUME NEW a \in Accounts, NEW d \in DisputeIds, NEW o \in Outcomes,
               record_decision(a, d, o)
        PROVE  DisputesTypeOK'
    BY <1>0, <1>5 DEF record_decision
  <1>6. QED
    BY <1>1, <1>2, <1>3, <1>4, <1>5 DEF DisputesNext

LEMMA MultisigTyped ==
    MultisigInv /\ MultisigTypeOK /\ sequence \in Clock /\ MultisigNext => MultisigTypeOK'
  <1> SUFFICES ASSUME MultisigInv, MultisigTypeOK, sequence \in Clock, MultisigNext
               PROVE  MultisigTypeOK'
    OBVIOUS
  <1> USE MultisigAssumption, LedgerAssumption
  <1>0. /\ multisig \in [threshold : 1 .. MaxThreshold,
                         proposals : [MsIds -> MultiSigProposal \cup {None}]]
        /\ sequence \in Nat
    BY DEF MultisigInv, MultisigTypeOK, Clock
  <1>1. ASSUME NEW p \in MsIds, NEW y \in MultiSigProposal,
               multisig' = [multisig EXCEPT !.proposals = [multisig.proposals EXCEPT ![p] = y]]
        PROVE  MultisigTypeOK'
    BY <1>0, <1>1 DEF MultisigTypeOK
  <1>2. ASSUME NEW n \in 0 .. MaxThreshold, set_threshold(n) PROVE MultisigTypeOK'
    BY <1>0, <1>2 DEF set_threshold, MultisigTypeOK
  <1>3. ASSUME NEW p \in MsIds, NEW n \in 0 .. MaxThreshold, NEW t \in 0 .. MaxDelay,
               create_proposal(p, n, t)
        PROVE  MultisigTypeOK'
    <2> DEFINE y == [threshold |-> n, expires |-> sequence + t, approvals |-> {}, votes |-> 0,
                     executed |-> FALSE, executedAt |-> None, minimum |-> 0]
    <2>1. y \in MultiSigProposal
      BY <1>0 DEF MultiSigProposal
    <2>2. multisig' = [multisig EXCEPT !.proposals = [multisig.proposals EXCEPT ![p] = y]]
      BY <1>3 DEF create_proposal
    <2> HIDE DEF y
    <2>3. QED
      BY <1>1, <2>1, <2>2
  <1>4. ASSUME NEW p \in MsIds, NEW a \in Accounts, approve_proposal(p, a)
        PROVE  MultisigTypeOK'
    <2> DEFINE x == multisig.proposals[p]
               approvals == x.approvals \cup {a}
               votes == x.votes + 1
               y == [x EXCEPT !.approvals = approvals, !.votes = votes]
    <2>1. x \in MultiSigProposal
      BY <1>0, <1>4 DEF approve_proposal
    <2>2. y \in MultiSigProposal
      <3>1. approvals \in SUBSET Accounts /\ votes \in Nat
        BY <2>1 DEF MultiSigProposal
      <3> HIDE DEF approvals, votes
      <3>2. QED
        BY <2>1, <3>1 DEF MultiSigProposal
    <2>3. multisig' = [multisig EXCEPT !.proposals = [multisig.proposals EXCEPT ![p] = y]]
      BY <1>0, <1>4, <2>1 DEF approve_proposal, MultiSigProposal
    <2> HIDE DEF y
    <2>4. QED
      BY <1>1, <2>2, <2>3
  <1>5. ASSUME NEW p \in MsIds, execute_proposal(p)
        PROVE  MultisigTypeOK'
    <2> DEFINE x == multisig.proposals[p]
               effective == IF x.threshold > 0 THEN x.threshold ELSE multisig.threshold
               y == [x EXCEPT !.executed = TRUE, !.executedAt = sequence, !.minimum = effective]
    <2>1. x \in MultiSigProposal
      BY <1>0, <1>5 DEF execute_proposal
    <2>2. effective \in Nat
      BY <1>0, <2>1 DEF MultiSigProposal
    <2>3. multisig' = [multisig EXCEPT !.proposals = [multisig.proposals EXCEPT ![p] = y]]
      BY <1>0, <1>5, <2>1 DEF execute_proposal, MultiSigProposal
    <2> HIDE DEF effective
    <2>4. y \in MultiSigProposal
      BY <2>1, <2>2 DEF MultiSigProposal
    <2> HIDE DEF y
    <2>5. QED
      BY <1>1, <2>3, <2>4
  <1>6. QED
    BY <1>2, <1>3, <1>4, <1>5 DEF MultisigNext

LEMMA GrantsTyped == GrantsInv /\ GrantsTypeOK /\ GrantsNext => GrantsTypeOK'
  <1> SUFFICES ASSUME GrantsInv, GrantsTypeOK, GrantsNext PROVE GrantsTypeOK'
    OBVIOUS
  <1> USE GrantsAssumption
  <1>0. /\ grants' \in Grant /\ grants \in Grant
        /\ \A g \in GrantIds, k \in Milestones : grants'.paid[g][k] <= grants'.sets[g][k]
    <2>1. GrantsInv'
      BY GrantsStep
    <2>2. grants' \in Grant /\ grants \in Grant
      BY <2>1 DEF GrantsInv
    <2>3. ASSUME NEW g \in GrantIds, NEW k \in Milestones
          PROVE  grants'.paid[g][k] <= grants'.sets[g][k]
      <3>1. grants'.paid[g][k] \in Nat /\ grants'.sets[g][k] \in Nat
        BY <2>2 DEF Grant
      <3>2. grants'.paid[g][k] + (IF grants'.milestone[g][k] = "set" THEN 1 ELSE 0)
              <= grants'.sets[g][k]
        BY <2>1 DEF GrantsInv, MilestoneInv
      <3>3. QED
        BY <3>1, <3>2
    <2>4. QED
      BY <2>2, <2>3
  <1>1. ASSUME /\ grants'.next \in 0 .. MaxGrants
               /\ \A g \in GrantIds : /\ grants'.count[g] <= MaxMilestones
                                      /\ grants'.reports[g] <= MaxReports
               /\ \A g \in GrantIds, k \in Milestones : grants'.sets[g][k] <= MaxSets
        PROVE  GrantsTypeOK'
    <2>1. \A g \in GrantIds, k \in Milestones :
            grants'.sets[g][k] \in 0 .. MaxSets /\ grants'.paid[g][k] \in 0 .. MaxSets
      BY <1>0, <1>1 DEF Grant
    <2>2. /\ grants'.sets \in [GrantIds -> [Milestones -> 0 .. MaxSets]]
          /\ grants'.paid \in [GrantIds -> [Milestones -> 0 .. MaxSets]]
          /\ grants'.count \in [GrantIds -> 0 .. MaxMilestones]
          /\ grants'.reports \in [GrantIds -> 0 .. MaxReports]
      BY <1>0, <1>1, <2>1 DEF Grant
    <2>3. QED
      BY <1>0, <1>1, <2>2 DEF Grant, GrantsTypeOK
  <1>2. /\ grants.next \in 0 .. MaxGrants
        /\ \A g \in GrantIds : /\ grants.count[g] \in 0 .. MaxMilestones
                               /\ grants.reports[g] \in 0 .. MaxReports
        /\ \A g \in GrantIds, k \in Milestones : grants.sets[g][k] \in 0 .. MaxSets
    BY DEF GrantsTypeOK
  <1>3. ASSUME NEW a \in Accounts, NEW n \in 1 .. MaxMilestones, apply_for_grant(a, n)
        PROVE  GrantsTypeOK'
    BY <1>0, <1>1, <1>2, <1>3 DEF apply_for_grant, Grant
  <1>4. ASSUME NEW g \in GrantIds, approve_grant(g) \/ reject_grant(g) PROVE GrantsTypeOK'
    <2>1. /\ grants'.next = grants.next /\ grants'.count = grants.count
          /\ grants'.reports = grants.reports /\ grants'.sets = grants.sets
      BY <1>0, <1>4 DEF approve_grant, reject_grant, decide_grant, Grant
    <2>2. QED
      BY <1>1, <1>2, <2>1
  <1>5. ASSUME NEW g \in GrantIds, NEW k \in Milestones, set_milestone(g, k)
        PROVE  GrantsTypeOK'
    <2>1. /\ grants'.next = grants.next /\ grants'.count = grants.count
          /\ grants'.reports = grants.reports
          /\ grants'.sets = [grants.sets EXCEPT ![g][k] = grants.sets[g][k] + 1]
          /\ grants.sets[g][k] < MaxSets
      BY <1>0, <1>5 DEF set_milestone, Grant
    <2>2. \A h \in GrantIds, j \in Milestones :
            grants'.sets[h][j] = IF h = g /\ j = k THEN grants.sets[g][k] + 1
                                 ELSE grants.sets[h][j]
      BY <1>0, <2>1 DEF Grant
    <2>3. QED
      BY <1>1, <1>2, <2>1, <2>2
  <1>6. ASSUME NEW g \in GrantIds, NEW k \in Milestones, release_milestone_funds(g, k)
        PROVE  GrantsTypeOK'
    BY <1>0, <1>1, <1>2, <1>6 DEF release_milestone_funds, Grant
  <1>7. ASSUME NEW g \in GrantIds, NEW a \in Accounts, submit_report(a, g)
        PROVE  GrantsTypeOK'
    BY <1>0, <1>1, <1>2, <1>7 DEF submit_report, Grant
  <1>8. QED
    BY <1>3, <1>4, <1>5, <1>6, <1>7 DEF GrantsNext

LEMMA TypesInit ==
    ContractsInit => GrantsTypeOK /\ DisputesTypeOK /\ MultisigTypeOK /\ RestrictionsTypeOK
  <1> SUFFICES ASSUME ContractsInit
               PROVE  GrantsTypeOK /\ DisputesTypeOK /\ MultisigTypeOK /\ RestrictionsTypeOK
    OBVIOUS
  <1> USE LedgerAssumption DEF ContractsInit
  <1>1. GrantsTypeOK
    BY GrantsAssumption DEF GrantsInit, GrantsTypeOK, EmptyIndex
  <1>2. DisputesTypeOK
    BY DisputesAssumption DEF DisputesInit, DisputesTypeOK
  <1>3. MultisigTypeOK
    BY MultisigAssumption DEF MultisigInit, MultisigTypeOK
  <1>4. RestrictionsTypeOK
    BY TokenRestrictionsAssumption DEF RestrictionsInit, RestrictionsTypeOK
  <1>5. QED
    BY <1>1, <1>2, <1>3, <1>4

----------------------------------------------------------------------------
(* all of them *)

ContractsInv ==
  /\ sequence \in Clock
  /\ DisputesInv /\ EscrowsInv /\ MultisigInv /\ GrantsInv
  /\ CertificatesInv /\ BadgesInv /\ NftInv /\ RegistryInv /\ AnalyticsInv
  /\ ScholarshipsInv /\ RoyaltiesInv /\ BuybackInv /\ BuybackBooks
  /\ UpgradeInv /\ ReputationInv
  /\ subject \in Subjects /\ UpgradeTypes /\ AccessTypes
  /\ GrantsTypeOK /\ DisputesTypeOK /\ MultisigTypeOK /\ RestrictionsTypeOK

LEMMA ContractsInvInit == ContractsInit => ContractsInv
  <1> SUFFICES ASSUME ContractsInit PROVE ContractsInv
    OBVIOUS
  <1>1. sequence = 0 /\ sequence \in Clock
    BY LedgerAssumption DEF ContractsInit, LedgerInit, Clock
  <1>2. QED
    BY <1>1, DisputesInitInv, EscrowsInitInv, MultisigInitInv, GrantsInitInv,
       CertificatesInitInv, BadgesInitInv, NftInitInv, RegistryInitInv, AnalyticsInitInv,
       ScholarshipsInitInv, RoyaltiesInitInv, BuybackInitInv, BuybackBooksInit,
       UpgradeInitInv, ReputationInitInv, SharedTypesInit, TypesInit
       DEF ContractsInit, ContractsInv

\* Only the ledger and the contract that is followed change.
LEMMA OneContractMoves ==
    ContractsInv /\ [ContractsNext]_contractVars
      => /\ sequence' = sequence \/ (CloseLedger /\ UNCHANGED <<certs, registry>>)
         /\ DisputesNext \/ UNCHANGED disputes
         /\ EscrowsNext \/ UNCHANGED escrows
         /\ MultisigNext \/ UNCHANGED multisig
         /\ GrantsNext \/ UNCHANGED grants
         /\ (CertificatesNext /\ UNCHANGED sequence) \/ UNCHANGED certs
         /\ BadgesNext \/ UNCHANGED badges
         /\ NftNext \/ UNCHANGED nftVars
         /\ (RegistryNext /\ UNCHANGED sequence) \/ UNCHANGED registry
         /\ AnalyticsNext \/ UNCHANGED progress
         /\ ScholarshipsNext \/ UNCHANGED fund
         /\ RoyaltiesNext \/ UNCHANGED royalty
         /\ BuybackNext \/ UNCHANGED buyback
         /\ UpgradeNext \/ UNCHANGED upgrade
         /\ ReputationNext \/ UNCHANGED reputation
         /\ SharedNext \/ UNCHANGED shared
         /\ RestrictionsNext \/ UNCHANGED restrictions
         /\ subject' = subject
  <1> SUFFICES ASSUME [ContractsNext]_contractVars
               PROVE  /\ sequence' = sequence \/ (CloseLedger /\ UNCHANGED <<certs, registry>>)
                      /\ DisputesNext \/ UNCHANGED disputes
                      /\ EscrowsNext \/ UNCHANGED escrows
                      /\ MultisigNext \/ UNCHANGED multisig
                      /\ GrantsNext \/ UNCHANGED grants
                      /\ (CertificatesNext /\ UNCHANGED sequence) \/ UNCHANGED certs
                      /\ BadgesNext \/ UNCHANGED badges
                      /\ NftNext \/ UNCHANGED nftVars
                      /\ (RegistryNext /\ UNCHANGED sequence) \/ UNCHANGED registry
                      /\ AnalyticsNext \/ UNCHANGED progress
                      /\ ScholarshipsNext \/ UNCHANGED fund
                      /\ RoyaltiesNext \/ UNCHANGED royalty
                      /\ BuybackNext \/ UNCHANGED buyback
                      /\ UpgradeNext \/ UNCHANGED upgrade
                      /\ ReputationNext \/ UNCHANGED reputation
                      /\ SharedNext \/ UNCHANGED shared
                      /\ RestrictionsNext \/ UNCHANGED restrictions
                      /\ subject' = subject
    OBVIOUS
  <1>1. CASE UNCHANGED contractVars
    BY <1>1 DEF contractVars, nftVars
  <1>2. CASE Others /\ Call /\ UNCHANGED sequence
    <2>1. sequence' = sequence /\ UNCHANGED sequence
      BY <1>2
    <2>2. DisputesNext \/ UNCHANGED disputes
      BY <1>2 DEF Others, Call
    <2>3. EscrowsNext \/ UNCHANGED escrows
      BY <1>2 DEF Others, Call
    <2>4. MultisigNext \/ UNCHANGED multisig
      BY <1>2 DEF Others, Call
    <2>5. GrantsNext \/ UNCHANGED grants
      BY <1>2 DEF Others, Call
    <2>6. CertificatesNext \/ UNCHANGED certs
      BY <1>2 DEF Others, Call
    <2>7. BadgesNext \/ UNCHANGED badges
      BY <1>2 DEF Others, Call
    <2>8. NftNext \/ UNCHANGED nftVars
      BY <1>2 DEF Others, Call
    <2>9. RegistryNext \/ UNCHANGED registry
      BY <1>2 DEF Others, Call
    <2>10. AnalyticsNext \/ UNCHANGED progress
      BY <1>2 DEF Others, Call
    <2>11. BuybackNext \/ UNCHANGED buyback
      BY <1>2 DEF Others, Call
    <2>12. UpgradeNext \/ UNCHANGED upgrade
      BY <1>2 DEF Others, Call
    <2>13. ScholarshipsNext \/ UNCHANGED fund
      BY <1>2 DEF Others, Call
    <2>14. RoyaltiesNext \/ UNCHANGED royalty
      BY <1>2 DEF Others, Call
    <2>15. ReputationNext \/ UNCHANGED reputation
      BY <1>2 DEF Others, Call
    <2>16. SharedNext \/ UNCHANGED shared
      BY <1>2 DEF Others, Call
    <2>17. RestrictionsNext \/ UNCHANGED restrictions
      BY <1>2 DEF Others, Call
    <2>18. subject' = subject
      BY <1>2 DEF Others
    <2>19. QED
      BY <2>1, <2>2, <2>3, <2>4, <2>5, <2>6, <2>7, <2>8, <2>9, <2>10, <2>11, <2>12,
         <2>13, <2>14, <2>15, <2>16, <2>17, <2>18
  <1>3. CASE /\ CloseLedger
             /\ UNCHANGED <<nft, cred, certs, badges, grants, fund, royalty, buyback, disputes,
                             escrows, multisig, shared, upgrade, restrictions, registry,
                             progress, reputation, subject>>
    BY <1>3 DEF nftVars
  <1>4. QED
    BY <1>1, <1>2, <1>3 DEF ContractsNext

LEMMA ContractsInvStep == ContractsInv /\ [ContractsNext]_contractVars => ContractsInv'
  <1> SUFFICES ASSUME ContractsInv, [ContractsNext]_contractVars PROVE ContractsInv'
    OBVIOUS
  <1>1. sequence \in Clock /\ sequence \in Nat
    BY LedgerAssumption DEF ContractsInv, Clock
  <1>2. sequence' \in Clock /\ sequence <= sequence'
    BY <1>1, OneContractMoves, LedgerAssumption DEF CloseLedger, Clock
  <1>3. DisputesInv'
    <2>1. CASE UNCHANGED disputes
      BY <2>1 DEF ContractsInv, DisputesInv
    <2>2. QED
      BY <1>1, <2>1, OneContractMoves, DisputesStep DEF ContractsInv
  <1>4. EscrowsInv'
    <2>1. CASE UNCHANGED escrows
      BY <2>1 DEF ContractsInv, EscrowsInv
    <2>2. QED
      BY <1>1, <2>1, OneContractMoves, EscrowsStep DEF ContractsInv
  <1>5. MultisigInv'
    <2>1. CASE UNCHANGED multisig
      BY <2>1 DEF ContractsInv, MultisigInv
    <2>2. QED
      BY <1>1, <2>1, OneContractMoves, MultisigStep DEF ContractsInv
  <1>6. GrantsInv'
    <2>1. CASE UNCHANGED grants
      BY <2>1 DEF ContractsInv, GrantsInv, MilestoneInv
    <2>2. QED
      BY <2>1, OneContractMoves, GrantsStep DEF ContractsInv
  <1>7. CertificatesInv'
    BY <1>1, <1>2, OneContractMoves, CertificatesStep, CertificatesIdle DEF ContractsInv
  <1>8. BadgesInv'
    <2>1. CASE UNCHANGED badges
      BY <2>1, ZenonT(60) DEF ContractsInv, BadgesInv, BadgesTypeOK
    <2>2. QED
      BY <2>1, OneContractMoves, BadgesStep DEF ContractsInv
  <1>9. NftInv'
    <2>1. CASE UNCHANGED nftVars
      BY <2>1 DEF ContractsInv, NftInv, nftVars
    <2>2. QED
      BY <1>1, <2>1, OneContractMoves, NftStep DEF ContractsInv
  <1>10. RegistryInv'
    BY <1>1, <1>2, OneContractMoves, RegistryStep, RegistryIdle DEF ContractsInv
  <1>11. AnalyticsInv'
    <2>1. CASE UNCHANGED progress
      BY <2>1 DEF ContractsInv, AnalyticsInv, AnalyticsTypeOK, ProgressIndexesAgree
    <2>2. QED
      BY <2>1, OneContractMoves, AnalyticsStep DEF ContractsInv
  <1>12. BuybackInv'
    <2>1. CASE UNCHANGED buyback
      BY <2>1 DEF ContractsInv, BuybackInv, BuybacksAreSpaced
    <2>2. QED
      BY <1>1, <2>1, OneContractMoves, BuybackStep DEF ContractsInv
  <1>13. UpgradeInv'
    <2>1. CASE UNCHANGED upgrade
      BY <2>1 DEF ContractsInv, UpgradeInv, UpgradesWaited
    <2>2. QED
      BY <1>1, <2>1, OneContractMoves, UpgradeStep DEF ContractsInv
  <1>14. ScholarshipsInv'
    <2>1. CASE UNCHANGED fund
      BY <2>1 DEF ContractsInv, ScholarshipsInv, ScholarshipsTypeOK, FundBalances
    <2>2. QED
      BY <2>1, OneContractMoves, ScholarshipsStep DEF ContractsInv
  <1>15. RoyaltiesInv'
    <2>1. CASE UNCHANGED royalty
      BY <2>1 DEF ContractsInv, RoyaltiesInv, RoyaltiesBalance
    <2>2. QED
      BY <2>1, OneContractMoves, RoyaltiesStep DEF ContractsInv
  <1>16. BuybackBooks'
    <2>1. CASE UNCHANGED buyback
      BY <2>1 DEF ContractsInv, BuybackBooks, BuybackTypeOK, ReserveBalances
    <2>2. QED
      BY <1>1, <2>1, OneContractMoves, BuybackBooksStep DEF ContractsInv
  <1>17. ReputationInv'
    <2>1. CASE UNCHANGED reputation
      BY <2>1 DEF ContractsInv, ReputationInv, HistoryAddsUp
    <2>2. QED
      BY <1>1, <2>1, OneContractMoves, ReputationStep DEF ContractsInv
  <1>18. GrantsTypeOK'
    <2>1. CASE UNCHANGED grants
      BY <2>1 DEF ContractsInv, GrantsTypeOK
    <2>2. QED
      BY <2>1, OneContractMoves, GrantsTyped DEF ContractsInv
  <1>19. DisputesTypeOK'
    <2>1. CASE UNCHANGED disputes
      BY <2>1 DEF ContractsInv, DisputesTypeOK
    <2>2. QED
      BY <2>1, OneContractMoves, DisputesTyped DEF ContractsInv
  <1>20. MultisigTypeOK'
    <2>1. CASE UNCHANGED multisig
      BY <2>1 DEF ContractsInv, MultisigTypeOK
    <2>2. QED
      BY <1>1, <2>1, OneContractMoves, MultisigTyped DEF ContractsInv
  <1>21. UpgradeTypes'
    <2>1. CASE UNCHANGED upgrade
      BY <2>1 DEF ContractsInv, UpgradeTypes
    <2>2. QED
      BY <1>1, <2>1, OneContractMoves, UpgradeTypesStep DEF ContractsInv
  <1>22. AccessTypes'
    <2>1. CASE UNCHANGED shared
      BY <2>1 DEF ContractsInv, AccessTypes
    <2>2. QED
      BY <2>1, OneContractMoves, AccessTypesStep DEF ContractsInv
  <1>23. RestrictionsTypeOK'
    <2>1. CASE UNCHANGED restrictions
      BY <2>1 DEF ContractsInv, RestrictionsTypeOK
    <2>2. QED
      BY <2>1, OneContractMoves, RestrictionsTyped DEF ContractsInv
  <1>24. subject' \in Subjects
    BY OneContractMoves DEF ContractsInv
  <1>25. QED
    BY <1>2, <1>3, <1>4, <1>5, <1>6, <1>7, <1>8, <1>9, <1>10, <1>11, <1>12, <1>13,
       <1>14, <1>15, <1>16, <1>17, <1>18, <1>19, <1>20, <1>21, <1>22, <1>23, <1>24
       DEF ContractsInv

LEMMA ContractsInvHolds == ContractsSpec => []ContractsInv
  BY ContractsInvInit, ContractsInvStep, PTL DEF ContractsSpec

(* Every contract's storage keeps its type and, where the model counts, its *)
(* bound, with any accounts, ids and amounts: ids and schedules stay in     *)
(* range, and no upgrade is executed more often than one was scheduled.     *)
THEOREM ContractsAreTyped == ContractsSpec => []ContractsTypeOK
  <1>1. ContractsInv => ContractsTypeOK
    <2> SUFFICES ASSUME ContractsInv PROVE ContractsTypeOK
      OBVIOUS
    <2> USE DEF ContractsInv
    <2>1. NftTypeOK
      BY DEF NftInv, OwnedInv, LinkedInv, NftStore, CredStore, NftTypeOK
    <2>2. CertificatesTypeOK /\ BadgesTypeOK
      BY DEF CertificatesInv, BadgesInv
    <2>3. ScholarshipsTypeOK /\ BuybackTypeOK
      BY DEF ScholarshipsInv, BuybackBooks
    <2>4. RoyaltiesTypeOK
      BY DEF RoyaltiesInv, RoyaltyRecord, RoyaltiesTypeOK
    <2>5. EscrowsTypeOK
      BY DEF EscrowsInv, EscrowsTypeOK
    <2>6. SharedTypeOK
      <3>1. Len(upgrade.history) <= Len(upgrade.plans) /\ Len(upgrade.plans) <= MaxPlans
            /\ Len(upgrade.history) \in Nat /\ Len(upgrade.plans) \in Nat
        BY DEF UpgradeTypes, UpgradeInv
      <3>2. Len(upgrade.history) <= MaxPlans
        BY <3>1, SharedAssumption
      <3>3. QED
        BY <3>1, <3>2 DEF UpgradeInv, UpgradeTypes, AccessTypes, SharedTypeOK
    <2>7. RegistryTypeOK /\ AnalyticsTypeOK
      BY DEF RegistryInv, RegistryStore, RegistryTypeOK, AnalyticsInv
    <2>8. ReputationTypeOK
      BY ReputationInvImplies
    <2>9. QED
      BY <2>1, <2>2, <2>3, <2>4, <2>5, <2>6, <2>7, <2>8 DEF ContractsTypeOK
  <1>2. QED
    BY <1>1, ContractsInvHolds, PTL

(* Whatever leaves a contract for good, the amount of a dispute, the money  *)
(* of an escrow, an approved call of the multisig or the funds of a grant's *)
(* milestone, does so once and on the decision, the approvals or the        *)
(* milestone that the code asks for, with any accounts, amounts, bounds and *)
(* thresholds.                                                              *)
THEOREM PaymentsAreMadeOnce == ContractsSpec => []PaidOnce
  <1>1. ContractsInv => PaidOnce
    BY DisputesInvImplies, EscrowsInvImplies, MultisigInvImplies, GrantsInvImplies
       DEF ContractsInv, PaidOnce
  <1>2. QED
    BY <1>1, ContractsInvHolds, PTL

(* The lists kept beside the records of NFTs, credentials, certificates,    *)
(* badges, grants, skills and progress never part from them, whatever the   *)
(* order of the calls, with any accounts, ids and bounds.                   *)
THEOREM ListsStayInStep == ContractsSpec => []IndexesAgree
  <1>1. ContractsInv => IndexesAgree
    BY CertificatesInvImplies, BadgesInvImplies, GrantsInvImplies, NftInvImplies,
       RegistryInvImplies
       DEF ContractsInv, AnalyticsInv, IndexesAgree
  <1>2. QED
    BY <1>1, ContractsInvHolds, PTL

(* An executed upgrade waited out its own timelock, an automatic buyback    *)
(* its interval, a pause lets nothing guarded through and a revocation is   *)
(* for good, for all timelocks, intervals and lengths of a pause.           *)
THEOREM WaitsHold == ContractsSpec => []WaitsAreKept
  <1>1. ContractsInv => WaitsAreKept
    BY CertificatesInvImplies, RegistryInvImplies, UpgradeInvImplies
       DEF ContractsInv, BuybackInv, WaitsAreKept
  <1>2. QED
    BY <1>1, ContractsInvHolds, PTL

(* The scholarship fund, the royalties, the buyback reserve and the total   *)
(* of the reputation contract are at every moment what their own records    *)
(* add up to, with any amounts, shares, prices and bounds: no sequence of   *)
(* donations, withdrawals, distributions, purchases and updates loses or    *)
(* makes money.                                                             *)
THEOREM BooksStayBalanced == ContractsSpec => []BooksBalance
  <1>1. ContractsInv => BooksBalance
    BY ReputationInvImplies
       DEF ContractsInv, ScholarshipsInv, RoyaltiesInv, BuybackBooks, BooksBalance
  <1>2. QED
    BY <1>1, ContractsInvHolds, PTL
=============================================================================
