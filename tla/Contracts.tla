----------------------------- MODULE Contracts ------------------------------
(***************************************************************************)
(* The contracts beside governance and the token, on one ledger.  Apart    *)
(* from the NFT and credential contracts, which CourseNft holds together,  *)
(* none reads the storage of another or calls it, so a behaviour of all of *)
(* them is an interleaving in which each takes the steps it takes alone.   *)
(* subject names the one whose calls a behaviour follows; it is chosen by  *)
(* Init and never changes, which adds the state spaces up instead of       *)
(* multiplying them.                                                       *)
(***************************************************************************)
EXTENDS CourseNft, Certificates, Grants, Royalties, Disputes, MultisigEscrow,
        SharedContract, TokenRestrictions, Registry, Reputation

CONSTANT Subjects    \* the contracts followed

VARIABLE subject

contractVars ==
  <<nft, cred, certs, badges, grants, fund, royalty, buyback, disputes, escrows,
    multisig, shared, upgrade, restrictions, registry, progress, reputation,
    sequence, subject>>

ContractsInit ==
  /\ LedgerInit
  /\ subject \in Subjects
  /\ NftInit /\ CertificatesInit /\ BadgesInit /\ GrantsInit /\ ScholarshipsInit
  /\ RoyaltiesInit /\ BuybackInit /\ DisputesInit /\ EscrowsInit /\ MultisigInit
  /\ SharedInit /\ RestrictionsInit /\ RegistryInit /\ AnalyticsInit /\ ReputationInit

\* The contracts a behaviour does not follow, and subject, stay as they are.
Others ==
  /\ UNCHANGED subject
  /\ subject # "nft" => UNCHANGED nftVars
  /\ subject # "certificate" => UNCHANGED certs
  /\ subject # "badges" => UNCHANGED badges
  /\ subject # "grants" => UNCHANGED grants
  /\ subject # "scholarship" => UNCHANGED fund
  /\ subject # "royalty" => UNCHANGED royalty
  /\ subject # "buyback" => UNCHANGED buyback
  /\ subject # "dispute" => UNCHANGED disputes
  /\ subject # "escrow" => UNCHANGED escrows
  /\ subject # "multisig" => UNCHANGED multisig
  /\ subject # "shared" => UNCHANGED shared
  /\ subject # "upgrade" => UNCHANGED upgrade
  /\ subject # "restrictions" => UNCHANGED restrictions
  /\ subject # "registry" => UNCHANGED registry
  /\ subject # "analytics" => UNCHANGED progress
  /\ subject # "reputation" => UNCHANGED reputation

Call ==
  \/ subject = "nft" /\ NftNext
  \/ subject = "certificate" /\ CertificatesNext
  \/ subject = "badges" /\ BadgesNext
  \/ subject = "grants" /\ GrantsNext
  \/ subject = "scholarship" /\ ScholarshipsNext
  \/ subject = "royalty" /\ RoyaltiesNext
  \/ subject = "buyback" /\ BuybackNext
  \/ subject = "dispute" /\ DisputesNext
  \/ subject = "escrow" /\ EscrowsNext
  \/ subject = "multisig" /\ MultisigNext
  \/ subject = "shared" /\ SharedNext
  \/ subject = "upgrade" /\ UpgradeNext
  \/ subject = "restrictions" /\ RestrictionsNext
  \/ subject = "registry" /\ RegistryNext
  \/ subject = "analytics" /\ AnalyticsNext
  \/ subject = "reputation" /\ ReputationNext

ContractsNext ==
  \/ Others /\ Call /\ UNCHANGED sequence
  \/ CloseLedger
     /\ UNCHANGED <<nft, cred, certs, badges, grants, fund, royalty, buyback, disputes,
                    escrows, multisig, shared, upgrade, restrictions, registry,
                    progress, reputation, subject>>

ContractsSpec == ContractsInit /\ [][ContractsNext]_contractVars

-----------------------------------------------------------------------------
ContractsTypeOK ==
  /\ sequence \in Clock /\ subject \in Subjects
  /\ NftTypeOK /\ CertificatesTypeOK /\ BadgesTypeOK /\ GrantsTypeOK
  /\ ScholarshipsTypeOK /\ RoyaltiesTypeOK /\ BuybackTypeOK /\ DisputesTypeOK
  /\ EscrowsTypeOK /\ MultisigTypeOK /\ SharedTypeOK /\ RestrictionsTypeOK
  /\ RegistryTypeOK /\ AnalyticsTypeOK /\ ReputationTypeOK

(* The lists the contracts keep beside their records say what the records   *)
(* say: owners' NFTs, certificates and badges, applicants' grants, users'   *)
(* skills, students' courses, and the links of credentials and NFTs.        *)
IndexesAgree ==
  /\ NftOwnershipAgrees /\ LinksAgree
  /\ CertificateListsAgree /\ BadgeListsAgree /\ GrantListsAgree
  /\ SkillListsAgree /\ ProgressIndexesAgree

(* Balances, reserves and totals are what the calls recorded add up to.     *)
BooksBalance ==
  FundBalances /\ RoyaltiesBalance /\ ReserveBalances /\ HistoryAddsUp

(* What leaves a contract for good does so once, on the decision, the       *)
(* approvals or the milestone that allow it.                                *)
PaidOnce ==
  DisputesPaidOnce /\ EscrowsPaidOnce /\ ExecutionsWereApproved /\ GrantPaymentsAreDue

(* Timelocks, intervals, pauses and revocations hold for their full length, *)
(* however they are rescheduled, cancelled or interrupted.                  *)
WaitsAreKept ==
  UpgradesWaited /\ PendingIsLastPlan /\ BuybacksAreSpaced /\ PausesHold
    /\ RevocationsAreFinal
=============================================================================
