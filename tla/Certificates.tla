---------------------------- MODULE Certificates ----------------------------
(***************************************************************************)
(* contracts/certificate: soulbound unless the admin enables the transfer  *)
(* of one certificate; a revocation is for good.  moved keeps, for the     *)
(* property, when a certificate last changed hands.  contracts/badges:     *)
(* badge types with a count of what was minted, badges that nobody can     *)
(* transfer, and the burn that removes one.                                *)
(***************************************************************************)
EXTENDS Ledger

CONSTANTS
  MaxCertificates,    \* bound on the certificates minted
  BadgeTypes,         \* symbols of badge types
  MaxBadges           \* bound on the badges minted

ASSUME CertificatesAssumption == MaxCertificates \in Nat

ASSUME BadgesAssumption == None \notin BadgeTypes /\ MaxBadges \in Nat

VARIABLES certs, badges

----------------------------------------------------------------------------
(* contracts/certificate *)

CertIds == 0 .. MaxCertificates - 1     \* NextId starts at 1 in the code

CertificatesInit ==
  certs = [next |-> 0, owner |-> [i \in CertIds |-> None],
           index |-> EmptyIndex(CertIds),               \* OwnerCertificates
           revoked |-> [i \in CertIds |-> None],        \* revoked_at
           transferable |-> {},
           expiry |-> [i \in CertIds |-> 0],            \* of CertificateMetadata
           moved |-> [i \in CertIds |-> None]]

mint_certificate(a) ==
  LET i == certs.next
  IN  /\ i < MaxCertificates
      /\ certs' = [certs EXCEPT !.next = i + 1, !.owner[i] = a,
                                !.index = Pushed(@, a, i)]

revoke_certificate(i) ==
  /\ i < certs.next
  /\ certs.revoked[i] = None
  /\ certs' = [certs EXCEPT !.revoked[i] = sequence]

enable_transfer(i) ==
  /\ i < certs.next
  /\ certs' = [certs EXCEPT !.transferable = @ \cup {i}]

transfer(from, to, i) ==
  /\ i \in certs.transferable
  /\ certs.revoked[i] = None
  /\ certs.owner[i] = from
  /\ certs' = [certs EXCEPT !.owner[i] = to, !.moved[i] = sequence,
                            !.index = Pushed(Dropped(@, from, i), to, i)]

set_metadata(i, expiry) ==
  /\ i < certs.next
  /\ certs' = [certs EXCEPT !.expiry[i] = expiry]

is_valid(i) ==
  /\ i < certs.next /\ certs.revoked[i] = None
  /\ ~(certs.expiry[i] > 0 /\ sequence > certs.expiry[i])

CertificatesNext ==
  \/ \E a \in Accounts : mint_certificate(a)
  \/ \E i \in CertIds :
       \/ revoke_certificate(i) \/ enable_transfer(i)
       \/ \E a, b \in Accounts : transfer(a, b, i)
       \/ \E e \in Clock : set_metadata(i, e)

CertificatesTypeOK ==
  certs \in [next : 0 .. MaxCertificates,
             owner : [CertIds -> Accounts \cup {None}],
             index : [Accounts -> [CertIds -> Nat]],
             revoked : [CertIds -> Clock \cup {None}],
             transferable : SUBSET CertIds,
             expiry : [CertIds -> Clock],
             moved : [CertIds -> Clock \cup {None}]]

(* A certificate is in its owner's list once and in no other list.  *)
CertificateListsAgree ==
  /\ IndexAgrees(certs.index, certs.owner)
  /\ FreshIdsUnowned(certs.owner, certs.next)

(* A certificate only ever left its holder while it was transferable and    *)
(* not revoked, and a revoked one is valid for nobody.                      *)
RevocationsAreFinal ==
  \A i \in CertIds :
    /\ certs.moved[i] # None =>
         /\ i \in certs.transferable
         /\ certs.revoked[i] # None => certs.moved[i] <= certs.revoked[i]
    /\ certs.revoked[i] # None => ~is_valid(i)

----------------------------------------------------------------------------
(* contracts/badges *)

BadgeIds == 0 .. MaxBadges - 1     \* NextId starts at 1 in the code

BadgesInit ==
  badges = [next |-> 0, owner |-> [i \in BadgeIds |-> None],
            type |-> [i \in BadgeIds |-> None],
            index |-> EmptyIndex(BadgeIds),             \* OwnerBadges
            total |-> [t \in BadgeTypes |-> None],      \* total_minted, None: no such type
            burned |-> {}]

create_badge_type(t) ==
  /\ badges.total[t] = None
  /\ badges' = [badges EXCEPT !.total[t] = 0]

mint_badge(a, t) ==
  LET i == badges.next
  IN  /\ i < MaxBadges
      /\ badges.total[t] # None
      /\ badges' = [badges EXCEPT !.next = i + 1, !.owner[i] = a, !.type[i] = t,
                                  !.index = Pushed(@, a, i), !.total[t] = @ + 1]

\* The record goes, the count of the type stays.
burn_badge(i) ==
  /\ i \notin badges.burned
  /\ badges.owner[i] # None
  /\ badges' = [badges EXCEPT !.index = Dropped(@, badges.owner[i], i),
                              !.burned = @ \cup {i}, !.owner[i] = None]

BadgesNext ==
  \/ \E t \in BadgeTypes : create_badge_type(t) \/ (\E a \in Accounts : mint_badge(a, t))
  \/ \E i \in BadgeIds : burn_badge(i)

BadgesTypeOK ==
  badges \in [next : 0 .. MaxBadges,
              owner : [BadgeIds -> Accounts \cup {None}],
              type : [BadgeIds -> BadgeTypes \cup {None}],
              index : [Accounts -> [BadgeIds -> Nat]],
              total : [BadgeTypes -> (0 .. MaxBadges) \cup {None}],
              burned : SUBSET BadgeIds]

(* A badge is in its owner's list once, a burned or unminted one in none,   *)
(* and the count of a type is of the badges ever minted, burned ones too.   *)
BadgeListsAgree ==
  /\ IndexAgrees(badges.index, badges.owner)
  /\ \A i \in BadgeIds : badges.owner[i] = None <=> i >= badges.next \/ i \in badges.burned
  /\ \A t \in BadgeTypes :
       LET Of == {i \in BadgeIds : badges.type[i] = t}
       IN  IF badges.total[t] = None THEN Of = {} ELSE badges.total[t] = Cardinality(Of)
=============================================================================
