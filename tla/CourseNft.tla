----------------------------- MODULE CourseNft ------------------------------
(***************************************************************************)
(* contracts/nft (course NFTs, their access rights and their marketplace)  *)
(* and contracts/credential_metadata, which calls it: issue_with_nft       *)
(* stores a credential, mints an NFT in the other contract and links the   *)
(* two in both directions, or leaves no trace.  Names, prices, royalties   *)
(* and hashes are left out: no entry point branches on them.               *)
(***************************************************************************)
EXTENDS Ledger

CONSTANTS
  Creds,      \* credential ids
  MaxNfts,    \* bound on the NFTs minted
  MaxHistory, \* bound on the history entries of a credential
  Grace       \* GRACE_PERIOD_SECONDS, in ledgers

ASSUME CourseNftAssumption ==
  MaxNfts \in Nat /\ MaxHistory \in Nat /\ Grace \in Nat /\ None \notin Creds

VARIABLES
  nft,    \* storage of the NFT contract
  cred    \* storage of the credential contract

nftVars == <<nft, cred>>

Nfts == 0 .. MaxNfts - 1

NftInit ==
  /\ nft = [next |-> 0,
            owner |-> [i \in Nfts |-> None],       \* NftOwner
            metadata |-> [i \in Nfts |-> None],    \* owner field of NftMetadata
            index |-> EmptyIndex(Nfts),            \* CourseNfts
            access |-> {},                         \* AccessRights
            listing |-> [i \in Nfts |-> None],     \* seller of the Listing
            burned |-> {}]
  /\ cred = [expiry |-> [c \in Creds |-> None],    \* Metadata
             compact |-> [c \in Creds |-> None],   \* CompactMeta
             history |-> [c \in Creds |-> 0],      \* HistoryCount
             link |-> [c \in Creds |-> None],      \* CredentialNft
             back |-> [i \in Nfts |-> None]]       \* NftCredential

-----------------------------------------------------------------------------
(* The NFT contract. *)

Minted(o) ==
  LET i == nft.next
  IN  [nft EXCEPT !.next = i + 1, !.owner[i] = o, !.metadata[i] = o,
                  !.index = Pushed(@, o, i), !.access = @ \cup {<<i, o>>}]

mint_course_nft(o) ==
  /\ nft.next < MaxNfts
  /\ nft' = Minted(o)
  /\ UNCHANGED cred

\* What transfer_nft leaves of the storage n: the old owner's access stays.
Handed(n, from, to, i) ==
  [n EXCEPT !.owner[i] = to, !.metadata[i] = to,
            !.index = Pushed(Dropped(@, from, i), to, i),
            !.access = @ \cup {<<i, to>>}]

transfer_nft(from, to, i) ==
  /\ nft.owner[i] = from /\ nft.metadata[i] # None
  /\ nft' = Handed(nft, from, to, i)
  /\ UNCHANGED cred

grant_access(o, i, holder) ==
  /\ nft.owner[i] = o
  /\ nft' = [nft EXCEPT !.access = @ \cup {<<i, holder>>}]
  /\ UNCHANGED cred

revoke_access(o, i, holder) ==
  /\ nft.owner[i] = o
  /\ nft' = [nft EXCEPT !.access = @ \ {<<i, holder>>}]
  /\ UNCHANGED cred

\* A mutant of burn_nft: the listing of the burned NFT stays.
burn_nft_KeepsListing(o, i) ==
  /\ nft.owner[i] = o /\ i \notin nft.burned
  /\ nft' = [nft EXCEPT !.index = Dropped(@, o, i), !.burned = @ \cup {i},
                        !.owner[i] = None, !.metadata[i] = None]
  /\ UNCHANGED cred

burn_nft(o, i) ==
  /\ nft.owner[i] = o /\ i \notin nft.burned
  /\ nft' = [nft EXCEPT !.index = Dropped(@, o, i), !.listing[i] = None,
                        !.burned = @ \cup {i},
                        !.owner[i] = None, !.metadata[i] = None]
  /\ UNCHANGED cred

list_nft(seller, i) ==
  /\ nft.owner[i] = seller /\ nft.listing[i] = None
  /\ nft' = [nft EXCEPT !.listing[i] = seller]
  /\ UNCHANGED cred

delist_nft(seller, i) ==
  /\ nft.listing[i] = seller
  /\ nft' = [nft EXCEPT !.listing[i] = None]
  /\ UNCHANGED cred

\* The listing may be older than the last transfer: the inner transfer_nft
\* then finds another owner than the seller and the call rolls back.
buy_nft(buyer, i) ==
  LET seller == nft.listing[i]
  IN  /\ seller # None
      /\ nft.owner[i] = seller /\ nft.metadata[i] # None
      /\ nft' = Handed([nft EXCEPT !.listing[i] = None], seller, buyer, i)
      /\ UNCHANGED cred

-----------------------------------------------------------------------------
(* The credential contract, initialised with the address of the NFT one. *)

issue_with_nft(c, o, expiry) ==
  /\ cred.link[c] = None
  /\ nft.next < MaxNfts
  /\ nft' = Minted(o)
  /\ cred' = [cred EXCEPT !.expiry[c] = expiry, !.link[c] = nft.next,
                          !.back[nft.next] = c]

store_metadata(c, expiry) ==
  /\ cred' = [cred EXCEPT !.expiry[c] = expiry]
  /\ UNCHANGED nft

update_metadata(c) ==
  /\ cred.expiry[c] # None
  /\ cred.history[c] < MaxHistory
  /\ cred' = [cred EXCEPT !.history[c] = @ + 1]
  /\ UNCHANGED nft

renew_credential(c, expiry) ==
  /\ cred.expiry[c] # None
  /\ sequence <= cred.expiry[c] + Grace
  /\ expiry > sequence
  /\ cred' = [cred EXCEPT !.expiry[c] = expiry]
  /\ UNCHANGED nft

store_compact_metadata(c, expiry) ==
  /\ cred' = [cred EXCEPT !.compact[c] = expiry]
  /\ UNCHANGED nft

migrate_to_compact(c) ==
  /\ cred.expiry[c] # None
  /\ cred' = [cred EXCEPT !.compact[c] = cred.expiry[c]]
  /\ UNCHANGED nft

-----------------------------------------------------------------------------
NftNext ==
  \/ \E o \in Accounts : mint_course_nft(o)
  \/ \E i \in Nfts, a, b \in Accounts :
       transfer_nft(a, b, i) \/ grant_access(a, i, b) \/ revoke_access(a, i, b)
  \/ \E i \in Nfts, a \in Accounts :
       burn_nft(a, i) \/ list_nft(a, i) \/ delist_nft(a, i) \/ buy_nft(a, i)
  \/ \E c \in Creds, e \in Clock :
       \/ \E o \in Accounts : issue_with_nft(c, o, e)
       \/ store_metadata(c, e) \/ renew_credential(c, e)
       \/ store_compact_metadata(c, e)
  \/ \E c \in Creds : update_metadata(c) \/ migrate_to_compact(c)

NftTypeOK ==
  /\ nft \in [next : 0 .. MaxNfts,
              owner : [Nfts -> Accounts \cup {None}],
              metadata : [Nfts -> Accounts \cup {None}],
              index : [Accounts -> [Nfts -> Nat]],
              access : SUBSET (Nfts \X Accounts),
              listing : [Nfts -> Accounts \cup {None}],
              burned : SUBSET Nfts]
  /\ cred \in [expiry : [Creds -> Clock \cup {None}],
               compact : [Creds -> Clock \cup {None}],
               history : [Creds -> 0 .. MaxHistory],
               link : [Creds -> Nfts \cup {None}],
               back : [Nfts -> Creds \cup {None}]]

(* An NFT is in exactly one owner's list, the metadata names that owner, a  *)
(* burned or unminted NFT is nowhere, and only an NFT with an owner can be  *)
(* on sale.                                                                 *)
NftOwnershipAgrees ==
  /\ IndexAgrees(nft.index, nft.owner)
  /\ nft.metadata = nft.owner
  /\ FreshIdsUnowned(nft.owner, nft.next)
  /\ \A i \in Nfts :
       /\ nft.listing[i] # None => nft.owner[i] # None
       /\ i \in nft.burned <=> i < nft.next /\ nft.owner[i] = None

(* The two directions of the link agree, so no NFT stands for two          *)
(* credentials, and a linked credential is on record.                      *)
LinksAgree ==
  /\ \A c \in Creds, i \in Nfts : cred.link[c] = i <=> cred.back[i] = c
  /\ \A c \in Creds : cred.link[c] # None =>
       cred.link[c] < nft.next /\ cred.expiry[c] # None
=============================================================================
