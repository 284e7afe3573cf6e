------------------------------ MODULE Royalties -----------------------------
(***************************************************************************)
(* contracts/royalty_distribution, for one course: the percentages, the    *)
(* list of recipients whose positions decide who is creator (first),       *)
(* contributor (second, if there is one) and platform (last), the balances *)
(* and withdrawals.  forfeited is for the property: it adds up the shares  *)
(* of contributors in payments to a single recipient, credited to nobody.  *)
(***************************************************************************)
EXTENDS Ledger, Sequences, Functions

CONSTANTS
  Splits,          \* <<creator, contributor, platform>> percentages
  Royalty,         \* amounts distributed
  MaxRecipients,   \* bound on the recipients of the course
  MaxPayments      \* bound on the distributions

ASSUME RoyaltiesAssumption ==
  /\ Splits \subseteq Nat \X Nat \X Nat /\ Royalty \subseteq Nat \ {0}
  /\ MaxRecipients \in Nat /\ MaxPayments \in Nat

VARIABLE royalty

RoyaltiesInit ==
  royalty = [split |-> None, recipients |-> <<>>,
             balance |-> [a \in Accounts |-> 0],    \* RoyaltyBalance
             withdrawn |-> 0, payments |-> <<>>,    \* PaymentRecord
             forfeited |-> 0]

set_royalty_split(s) ==
  /\ s[1] + s[2] + s[3] = 100
  /\ royalty' = [royalty EXCEPT !.split = s]

add_royalty_recipient(a) ==
  /\ Len(royalty.recipients) < MaxRecipients
  /\ royalty' = [royalty EXCEPT !.recipients = Append(@, a)]

compute_split_amount(x, pct) == (x * pct) \div 100

\* A mutant of distribute_royalties: the platform's share is rounded as well.
distribute_royalties_Rounds(x) ==
  LET to == royalty.recipients
      Share(k) == compute_split_amount(x, royalty.split[k])
      Credit(a, i, y) == IF to[i] = a THEN y ELSE 0
  IN  /\ royalty.split # None /\ to # <<>>
      /\ Len(royalty.payments) < MaxPayments
      /\ royalty' = [royalty EXCEPT
           !.balance = [a \in Accounts |-> @[a] + Credit(a, 1, Share(1))
              + (IF Len(to) > 1 THEN Credit(a, 2, Share(2)) ELSE 0)
              + Credit(a, Len(to), Share(3))],
           !.payments = Append(@, x),
           !.forfeited = @ + (IF Len(to) = 1 THEN Share(2) ELSE 0)]

\* Three read-modify-writes, one after the other: two roles of one account add up.
distribute_royalties(x) ==
  LET to == royalty.recipients
      creator == compute_split_amount(x, royalty.split[1])
      contributor == compute_split_amount(x, royalty.split[2])
      Credit(a, i, y) == IF to[i] = a THEN y ELSE 0
  IN  /\ royalty.split # None /\ to # <<>>
      /\ Len(royalty.payments) < MaxPayments
      /\ royalty' = [royalty EXCEPT
           !.balance = [a \in Accounts |-> @[a]
              + Credit(a, 1, creator)
              + (IF Len(to) > 1 THEN Credit(a, 2, contributor) ELSE 0)
              + Credit(a, Len(to), x - creator - contributor)],
           !.payments = Append(@, x),
           !.forfeited = @ + (IF Len(to) = 1 THEN contributor ELSE 0)]

withdraw_royalties(a) ==
  /\ royalty.balance[a] > 0
  /\ royalty' = [royalty EXCEPT !.withdrawn = @ + royalty.balance[a],
                                !.balance[a] = 0]

RoyaltiesNext ==
  \/ \E s \in Splits : set_royalty_split(s)
  \/ \E a \in Accounts : add_royalty_recipient(a) \/ withdraw_royalties(a)
  \/ \E x \in Royalty : distribute_royalties(x)

RoyaltiesTypeOK ==
  /\ royalty.split \in Splits \cup {None}
  /\ royalty.recipients \in Seq(Accounts)
  /\ royalty.balance \in [Accounts -> Nat]
  /\ royalty.payments \in Seq(Royalty) /\ royalty.forfeited \in Nat

(* Rounding, overlapping roles and later recipients neither create nor lose *)
(* money: what is withdrawn, what is in the balances and what was forfeited *)
(* are the payments recorded.  Forfeited is the contributor's share, and no *)
(* more, of each payment to a single recipient (distribute_royalties).      *)
RoyaltiesBalance ==
  royalty.withdrawn + SumFunction(royalty.balance) + royalty.forfeited
    = SumFunction(royalty.payments)

-----------------------------------------------------------------------------
(* contracts/buyback: a reserve that automatic and manual buybacks spend.  *)
(* The price is the constant the contract falls back to (its oracle call   *)
(* is a stub).  Each record of the history also keeps what it left in the  *)
(* reserve and the configuration and last ledger it was decided on, for    *)
(* the property.                                                           *)

CONSTANTS
  Configs,        \* configurations: enabled, threshold, max, min, interval
  FirstConfig,    \* the configuration initialize stores, disabled
  Deposits,       \* amounts added to the reserve
  Orders,         \* amounts of a manual buyback, any sign
  Price,          \* bst_price
  MaxAdded,       \* bound on what is added in all
  MaxBuybacks     \* bound on the history

ASSUME BuybackAssumption ==
  /\ Configs \subseteq [enabled : BOOLEAN, threshold : Int, max : Int, min : Int,
                        interval : Nat]
  /\ FirstConfig \in Configs
  /\ Deposits \subseteq Nat \ {0} /\ Orders \subseteq Int
  /\ Price \in Nat \ {0} /\ MaxAdded \in Nat /\ MaxBuybacks \in Nat

VARIABLE buyback

BuybackInit ==
  buyback = [config |-> FirstConfig, reserve |-> 0,
             total |-> 0, last |-> 0, history |-> <<>>, added |-> 0]

update_config(c) == buyback' = [buyback EXCEPT !.config = c]

add_to_reserve(x) ==
  /\ buyback.added + x <= MaxAdded
  /\ buyback' = [buyback EXCEPT !.reserve = @ + x, !.added = @ + x]

Least(a, b) == IF a <= b THEN a ELSE b

\* A token has 10^6 units of price; the BST bought is capped, the XLM is not.
execute_buyback_via_dex(xlm, reason) ==
  LET bst == Least((xlm * 1000000) \div Price, buyback.config.max)
  IN  /\ Len(buyback.history) < MaxBuybacks
      /\ buyback' = [buyback EXCEPT
           !.reserve = @ - xlm, !.total = @ + bst, !.last = sequence,
           !.history = Append(@, [ledger |-> sequence, bought |-> bst, spent |-> xlm,
                                  reason |-> reason, left |-> buyback.reserve - xlm,
                                  since |-> sequence - buyback.last,
                                  config |-> buyback.config])]

\* Anybody may call it; each condition that fails returns without a change.
check_and_execute_buyback ==
  LET c == buyback.config
      xlm == Least(buyback.reserve - c.min, c.max)
  IN  /\ c.enabled
      /\ sequence - buyback.last >= c.interval
      /\ Price > c.threshold
      /\ buyback.reserve > c.min
      /\ xlm > 0
      /\ execute_buyback_via_dex(xlm, "price_thr")

manual_buyback(xlm) ==
  /\ buyback.config.enabled
  /\ buyback.reserve >= xlm + buyback.config.min
  /\ execute_buyback_via_dex(xlm, "manual")

BuybackNext ==
  \/ \E c \in Configs : update_config(c)
  \/ \E x \in Deposits : add_to_reserve(x)
  \/ check_and_execute_buyback
  \/ \E x \in Orders : manual_buyback(x)

BuybackTypeOK ==
  /\ buyback.config \in [enabled : BOOLEAN, threshold : Int, max : Int, min : Int,
                         interval : Nat]
  /\ buyback.reserve \in Int /\ buyback.total \in Int
  /\ buyback.last \in Clock /\ buyback.added \in 0 .. MaxAdded
  /\ Len(buyback.history) <= MaxBuybacks

(* The reserve is what was added less what the history says was spent, the  *)
(* total is what it says was bought, a buyback of either kind leaves the    *)
(* reserve it was configured to leave, and only one under a negative        *)
(* minimum, which update_config accepts, takes the reserve below zero.      *)
ReserveBalances ==
  LET H == buyback.history
  IN  /\ buyback.reserve + SumFunction([i \in DOMAIN H |-> H[i].spent]) = buyback.added
      /\ buyback.total = SumFunction([i \in DOMAIN H |-> H[i].bought])
      /\ \A i \in DOMAIN H : H[i].left >= H[i].config.min
      /\ buyback.reserve < 0 => \E i \in DOMAIN H : H[i].config.min < 0

(* An automatic buyback comes at least the configured interval after the    *)
(* buyback before it, manual ones included.                                 *)
BuybacksAreSpaced ==
  LET H == buyback.history
  IN  \A i \in DOMAIN H : H[i].reason = "price_thr" =>
        /\ H[i].spent > 0
        /\ i > 1 => H[i].ledger - H[i-1].ledger >= H[i].config.interval
=============================================================================
