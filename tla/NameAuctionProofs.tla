-------------------------- MODULE NameAuctionProofs --------------------------
(***************************************************************************)
(* The account of the name auctions covers its debts, nobody loses tokens  *)
(* but for a name, and no refund loses its deferred payment, for all sets  *)
(* of bidders and names, all amounts, endowments and delays.               *)
(***************************************************************************)
EXTENDS NameAuction, TotalProofs

(***************************************************************************)
(* A sum over the names follows a change of one of its terms.              *)
(***************************************************************************)
LEMMA NamesTotal ==
  ASSUME NEW f, NEW g, NEW n \in Newnames, NEW d \in Int,
         \A m \in Newnames : f[m] \in Nat /\ g[m] \in Nat,
         \A m \in Newnames \ {n} : g[m] = f[m],
         g[n] = f[n] + d
  PROVE  Total(g, Newnames) = Total(f, Newnames) + d
<1>1. IsFiniteSet(Newnames)
  BY NamesAssumption
<1> QED
  BY <1>1, TotalChange

LEMMA NamesUpdate ==
  ASSUME NEW f, NEW g, NEW n \in Newnames,
         \A m \in Newnames : f[m] \in Nat /\ g[m] \in Nat,
         \A m \in Newnames \ {n} : g[m] = f[m]
  PROVE  Total(g, Newnames) = Total(f, Newnames) + g[n] - f[n]
<1>1. IsFiniteSet(Newnames)
  BY NamesAssumption
<1> QED
  BY <1>1, TotalUpdate

LEMMA NamesTotalType ==
  ASSUME NEW f, \A m \in Newnames : f[m] \in Nat
  PROVE  Total(f, Newnames) \in Nat
BY NamesAssumption, TotalType

RefundKeys == Newnames \X Bidders

LEMMA KeysFinite == IsFiniteSet(RefundKeys)
BY NamesAssumption, FS_Product DEF RefundKeys

(***************************************************************************)
(* The same of the sum over all refunds.                                   *)
(***************************************************************************)
LEMMA RefundsTotal ==
  ASSUME NEW f, NEW g, NEW k \in RefundKeys, NEW d \in Int,
         \A j \in RefundKeys : f[j] \in Nat /\ g[j] \in Nat,
         \A j \in RefundKeys \ {k} : g[j] = f[j],
         g[k] = f[k] + d
  PROVE  Total(g, RefundKeys) = Total(f, RefundKeys) + d
BY KeysFinite, TotalChange

(***************************************************************************)
(* Setting one refund changes no other.                                    *)
(***************************************************************************)
LEMMA SetRefund ==
  ASSUME NEW f \in [Newnames -> [Bidders -> Nat]], NEW n \in Newnames, NEW b \in Bidders, NEW x \in Nat
  PROVE  LET g == [f EXCEPT ![n] = [f[n] EXCEPT ![b] = x]]
         IN  /\ g \in [Newnames -> [Bidders -> Nat]]
             /\ g[n][b] = x
             /\ \A m \in Newnames, c \in Bidders : (m # n \/ c # b) => g[m][c] = f[m][c]
OBVIOUS

USE NamesAssumption, EndowmentAssumption, TimesAssumption, SentinelAssumption

(***************************************************************************)
(* What the types say of single entries.                                   *)
(***************************************************************************)
LEMMA RowFacts ==
  ASSUME TypeOK
  PROVE  /\ \A n \in Newnames : bids[n] # NoBid =>
              /\ bids[n] \in NameBid /\ bids[n].high_bidder \in Bidders
              /\ bids[n].high_bid \in Int /\ bids[n].high_bid # 0
              /\ bids[n].age \in 0..(Day + 1)
         /\ \A n \in Newnames, b \in Bidders : refunds[n][b] \in Nat
         /\ \A b \in Bidders : liquid[b] \in Nat
BY DEF TypeOK, NameBid

LEMMA LaterType ==
  ASSUME NEW last \in Nat, NEW t \in 0..(last + 1)
  PROVE  Later(t, last) \in 0..(last + 1)
BY DEF Later

LEMMA AmountType ==
  ASSUME NEW n \in Newnames, NEW bid \in Amounts[n]
  PROVE  bid \in Nat /\ bid > 0
<1>1. Amounts[n] \subseteq Nat \ {0}
  OBVIOUS
<1> QED
  BY <1>1

-----------------------------------------------------------------------------
(***************************************************************************)
(* What each action does to the bids and refunds, entry by entry.          *)
(***************************************************************************)
LEMMA BidEffect ==
  ASSUME TypeOK, NEW b \in Bidders, NEW n \in Newnames, NEW bid \in Amounts[n], BidName(b, n, bid)
  PROVE  /\ bids' \in [Newnames -> NameBid \cup {NoBid}]
         /\ bids'[n] # NoBid /\ bids'[n].high_bidder = b /\ bids'[n].high_bid = bid
         /\ \A m \in Newnames \ {n} : bids'[m] = bids[m]
         /\ liquid' \in [Bidders -> Nat] /\ liquid'[b] = liquid[b] - bid
         /\ \A c \in Bidders \ {b} : liquid'[c] = liquid[c]
         /\ bid \in Nat /\ bid > 0 /\ pot' = pot + bid
<1> DEFINE row == [high_bidder |-> b, high_bid |-> bid, age |-> 0]
<1>1. bid \in Nat /\ bid > 0
  BY AmountType
<1>2. /\ liquid[b] >= bid /\ liquid' = [liquid EXCEPT ![b] = liquid[b] - bid]
      /\ pot' = pot + bid /\ bids' = [bids EXCEPT ![n] = row]
  BY DEF BidName, Affords
<1>3. row \in NameBid /\ row.high_bidder = b /\ row.high_bid = bid
  BY <1>1 DEF NameBid
<1>4. row # NoBid
  BY <1>3
<1> HIDE DEF row
<1>5. /\ bids' \in [Newnames -> NameBid \cup {NoBid}] /\ bids'[n] = row
      /\ \A m \in Newnames \ {n} : bids'[m] = bids[m]
  BY <1>2, <1>3 DEF TypeOK
<1>6. /\ liquid' \in [Bidders -> Nat] /\ liquid'[b] = liquid[b] - bid
      /\ \A c \in Bidders \ {b} : liquid'[c] = liquid[c]
  BY <1>1, <1>2 DEF TypeOK
<1> QED
  BY <1>1, <1>2, <1>3, <1>4, <1>5, <1>6

(***************************************************************************)
(* Who is outbid has the bid that stood as a refund.                       *)
(***************************************************************************)
LEMMA OutbidEffect ==
  ASSUME TypeOK, NEW b \in Bidders, NEW n \in Newnames, NEW bid \in Amounts[n], BidName(b, n, bid),
         bids[n] # NoBid
  PROVE  LET last == bids[n].high_bidder
         IN  /\ last \in Bidders /\ last # b
             /\ bids[n].high_bid \in Nat /\ bids[n].high_bid > 0
             /\ refunds' \in [Newnames -> [Bidders -> Nat]]
             /\ refunds'[n][last] = refunds[n][last] + bids[n].high_bid
             /\ \A m \in Newnames, c \in Bidders : (m # n \/ c # last) => refunds'[m][c] = refunds[m][c]
             /\ deferred' = deferred \cup {<<n, last>>}
<1> DEFINE last == bids[n].high_bidder
           hb == bids[n].high_bid
           x == refunds[n][last] + hb
<1>1. /\ Open(n) /\ last # b
      /\ refunds' = [refunds EXCEPT ![n] = [refunds[n] EXCEPT ![last] = x]]
      /\ deferred' = deferred \cup {<<n, last>>}
  BY DEF BidName, AddRefund, Notified
<1>2. last \in Bidders /\ hb \in Nat /\ hb > 0
  BY <1>1, RowFacts DEF Open
<1>3. refunds \in [Newnames -> [Bidders -> Nat]] /\ refunds[n][last] \in Nat
  BY <1>2 DEF TypeOK
<1>4. x \in Nat
  <2> HIDE DEF last, hb
  <2> QED
    BY <1>2, <1>3
<1> HIDE DEF last, hb, x
<1>5. /\ refunds' \in [Newnames -> [Bidders -> Nat]]
      /\ refunds'[n][last] = x
      /\ \A m \in Newnames, c \in Bidders : (m # n \/ c # last) => refunds'[m][c] = refunds[m][c]
  BY <1>1, <1>2, <1>3, <1>4, SetRefund
<1> QED
  BY <1>1, <1>2, <1>5 DEF last, hb, x

(***************************************************************************)
(* A refund is paid in full.                                               *)
(***************************************************************************)
LEMMA PayEffect ==
  ASSUME TypeOK, NEW b \in Bidders, NEW n \in Newnames, Pay(b, n)
  PROVE  /\ refunds[n][b] \in Nat /\ refunds[n][b] <= pot
         /\ refunds' \in [Newnames -> [Bidders -> Nat]]
         /\ refunds'[n][b] = 0
         /\ \A m \in Newnames, c \in Bidders : (m # n \/ c # b) => refunds'[m][c] = refunds[m][c]
         /\ pot' = pot - refunds[n][b]
         /\ liquid' \in [Bidders -> Nat] /\ liquid'[b] = liquid[b] + refunds[n][b]
         /\ \A c \in Bidders \ {b} : liquid'[c] = liquid[c]
<1> DEFINE x == refunds[n][b]
<1>1. /\ x > 0 /\ pot >= x
      /\ liquid' = [liquid EXCEPT ![b] = liquid[b] + x]
      /\ pot' = pot - x
      /\ refunds' = [refunds EXCEPT ![n] = [refunds[n] EXCEPT ![b] = 0]]
  BY DEF Pay, CanPay
<1>2. x \in Nat /\ refunds \in [Newnames -> [Bidders -> Nat]] /\ pot \in Nat
  BY DEF TypeOK
<1>3. /\ refunds' \in [Newnames -> [Bidders -> Nat]]
      /\ refunds'[n][b] = 0
      /\ \A m \in Newnames, c \in Bidders : (m # n \/ c # b) => refunds'[m][c] = refunds[m][c]
  BY <1>1, <1>2, SetRefund
<1> HIDE DEF x
<1>4. /\ liquid' \in [Bidders -> Nat] /\ liquid'[b] = liquid[b] + x
      /\ \A c \in Bidders \ {b} : liquid'[c] = liquid[c]
  BY <1>1, <1>2 DEF TypeOK
<1>5. x <= pot
  BY <1>1, <1>2
<1> QED
  BY <1>1, <1>2, <1>3, <1>4, <1>5 DEF x

(***************************************************************************)
(* A claim takes the row, and only that of its name.                       *)
(***************************************************************************)
LEMMA ClaimEffect ==
  ASSUME TypeOK, NEW creator \in Bidders \cup {Self}, NEW n \in Newnames, NewAccount(creator, n)
  PROVE  /\ n \notin accounts /\ accounts' = accounts \cup {n}
         /\ bids' \in [Newnames -> NameBid \cup {NoBid}]
         /\ \A m \in Newnames \ {n} : bids'[m] = bids[m]
         /\ \/ bids'[n] = bids[n]
            \/ bids'[n] = NoBid /\ Closed(n) /\ bids[n].high_bidder = creator /\ creator \in Bidders
<1>1. n \notin accounts /\ accounts' = accounts \cup {n}
  BY DEF NewAccount
<1>2. CASE creator = Self
  BY <1>1, <1>2 DEF NewAccount, TypeOK
<1>3. CASE creator # Self
  <2>1. Closed(n) /\ bids[n].high_bidder = creator /\ bids' = [bids EXCEPT ![n] = NoBid]
    BY <1>3 DEF NewAccount, Claims
  <2> QED
    BY <1>1, <1>3, <2>1 DEF TypeOK
<1> QED
  BY <1>2, <1>3

(***************************************************************************)
(* Blocks and time leave the size and the owner of every bid.              *)
(***************************************************************************)
SameBids ==
  /\ bids' \in [Newnames -> NameBid \cup {NoBid}]
  /\ \A n \in Newnames :
       /\ bids'[n] = NoBid <=> bids[n] = NoBid
       /\ bids[n] # NoBid =>
            /\ bids'[n].high_bidder = bids[n].high_bidder
            /\ bids'[n].high_bid = bids[n].high_bid \/ bids'[n].high_bid = -bids[n].high_bid

LEMMA BlockEffect ==
  ASSUME TypeOK, OnBlock
  PROVE  SameBids /\ closed' \in 0..(Day + 1)
<1>1. CASE UNCHANGED <<bids, closed>>
  BY <1>1 DEF SameBids, TypeOK
<1>2. ASSUME NEW n \in Newnames, Closes(n), closed' = 0,
             bids' = [bids EXCEPT ![n] =
                        [high_bidder |-> bids[n].high_bidder, high_bid |-> -bids[n].high_bid,
                         age |-> bids[n].age]]
      PROVE  SameBids /\ closed' \in 0..(Day + 1)
  <2> DEFINE row == [high_bidder |-> bids[n].high_bidder, high_bid |-> -bids[n].high_bid,
                     age |-> bids[n].age]
  <2>1. bids[n] # NoBid
    BY <1>2 DEF Closes, Highest
  <2>2. row \in NameBid /\ row.high_bidder = bids[n].high_bidder /\ row.high_bid = -bids[n].high_bid
    BY <2>1, RowFacts DEF NameBid
  <2>3. row # NoBid
    BY <2>2
  <2>4. bids' = [bids EXCEPT ![n] = row] /\ bids \in [Newnames -> NameBid \cup {NoBid}]
    BY <1>2 DEF TypeOK
  <2> HIDE DEF row
  <2>5. bids' \in [Newnames -> NameBid \cup {NoBid}] /\ bids'[n] = row
        /\ \A m \in Newnames \ {n} : bids'[m] = bids[m]
    BY <2>2, <2>4
  <2>6. SameBids
    BY <2>1, <2>2, <2>3, <2>5 DEF SameBids
  <2> QED
    BY <1>2, <2>6
<1> QED
  BY <1>1, <1>2 DEF OnBlock

LEMMA TickEffect ==
  ASSUME TypeOK, Tick
  PROVE  SameBids /\ closed' \in 0..(Day + 1) /\ launched' \in 0..(Launch + 1) \cup {Never}
<1> DEFINE row(n) == [high_bidder |-> bids[n].high_bidder, high_bid |-> bids[n].high_bid,
                      age |-> Later(bids[n].age, Day)]
<1>1. bids' = [n \in Newnames |-> IF bids[n] = NoBid THEN NoBid ELSE row(n)]
  BY DEF Tick
<1>2. \A n \in Newnames : bids[n] # NoBid =>
        /\ row(n) \in NameBid /\ row(n).high_bidder = bids[n].high_bidder
        /\ row(n).high_bid = bids[n].high_bid
  BY RowFacts, LaterType DEF NameBid
<1> HIDE DEF row
<1>3. SameBids
  BY <1>1, <1>2 DEF SameBids
<1>4. closed' \in 0..(Day + 1)
  BY LaterType DEF TypeOK, Tick
<1>5. launched' \in 0..(Launch + 1) \cup {Never}
  BY LaterType DEF TypeOK, Tick
<1> QED
  BY <1>3, <1>4, <1>5

(***************************************************************************)
(* Size is natural, and does not tell a closed bid from an open one.       *)
(***************************************************************************)
LEMMA SizeType ==
  ASSUME NEW x \in Int
  PROVE  Size(x) \in Nat /\ Size(-x) = Size(x) /\ (x > 0 => Size(x) = x) /\ (x < 0 => Size(x) = -x)
BY DEF Size

-----------------------------------------------------------------------------
(***************************************************************************)
(* No action leaves the types.                                             *)
(***************************************************************************)
LEMMA BidTypes ==
  ASSUME TypeOK, NEW b \in Bidders, NEW n \in Newnames, NEW bid \in Amounts[n], BidName(b, n, bid)
  PROVE  TypeOK'
<1>1. UNCHANGED <<accounts, enough, launched, closed, due>>
  BY DEF BidName, chain
<1>2. /\ bids' \in [Newnames -> NameBid \cup {NoBid}] /\ liquid' \in [Bidders -> Nat]
  BY BidEffect
<1>3. /\ bids'[n] # NoBid /\ bids'[n].high_bid = bid
      /\ \A m \in Newnames \ {n} : bids'[m] = bids[m]
      /\ bid \in Nat /\ bid > 0 /\ pot' = pot + bid
  BY BidEffect
<1>4. refunds' \in [Newnames -> [Bidders -> Nat]] /\ deferred' \subseteq Newnames \X Bidders
  <2>1. CASE bids[n] = NoBid
    BY <2>1 DEF BidName, TypeOK
  <2>2. CASE bids[n] # NoBid
    BY <2>2, OutbidEffect DEF TypeOK
  <2> QED
    BY <2>1, <2>2
<1>5. \A m \in Newnames : bids'[m] # NoBid => bids'[m].high_bid # 0
  BY <1>3 DEF TypeOK
<1>6. pot' \in Nat
  BY <1>3 DEF TypeOK
<1> QED
  BY <1>1, <1>2, <1>4, <1>5, <1>6 DEF TypeOK

LEMMA TypeStep ==
  ASSUME TypeOK, [Next]_vars
  PROVE  TypeOK'
<1> USE DEF chain
<1>1. ASSUME NEW b \in Bidders, NEW n \in Newnames, NEW bid \in Amounts[n], BidName(b, n, bid)
      PROVE  TypeOK'
  BY <1>1, BidTypes
<1>2. ASSUME NEW b \in Bidders, NEW n \in Newnames, Pay(b, n)
      PROVE  /\ refunds' \in [Newnames -> [Bidders -> Nat]] /\ liquid' \in [Bidders -> Nat]
             /\ pot' \in Nat
  BY <1>2, PayEffect DEF TypeOK
<1>3. ASSUME NEW b \in Bidders, NEW n \in Newnames, BidRefund(b, n) PROVE TypeOK'
  <2>1. Pay(b, n) /\ UNCHANGED <<bids, deferred, accounts, enough, launched, closed, due>>
    BY <1>3 DEF BidRefund
  <2>2. /\ refunds' \in [Newnames -> [Bidders -> Nat]] /\ liquid' \in [Bidders -> Nat]
        /\ pot' \in Nat
    BY <1>2, <2>1
  <2> QED
    BY <2>1, <2>2 DEF TypeOK
<1>4. ASSUME NEW b \in Bidders, NEW n \in Newnames, RunDeferred(n, b) PROVE TypeOK'
  <2>1. /\ deferred' = deferred \ {<<n, b>>}
        /\ Pay(b, n) \/ UNCHANGED <<liquid, pot, refunds>>
        /\ UNCHANGED <<bids, accounts, enough, launched, closed, due>>
    BY <1>4 DEF RunDeferred
  <2>2. /\ refunds' \in [Newnames -> [Bidders -> Nat]] /\ liquid' \in [Bidders -> Nat]
        /\ pot' \in Nat
    BY <1>2, <2>1 DEF TypeOK
  <2> QED
    BY <2>1, <2>2 DEF TypeOK
<1>5. ASSUME NEW b \in Bidders, NEW n \in Newnames, DropDeferred(n, b) PROVE TypeOK'
  BY <1>5 DEF DropDeferred, TypeOK
<1>6. ASSUME NEW creator \in Bidders \cup {Self}, NEW n \in Newnames, NewAccount(creator, n)
      PROVE  TypeOK'
  <2>1. UNCHANGED <<liquid, pot, refunds, deferred, enough, launched, closed, due>>
    BY <1>6 DEF NewAccount
  <2>2. /\ accounts' = accounts \cup {n} /\ bids' \in [Newnames -> NameBid \cup {NoBid}]
        /\ \A m \in Newnames \ {n} : bids'[m] = bids[m]
        /\ bids'[n] = bids[n] \/ bids'[n] = NoBid
    BY <1>6, ClaimEffect
  <2> QED
    BY <2>1, <2>2 DEF TypeOK
<1>7. ASSUME SameBids
      PROVE  /\ bids' \in [Newnames -> NameBid \cup {NoBid}]
             /\ \A n \in Newnames : bids'[n] # NoBid => bids'[n].high_bid # 0
  <2>1. ASSUME NEW n \in Newnames, bids'[n] # NoBid PROVE bids'[n].high_bid # 0
    <3>1. /\ bids[n] # NoBid
          /\ bids'[n].high_bid = bids[n].high_bid \/ bids'[n].high_bid = -bids[n].high_bid
      BY <1>7, <2>1 DEF SameBids
    <3>2. bids[n].high_bid \in Int /\ bids[n].high_bid # 0
      BY <3>1, RowFacts
    <3> QED
      BY <3>1, <3>2
  <2> QED
    BY <1>7, <2>1 DEF SameBids
<1>8. ASSUME OnBlock PROVE TypeOK'
  <2>1. UNCHANGED <<liquid, pot, refunds, deferred, accounts, enough, launched>> /\ due' = FALSE
    BY <1>8 DEF OnBlock
  <2>2. SameBids /\ closed' \in 0..(Day + 1)
    BY <1>8, BlockEffect
  <2> QED
    BY <1>7, <2>1, <2>2 DEF TypeOK
<1>9. ASSUME VotesChange PROVE TypeOK'
  <2>1. /\ enough' \in BOOLEAN /\ launched' = IF launched = Never THEN 0 ELSE launched
        /\ UNCHANGED <<liquid, pot, bids, refunds, deferred, accounts, closed, due>>
    BY <1>9 DEF VotesChange, TypeOK
  <2>2. launched' \in 0..(Launch + 1) \cup {Never}
    BY <2>1 DEF TypeOK
  <2> QED
    BY <2>1, <2>2 DEF TypeOK
<1>10. ASSUME Tick PROVE TypeOK'
  <2>1. UNCHANGED <<liquid, pot, refunds, deferred, accounts, enough>> /\ due' = TRUE
    BY <1>10 DEF Tick
  <2>2. SameBids /\ closed' \in 0..(Day + 1) /\ launched' \in 0..(Launch + 1) \cup {Never}
    BY <1>10, TickEffect
  <2> QED
    BY <1>7, <2>1, <2>2 DEF TypeOK
<1>11. ASSUME UNCHANGED vars PROVE TypeOK'
  BY <1>11 DEF vars, TypeOK
<1> QED
  BY <1>1, <1>3, <1>4, <1>5, <1>6, <1>8, <1>9, <1>10, <1>11 DEF Next

-----------------------------------------------------------------------------
(***************************************************************************)
(* The terms of the sums that DebtsAreCovered and Holdings are stated with.*)
(***************************************************************************)
StandingFor(n, row) == IF row = NoBid THEN 0 ELSE Size(row.high_bid)

LEMMA StandingTerms ==
  ASSUME TypeOK
  PROVE  \A n \in Newnames : StandingBid[n] = StandingFor(n, bids[n]) /\ StandingBid[n] \in Nat
<1> SUFFICES ASSUME NEW n \in Newnames
             PROVE  StandingBid[n] = StandingFor(n, bids[n]) /\ StandingBid[n] \in Nat
  OBVIOUS
<1>1. StandingBid[n] = IF bids[n] = NoBid THEN 0 ELSE Size(bids[n].high_bid)
  BY DEF StandingBid
<1>2. bids[n] # NoBid => Size(bids[n].high_bid) \in Nat
  BY RowFacts, SizeType
<1> QED
  BY <1>1, <1>2 DEF StandingFor

LEMMA StandingTermsPrimed ==
  ASSUME TypeOK'
  PROVE  \A n \in Newnames : StandingBid'[n] = StandingFor(n, bids'[n]) /\ StandingBid'[n] \in Nat
<1> SUFFICES ASSUME NEW n \in Newnames
             PROVE  StandingBid'[n] = StandingFor(n, bids'[n]) /\ StandingBid'[n] \in Nat
  OBVIOUS
<1>1. StandingBid'[n] = IF bids'[n] = NoBid THEN 0 ELSE Size(bids'[n].high_bid)
  BY DEF StandingBid
<1>2. bids'[n] # NoBid => bids'[n].high_bid \in Int
  BY DEF TypeOK, NameBid
<1>3. bids'[n] # NoBid => Size(bids'[n].high_bid) \in Nat
  BY <1>2, SizeType
<1> QED
  BY <1>1, <1>3 DEF StandingFor

LEMMA RefundTerms ==
  ASSUME TypeOK
  PROVE  \A m \in Newnames, c \in Bidders :
           /\ <<m, c>> \in RefundKeys /\ Refunds[<<m, c>>] = refunds[m][c]
           /\ Refunds[<<m, c>>] \in Nat
BY RowFacts DEF Refunds, RefundKeys

LEMMA RefundTermsPrimed ==
  ASSUME TypeOK'
  PROVE  \A m \in Newnames, c \in Bidders :
           /\ <<m, c>> \in RefundKeys /\ Refunds'[<<m, c>>] = refunds'[m][c]
           /\ Refunds'[<<m, c>>] \in Nat
<1> SUFFICES ASSUME NEW m \in Newnames, NEW c \in Bidders
             PROVE  /\ <<m, c>> \in RefundKeys /\ Refunds'[<<m, c>>] = refunds'[m][c]
                    /\ Refunds'[<<m, c>>] \in Nat
  OBVIOUS
<1>1. <<m, c>> \in RefundKeys
  BY DEF RefundKeys
<1>2. Refunds'[<<m, c>>] = refunds'[m][c]
  BY DEF Refunds
<1>3. refunds'[m][c] \in Nat
  BY DEF TypeOK
<1> QED
  BY <1>1, <1>2, <1>3

LEMMA KeysOf == \A k \in RefundKeys : k[1] \in Newnames /\ k[2] \in Bidders /\ k = <<k[1], k[2]>>
BY DEF RefundKeys

(***************************************************************************)
(* One refund that changes by d changes the sum by d.                      *)
(***************************************************************************)
LEMMA RefundsSum ==
  ASSUME TypeOK, TypeOK', NEW n \in Newnames, NEW b \in Bidders, NEW d \in Int,
         refunds'[n][b] = refunds[n][b] + d,
         \A m \in Newnames, c \in Bidders : (m # n \/ c # b) => refunds'[m][c] = refunds[m][c]
  PROVE  Total(Refunds', RefundKeys) = Total(Refunds, RefundKeys) + d
<1> DEFINE f == Refunds
           g == Refunds'
           k == <<n, b>>
<1>1. \A j \in RefundKeys : /\ f[j] \in Nat /\ g[j] \in Nat
                            /\ f[j] = refunds[j[1]][j[2]] /\ g[j] = refunds'[j[1]][j[2]]
  BY KeysOf, RefundTerms, RefundTermsPrimed
<1>2. k \in RefundKeys /\ k[1] = n /\ k[2] = b
  BY DEF RefundKeys
<1>3. \A j \in RefundKeys \ {k} : j[1] # n \/ j[2] # b
  BY KeysOf
<1> HIDE DEF f, g, k
<1>4. \A j \in RefundKeys \ {k} : g[j] = f[j]
  BY <1>1, <1>3, KeysOf
<1>5. g[k] = f[k] + d
  BY <1>1, <1>2
<1>6. \A j \in RefundKeys : f[j] \in Nat /\ g[j] \in Nat
  BY <1>1
<1>7. Total(g, RefundKeys) = Total(f, RefundKeys) + d
  <2>1. k \in RefundKeys
    BY <1>2
  <2> QED
    BY <2>1, <1>4, <1>5, <1>6, RefundsTotal, Zenon
<1> QED
  BY <1>7 DEF f, g

LEMMA RefundsSame ==
  ASSUME UNCHANGED refunds
  PROVE  Total(Refunds', RefundKeys) = Total(Refunds, RefundKeys)
BY DEF Refunds

LEMMA TotalsNatural ==
  ASSUME TypeOK
  PROVE  Total(StandingBid, Newnames) \in Nat /\ Total(Refunds, RefundKeys) \in Nat
<1>1. \A n \in Newnames : StandingBid[n] \in Nat
  BY StandingTerms
<1>2. \A k \in RefundKeys : Refunds[k] \in Nat
  BY KeysOf, RefundTerms
<1> QED
  BY <1>1, <1>2, KeysFinite, TotalType, NamesTotalType

(***************************************************************************)
(* One standing bid that changes by d changes the sum by d.                *)
(***************************************************************************)
LEMMA StandingSum ==
  ASSUME TypeOK, TypeOK', NEW n \in Newnames, NEW d \in Int,
         StandingFor(n, bids'[n]) = StandingFor(n, bids[n]) + d,
         \A m \in Newnames \ {n} : bids'[m] = bids[m]
  PROVE  Total(StandingBid', Newnames) = Total(StandingBid, Newnames) + d
<1> DEFINE f == StandingBid
           g == StandingBid'
<1>1. \A m \in Newnames : f[m] = StandingFor(m, bids[m]) /\ f[m] \in Nat
  BY StandingTerms
<1>2. \A m \in Newnames : g[m] = StandingFor(m, bids'[m]) /\ g[m] \in Nat
  BY StandingTermsPrimed
<1> HIDE DEF f, g
<1>3. g[n] = f[n] + d /\ \A m \in Newnames \ {n} : g[m] = f[m]
  BY <1>1, <1>2
<1>4. Total(g, Newnames) = Total(f, Newnames) + d
  BY <1>1, <1>2, <1>3, NamesTotal
<1> QED
  BY <1>4 DEF f, g

LEMMA StandingSame ==
  ASSUME TypeOK, TypeOK', SameBids
  PROVE  Total(StandingBid', Newnames) = Total(StandingBid, Newnames)
<1> DEFINE f == StandingBid
           g == StandingBid'
<1>1. ASSUME NEW m \in Newnames PROVE g[m] = f[m]
  <2>1. f[m] = StandingFor(m, bids[m]) /\ g[m] = StandingFor(m, bids'[m])
    BY StandingTerms, StandingTermsPrimed
  <2>2. StandingFor(m, bids'[m]) = StandingFor(m, bids[m])
    <3>1. CASE bids[m] = NoBid
      BY <3>1 DEF SameBids, StandingFor
    <3>2. CASE bids[m] # NoBid
      <4>1. bids[m].high_bid \in Int
        BY <3>2, RowFacts
      <4>2. Size(-bids[m].high_bid) = Size(bids[m].high_bid)
        BY <4>1, SizeType
      <4> QED
        BY <3>2, <4>2 DEF SameBids, StandingFor
    <3> QED
      BY <3>1, <3>2
  <2> QED
    BY <2>1, <2>2
<1> HIDE DEF f, g
<1>2. Total(f, Newnames) = Total(g, Newnames)
  BY <1>1, TotalSame
<1> QED
  BY <1>2 DEF f, g

-----------------------------------------------------------------------------
(***************************************************************************)
(* The inductive invariant: no token of the pot is owed twice.             *)
(***************************************************************************)
Inv == TypeOK /\ DebtsAreCovered

Debts == Total(StandingBid, Newnames) + Total(Refunds, RefundKeys)

LEMMA DebtsCovered == DebtsAreCovered <=> pot >= Debts
BY DEF DebtsAreCovered, Debts, RefundKeys

LEMMA DebtsCoveredPrimed == DebtsAreCovered' <=> pot' >= Total(StandingBid', Newnames) + Total(Refunds', RefundKeys)
BY DEF DebtsAreCovered, RefundKeys

(***************************************************************************)
(* What a payment takes from the pot it takes from the refunds.            *)
(***************************************************************************)
LEMMA PayDebts ==
  ASSUME Inv, TypeOK', NEW b \in Bidders, NEW n \in Newnames, Pay(b, n), UNCHANGED bids
  PROVE  DebtsAreCovered'
<1> DEFINE x == refunds[n][b]
           S == Total(StandingBid, Newnames)
           R == Total(Refunds, RefundKeys)
           d == 0 - x
<1>1. TypeOK /\ pot >= S + R
  BY DebtsCovered DEF Inv, Debts
<1>2. /\ x \in Nat /\ pot' = pot - x /\ refunds'[n][b] = 0
      /\ \A m \in Newnames, c \in Bidders : (m # n \/ c # b) => refunds'[m][c] = refunds[m][c]
  BY <1>1, PayEffect
<1>3. d \in Int /\ refunds'[n][b] = refunds[n][b] + d
  BY <1>2
<1>4. Total(Refunds', RefundKeys) = R + d
  <2>1. TypeOK
    BY <1>1
  <2>2. \A m \in Newnames, c \in Bidders : (m # n \/ c # b) => refunds'[m][c] = refunds[m][c]
    BY <1>2
  <2>3. d \in Int
    BY <1>3
  <2>4. refunds'[n][b] = refunds[n][b] + d
    BY <1>3
  <2> HIDE DEF d
  <2> QED
    BY <2>1, <2>2, <2>3, <2>4, RefundsSum, Zenon
<1>5. Total(StandingBid', Newnames) = S
  BY DEF StandingBid
<1>6. S \in Nat /\ R \in Nat /\ pot \in Nat
  BY <1>1, TotalsNatural DEF TypeOK
<1> HIDE DEF S, R, x
<1>7. pot' >= Total(StandingBid', Newnames) + Total(Refunds', RefundKeys)
  BY <1>1, <1>2, <1>4, <1>5, <1>6
<1> QED
  BY <1>7, DebtsCoveredPrimed

(***************************************************************************)
(* A bid brings what it stands for; who is outbid is owed what stood.      *)
(***************************************************************************)
LEMMA BidDebts ==
  ASSUME Inv, TypeOK', NEW b \in Bidders, NEW n \in Newnames, NEW bid \in Amounts[n], BidName(b, n, bid)
  PROVE  DebtsAreCovered'
<1> DEFINE S == Total(StandingBid, Newnames)
           R == Total(Refunds, RefundKeys)
           stood == StandingFor(n, bids[n])
           d == bid - stood
<1>1. TypeOK /\ pot >= S + R
  BY DebtsCovered DEF Inv, Debts
<1>2. /\ bids'[n] # NoBid /\ bids'[n].high_bid = bid
      /\ \A m \in Newnames \ {n} : bids'[m] = bids[m]
      /\ bid \in Nat /\ bid > 0 /\ pot' = pot + bid
  <2> TypeOK
    BY <1>1
  <2> QED
    BY BidEffect
<1>3. S \in Nat /\ R \in Nat /\ pot \in Nat
  BY <1>1, TotalsNatural DEF TypeOK
<1>4. stood \in Nat
  BY <1>1, StandingTerms
<1>5. StandingFor(n, bids'[n]) = bid
  <2>1. bid \in Int /\ Size(bid) = bid
    BY <1>2, SizeType
  <2> QED
    BY <1>2, <2>1 DEF StandingFor
<1>6. d \in Int /\ StandingFor(n, bids'[n]) = StandingFor(n, bids[n]) + d
  <2> HIDE DEF stood
  <2>1. d \in Int /\ bid = stood + d
    BY <1>2, <1>4
  <2> QED
    BY <1>5, <2>1 DEF stood
<1>7. Total(StandingBid', Newnames) = S + d
  <2> HIDE DEF d
  <2> QED
    BY <1>1, <1>2, <1>6, StandingSum
<1>8. Total(Refunds', RefundKeys) = R + stood
  <2>1. CASE bids[n] = NoBid
    <3>1. UNCHANGED refunds
      BY <2>1 DEF BidName
    <3>2. stood = 0
      BY <2>1 DEF StandingFor
    <3>3. Total(Refunds', RefundKeys) = R
      BY <3>1, RefundsSame
    <3> HIDE DEF R, stood
    <3> QED
      BY <1>3, <3>2, <3>3
  <2>2. CASE bids[n] # NoBid
    <3> DEFINE last == bids[n].high_bidder
               hb == bids[n].high_bid
    <3>1. /\ last \in Bidders /\ hb \in Nat /\ hb > 0
          /\ refunds'[n][last] = refunds[n][last] + hb
          /\ \A m \in Newnames, c \in Bidders : (m # n \/ c # last) => refunds'[m][c] = refunds[m][c]
      BY <1>1, <2>2, OutbidEffect
    <3>2. stood = hb
      BY <2>2, <3>1, SizeType DEF StandingFor
    <3> HIDE DEF last, hb
    <3>3. hb \in Int
      BY <3>1
    <3>4. Total(Refunds', RefundKeys) = R + hb
      BY <1>1, <3>1, <3>3, RefundsSum
    <3> QED
      BY <3>2, <3>4
  <2> QED
    BY <2>1, <2>2
<1> HIDE DEF S, R, stood
<1>9. pot' >= Total(StandingBid', Newnames) + Total(Refunds', RefundKeys)
  <2>1. d = bid - stood
    OBVIOUS
  <2> HIDE DEF d
  <2> QED
    BY <1>1, <1>2, <1>3, <1>4, <1>7, <1>8, <2>1
<1> QED
  BY <1>9, DebtsCoveredPrimed

(***************************************************************************)
(* A claim takes a debt away.                                              *)
(***************************************************************************)
LEMMA ClaimDebts ==
  ASSUME Inv, TypeOK', NEW creator \in Bidders \cup {Self}, NEW n \in Newnames, NewAccount(creator, n)
  PROVE  DebtsAreCovered'
<1> DEFINE S == Total(StandingBid, Newnames)
           R == Total(Refunds, RefundKeys)
           d == StandingFor(n, bids'[n]) - StandingFor(n, bids[n])
<1>1. TypeOK /\ pot >= S + R
  BY DebtsCovered DEF Inv, Debts
<1>2. UNCHANGED <<pot, refunds>>
  BY DEF NewAccount
<1>3. /\ \A m \in Newnames \ {n} : bids'[m] = bids[m]
      /\ bids'[n] = bids[n] \/ bids'[n] = NoBid
  BY <1>1, ClaimEffect
<1>4. StandingFor(n, bids[n]) \in Nat
  BY <1>1, StandingTerms
<1>5. d \in Int /\ d <= 0 /\ StandingFor(n, bids'[n]) = StandingFor(n, bids[n]) + d
  <2>1. CASE bids'[n] = bids[n]
    BY <1>4, <2>1
  <2>2. CASE bids'[n] = NoBid
    <3>1. StandingFor(n, bids'[n]) = 0
      BY <2>2 DEF StandingFor
    <3> QED
      BY <1>4, <3>1
  <2> QED
    BY <1>3, <2>1, <2>2
<1>6. Total(StandingBid', Newnames) = S + d
  <2> HIDE DEF d
  <2> QED
    BY <1>1, <1>3, <1>5, StandingSum
<1>7. Total(Refunds', RefundKeys) = R
  BY <1>2, RefundsSame
<1>8. S \in Nat /\ R \in Nat /\ pot \in Nat
  BY <1>1, TotalsNatural DEF TypeOK
<1> HIDE DEF S, R, d
<1>9. pot' >= Total(StandingBid', Newnames) + Total(Refunds', RefundKeys)
  BY <1>1, <1>2, <1>5, <1>6, <1>7, <1>8
<1> QED
  BY <1>9, DebtsCoveredPrimed

(***************************************************************************)
(* The rest leaves all sums alone.                                         *)
(***************************************************************************)
LEMMA QuietDebts ==
  ASSUME Inv, TypeOK', UNCHANGED <<pot, refunds>>, SameBids
  PROVE  DebtsAreCovered'
<1>1. TypeOK /\ pot >= Debts
  BY DebtsCovered DEF Inv
<1>2. Total(StandingBid', Newnames) = Total(StandingBid, Newnames)
  BY <1>1, StandingSame
<1>3. Total(Refunds', RefundKeys) = Total(Refunds, RefundKeys)
  BY RefundsSame
<1> QED
  BY <1>1, <1>2, <1>3, DebtsCoveredPrimed DEF Debts

LEMMA SameBidsUnchanged ==
  ASSUME TypeOK, UNCHANGED bids
  PROVE  SameBids
BY DEF TypeOK, SameBids

LEMMA NextInv == Inv /\ [Next]_vars => Inv'
<1> SUFFICES ASSUME Inv, [Next]_vars PROVE Inv'
  OBVIOUS
<1>1. TypeOK /\ TypeOK'
  BY TypeStep DEF Inv
<1>2. ASSUME NEW b \in Bidders, NEW n \in Newnames, NEW bid \in Amounts[n], BidName(b, n, bid)
      PROVE  DebtsAreCovered'
  BY <1>1, <1>2, BidDebts
<1>3. ASSUME NEW b \in Bidders, NEW n \in Newnames, BidRefund(b, n) PROVE DebtsAreCovered'
  BY <1>1, <1>3, PayDebts DEF BidRefund
<1>4. ASSUME NEW b \in Bidders, NEW n \in Newnames, RunDeferred(n, b) PROVE DebtsAreCovered'
  <2>1. Pay(b, n) \/ UNCHANGED <<liquid, pot, refunds>>
    BY <1>4 DEF RunDeferred
  <2>2. UNCHANGED bids
    BY <1>4 DEF RunDeferred
  <2>3. CASE Pay(b, n)
    BY <1>1, <2>2, <2>3, PayDebts
  <2>4. CASE UNCHANGED <<liquid, pot, refunds>>
    BY <1>1, <2>2, <2>4, QuietDebts, SameBidsUnchanged
  <2> QED
    BY <2>1, <2>3, <2>4
<1>5. ASSUME NEW b \in Bidders, NEW n \in Newnames, DropDeferred(n, b) PROVE DebtsAreCovered'
  BY <1>1, <1>5, QuietDebts, SameBidsUnchanged DEF DropDeferred
<1>6. ASSUME NEW creator \in Bidders \cup {Self}, NEW n \in Newnames, NewAccount(creator, n)
      PROVE  DebtsAreCovered'
  BY <1>1, <1>6, ClaimDebts
<1>7. ASSUME OnBlock PROVE DebtsAreCovered'
  <2>1. SameBids
    BY <1>1, <1>7, BlockEffect
  <2>2. UNCHANGED <<pot, refunds>>
    BY <1>7 DEF OnBlock
  <2> QED
    BY <1>1, <2>1, <2>2, QuietDebts
<1>8. ASSUME VotesChange PROVE DebtsAreCovered'
  BY <1>1, <1>8, QuietDebts, SameBidsUnchanged DEF VotesChange
<1>9. ASSUME Tick PROVE DebtsAreCovered'
  <2>1. SameBids
    BY <1>1, <1>9, TickEffect
  <2>2. UNCHANGED <<pot, refunds>>
    BY <1>9 DEF Tick
  <2> QED
    BY <1>1, <2>1, <2>2, QuietDebts
<1>10. ASSUME UNCHANGED vars PROVE DebtsAreCovered'
  BY <1>1, <1>10, QuietDebts, SameBidsUnchanged DEF vars
<1>11. DebtsAreCovered'
  BY <1>2, <1>3, <1>4, <1>5, <1>6, <1>7, <1>8, <1>9, <1>10 DEF Next
<1> QED
  BY <1>1, <1>11 DEF Inv

LEMMA InitInv == Init => Inv
<1> SUFFICES ASSUME Init PROVE Inv
  OBVIOUS
<1>1. TypeOK
  <2>1. liquid \in [Bidders -> Nat] /\ pot \in Nat
    BY DEF Init
  <2>2. /\ bids \in [Newnames -> NameBid \cup {NoBid}]
        /\ \A n \in Newnames : bids[n] # NoBid => bids[n].high_bid # 0
    BY DEF Init
  <2>3. refunds \in [Newnames -> [Bidders -> Nat]]
    BY DEF Init
  <2>4. launched \in 0..(Launch + 1) \cup {Never} /\ closed \in 0..(Day + 1)
    BY DEF Init
  <2> QED
    BY <2>1, <2>2, <2>3, <2>4 DEF Init, TypeOK
<1>2. \A n \in Newnames : StandingBid[n] = 0
  BY DEF Init, StandingBid
<1>3. \A k \in RefundKeys : Refunds[k] = 0
  BY DEF Init, Refunds, RefundKeys
<1>4. Debts = 0 /\ pot = 0
  <2>1. Total(StandingBid, Newnames) = 0
    BY <1>2, TotalZero
  <2>2. Total(Refunds, RefundKeys) = 0
    BY <1>3, TotalZero
  <2> QED
    BY <2>1, <2>2 DEF Debts, Init
<1>5. DebtsAreCovered
  BY <1>4, DebtsCovered
<1> QED
  BY <1>1, <1>5 DEF Inv

LEMMA Invariant == Spec => []Inv
BY InitInv, NextInv, PTL DEF Spec

(***************************************************************************)
(* The rows of bids and refunds keep their types: bidname never takes more *)
(* than a balance, and bidrefund never more than names_account has.        *)
(***************************************************************************)
THEOREM TypeCorrect == Spec => []TypeOK
<1>1. Inv => TypeOK
  BY DEF Inv
<1> QED
  BY <1>1, Invariant, PTL

(***************************************************************************)
(* names_account always covers the standing bids and the refunds, whoever  *)
(* bids, is outbid, asks for his refund or claims his name in between.     *)
(***************************************************************************)
THEOREM DebtsCoveredAlways == Spec => []DebtsAreCovered
<1>1. Inv => DebtsAreCovered
  BY DEF Inv
<1> QED
  BY <1>1, Invariant, PTL

-----------------------------------------------------------------------------
(***************************************************************************)
(* What b has standing on a row.                                           *)
(***************************************************************************)
OwnFor(b, row) == IF row # NoBid /\ row.high_bidder = b THEN Size(row.high_bid) ELSE 0

LEMMA OwnTerms ==
  ASSUME TypeOK, NEW b \in Bidders
  PROVE  \A n \in Newnames :
           /\ StandingBidOf(b)[n] = OwnFor(b, bids[n]) /\ StandingBidOf(b)[n] \in Nat
           /\ RefundOf(b)[n] = refunds[n][b] /\ RefundOf(b)[n] \in Nat
<1> SUFFICES ASSUME NEW n \in Newnames
             PROVE  /\ StandingBidOf(b)[n] = OwnFor(b, bids[n]) /\ StandingBidOf(b)[n] \in Nat
                    /\ RefundOf(b)[n] = refunds[n][b] /\ RefundOf(b)[n] \in Nat
  OBVIOUS
<1>1. StandingBidOf(b)[n] = OwnFor(b, bids[n])
  BY DEF StandingBidOf, OwnFor
<1>2. bids[n] # NoBid => Size(bids[n].high_bid) \in Nat
  BY RowFacts, SizeType
<1>3. OwnFor(b, bids[n]) \in Nat
  BY <1>2 DEF OwnFor
<1>4. RefundOf(b)[n] = refunds[n][b] /\ refunds[n][b] \in Nat
  BY RowFacts DEF RefundOf
<1> QED
  BY <1>1, <1>3, <1>4

LEMMA OwnTermsPrimed ==
  ASSUME TypeOK', NEW b \in Bidders
  PROVE  \A n \in Newnames :
           /\ StandingBidOf(b)'[n] = OwnFor(b, bids'[n]) /\ StandingBidOf(b)'[n] \in Nat
           /\ RefundOf(b)'[n] = refunds'[n][b] /\ RefundOf(b)'[n] \in Nat
<1> SUFFICES ASSUME NEW n \in Newnames
             PROVE  /\ StandingBidOf(b)'[n] = OwnFor(b, bids'[n]) /\ StandingBidOf(b)'[n] \in Nat
                    /\ RefundOf(b)'[n] = refunds'[n][b] /\ RefundOf(b)'[n] \in Nat
  OBVIOUS
<1>1. StandingBidOf(b)'[n] = OwnFor(b, bids'[n])
  BY DEF StandingBidOf, OwnFor
<1>2. bids'[n] # NoBid => bids'[n].high_bid \in Int
  BY DEF TypeOK, NameBid
<1>3. bids'[n] # NoBid => Size(bids'[n].high_bid) \in Nat
  BY <1>2, SizeType
<1>4. OwnFor(b, bids'[n]) \in Nat
  BY <1>3 DEF OwnFor
<1>5. RefundOf(b)'[n] = refunds'[n][b] /\ refunds'[n][b] \in Nat
  BY DEF RefundOf, TypeOK
<1> QED
  BY <1>1, <1>4, <1>5

(***************************************************************************)
(* What b has in hand, in bids and in refunds moves by what its parts move.*)
(***************************************************************************)
LEMMA HoldingsChange ==
  ASSUME TypeOK, TypeOK', NEW b \in Bidders, NEW n \in Newnames,
         \A m \in Newnames \ {n} : bids'[m] = bids[m] /\ refunds'[m][b] = refunds[m][b]
  PROVE  /\ Holdings(b) \in Nat
         /\ Holdings(b)' = Holdings(b) + (liquid'[b] - liquid[b])
                         + (OwnFor(b, bids'[n]) - OwnFor(b, bids[n])) + (refunds'[n][b] - refunds[n][b])
<1> DEFINE f == StandingBidOf(b)
           g == StandingBidOf(b)'
           h == RefundOf(b)
           k == RefundOf(b)'
<1>1. \A m \in Newnames : f[m] \in Nat /\ f[m] = OwnFor(b, bids[m]) /\ h[m] \in Nat /\ h[m] = refunds[m][b]
  BY OwnTerms
<1>2. \A m \in Newnames : g[m] \in Nat /\ g[m] = OwnFor(b, bids'[m]) /\ k[m] \in Nat /\ k[m] = refunds'[m][b]
  BY OwnTermsPrimed
<1>3. Holdings(b) = liquid[b] + Total(f, Newnames) + Total(h, Newnames)
  BY DEF Holdings
<1>4. Holdings(b)' = liquid'[b] + Total(g, Newnames) + Total(k, Newnames)
  BY DEF Holdings
<1>5. liquid[b] \in Nat
  BY RowFacts
<1> HIDE DEF f, g, h, k
<1>6. \A m \in Newnames : f[m] \in Nat /\ g[m] \in Nat
  BY <1>1, <1>2
<1>7. Total(g, Newnames) = Total(f, Newnames) + g[n] - f[n]
  <2>1. \A m \in Newnames \ {n} : g[m] = f[m]
    BY <1>1, <1>2
  <2> QED
    BY <1>6, <2>1, NamesUpdate
<1>8. \A m \in Newnames : h[m] \in Nat /\ k[m] \in Nat
  BY <1>1, <1>2
<1>9. Total(k, Newnames) = Total(h, Newnames) + k[n] - h[n]
  <2>1. \A m \in Newnames \ {n} : k[m] = h[m]
    BY <1>1, <1>2
  <2> QED
    BY <1>8, <2>1, NamesUpdate
<1>10. Total(f, Newnames) \in Nat /\ Total(h, Newnames) \in Nat
  BY <1>6, <1>8, NamesTotalType
<1>11. liquid'[b] \in Nat
  BY DEF TypeOK
<1>12. /\ f[n] = OwnFor(b, bids[n]) /\ f[n] \in Nat /\ h[n] = refunds[n][b] /\ h[n] \in Nat
       /\ g[n] = OwnFor(b, bids'[n]) /\ g[n] \in Nat /\ k[n] = refunds'[n][b] /\ k[n] \in Nat
  BY <1>1, <1>2
<1> QED
  BY <1>3, <1>4, <1>5, <1>7, <1>9, <1>10, <1>11, <1>12

(***************************************************************************)
(* Whoever's balance, refunds and bids are left alone has the same.        *)
(***************************************************************************)
LEMMA OwnSame ==
  ASSUME TypeOK, SameBids, NEW b \in Bidders, NEW m \in Newnames
  PROVE  OwnFor(b, bids'[m]) = OwnFor(b, bids[m])
<1>1. CASE bids[m] = NoBid
  BY <1>1 DEF SameBids, OwnFor
<1>2. CASE bids[m] # NoBid
  <2>1. bids[m].high_bid \in Int
    BY <1>2, RowFacts
  <2>2. Size(-bids[m].high_bid) = Size(bids[m].high_bid)
    BY <2>1, SizeType
  <2> QED
    BY <1>2, <2>2 DEF SameBids, OwnFor
<1> QED
  BY <1>1, <1>2

LEMMA HoldingsSame ==
  ASSUME TypeOK, TypeOK', UNCHANGED <<liquid, refunds>>, SameBids, NEW b \in Bidders
  PROVE  Holdings(b)' = Holdings(b)
<1> DEFINE f == StandingBidOf(b)
           g == StandingBidOf(b)'
<1>1. ASSUME NEW m \in Newnames PROVE f[m] = g[m]
  <2>1. f[m] = OwnFor(b, bids[m]) /\ g[m] = OwnFor(b, bids'[m])
    BY OwnTerms, OwnTermsPrimed
  <2> HIDE DEF f, g
  <2> QED
    BY <2>1, OwnSame
<1>2. Holdings(b) = liquid[b] + Total(f, Newnames) + Total(RefundOf(b), Newnames)
  BY DEF Holdings
<1>3. Holdings(b)' = liquid'[b] + Total(g, Newnames) + Total(RefundOf(b)', Newnames)
  BY DEF Holdings
<1>4. RefundOf(b)' = RefundOf(b)
  BY DEF RefundOf
<1> HIDE DEF f, g
<1>5. Total(f, Newnames) = Total(g, Newnames)
  BY <1>1, TotalSame
<1> QED
  BY <1>2, <1>3, <1>4, <1>5

LEMMA HoldingsOfBid ==
  ASSUME TypeOK, TypeOK', NEW b \in Bidders, NEW n \in Newnames, NEW bid \in Amounts[n], BidName(b, n, bid),
         NEW c \in Bidders
  PROVE  Holdings(c)' = Holdings(c)
<1>1. /\ bids'[n] # NoBid /\ bids'[n].high_bidder = b /\ bids'[n].high_bid = bid
      /\ \A m \in Newnames \ {n} : bids'[m] = bids[m]
      /\ liquid'[b] = liquid[b] - bid /\ \A a \in Bidders \ {b} : liquid'[a] = liquid[a]
      /\ bid \in Nat /\ bid > 0
  BY BidEffect
<1>2. OwnFor(c, bids'[n]) = IF c = b THEN bid ELSE 0
  <2>1. bid \in Int /\ Size(bid) = bid
    BY <1>1, SizeType
  <2> QED
    BY <1>1, <2>1 DEF OwnFor
<1>3. liquid[c] \in Nat /\ refunds[n][c] \in Nat
  BY RowFacts
<1>4. CASE bids[n] = NoBid
  <2>1. refunds' = refunds
    BY <1>4 DEF BidName
  <2>2. OwnFor(c, bids[n]) = 0
    BY <1>4 DEF OwnFor
  <2>3. \A m \in Newnames \ {n} : bids'[m] = bids[m] /\ refunds'[m][c] = refunds[m][c]
    BY <1>1, <2>1
  <2>4. /\ Holdings(c) \in Nat
        /\ Holdings(c)' = Holdings(c) + (liquid'[c] - liquid[c])
                        + (OwnFor(c, bids'[n]) - OwnFor(c, bids[n])) + (refunds'[n][c] - refunds[n][c])
    BY <2>3, HoldingsChange
  <2> QED
    BY <1>1, <1>2, <1>3, <2>1, <2>2, <2>4
<1>5. CASE bids[n] # NoBid
  <2> DEFINE last == bids[n].high_bidder
             hb == bids[n].high_bid
  <2>1. /\ last # b /\ hb \in Nat /\ hb > 0
        /\ refunds'[n][last] = refunds[n][last] + hb
        /\ \A m \in Newnames, a \in Bidders : (m # n \/ a # last) => refunds'[m][a] = refunds[m][a]
    BY <1>5, OutbidEffect
  <2>2. OwnFor(c, bids[n]) = IF c = last THEN hb ELSE 0
    <3>1. hb \in Int /\ Size(hb) = hb
      BY <2>1, SizeType
    <3> QED
      BY <1>5, <3>1 DEF OwnFor
  <2> HIDE DEF last, hb
  <2>3. \A m \in Newnames \ {n} : bids'[m] = bids[m] /\ refunds'[m][c] = refunds[m][c]
    BY <1>1, <2>1
  <2>4. /\ Holdings(c) \in Nat
        /\ Holdings(c)' = Holdings(c) + (liquid'[c] - liquid[c])
                        + (OwnFor(c, bids'[n]) - OwnFor(c, bids[n])) + (refunds'[n][c] - refunds[n][c])
    BY <2>3, HoldingsChange
  <2> QED
    BY <1>1, <1>2, <1>3, <2>1, <2>2, <2>4
<1> QED
  BY <1>4, <1>5

LEMMA HoldingsOfPay ==
  ASSUME TypeOK, TypeOK', NEW b \in Bidders, NEW n \in Newnames, Pay(b, n), UNCHANGED bids,
         NEW c \in Bidders
  PROVE  Holdings(c)' = Holdings(c)
<1> DEFINE r == refunds[n][b]
<1>1. /\ r \in Nat /\ refunds'[n][b] = 0
      /\ \A m \in Newnames, a \in Bidders : (m # n \/ a # b) => refunds'[m][a] = refunds[m][a]
      /\ liquid'[b] = liquid[b] + r /\ \A a \in Bidders \ {b} : liquid'[a] = liquid[a]
  BY PayEffect
<1>2. liquid[c] \in Nat /\ refunds[n][c] \in Nat /\ OwnFor(c, bids[n]) \in Nat
  BY RowFacts, OwnTerms
<1>3. \A m \in Newnames \ {n} : bids'[m] = bids[m] /\ refunds'[m][c] = refunds[m][c]
  BY <1>1
<1>4. /\ Holdings(c) \in Nat
      /\ Holdings(c)' = Holdings(c) + (liquid'[c] - liquid[c])
                      + (OwnFor(c, bids'[n]) - OwnFor(c, bids[n])) + (refunds'[n][c] - refunds[n][c])
  BY <1>3, HoldingsChange
<1>5. OwnFor(c, bids'[n]) = OwnFor(c, bids[n])
  OBVIOUS
<1>6. (liquid'[c] - liquid[c]) + (refunds'[n][c] - refunds[n][c]) = 0
      /\ liquid'[c] \in Nat /\ refunds'[n][c] \in Nat
  <2>1. CASE c = b
    BY <1>1, <1>2, <2>1
  <2>2. CASE c # b
    BY <1>1, <1>2, <2>2
  <2> QED
    BY <2>1, <2>2
<1> QED
  BY <1>2, <1>4, <1>5, <1>6

(***************************************************************************)
(* A claim costs the creator what he bid, and nobody else anything.        *)
(***************************************************************************)
Bought(b, n) ==
  /\ Closed(n) /\ bids[n].high_bidder = b
  /\ n \notin accounts /\ n \in accounts'
  /\ Holdings(b)' = Holdings(b) + bids[n].high_bid

LEMMA HoldingsOfClaim ==
  ASSUME TypeOK, TypeOK', NEW creator \in Bidders \cup {Self}, NEW n \in Newnames, NewAccount(creator, n),
         NEW c \in Bidders
  PROVE  Holdings(c)' = Holdings(c) \/ (Bought(c, n) /\ creator = c)
<1>1. UNCHANGED <<liquid, refunds>>
  BY DEF NewAccount
<1>2. /\ n \notin accounts /\ accounts' = accounts \cup {n}
      /\ \A m \in Newnames \ {n} : bids'[m] = bids[m]
      /\ \/ bids'[n] = bids[n]
         \/ bids'[n] = NoBid /\ Closed(n) /\ bids[n].high_bidder = creator
  BY ClaimEffect
<1>3. liquid[c] \in Nat /\ refunds[n][c] \in Nat /\ OwnFor(c, bids[n]) \in Nat
  BY RowFacts, OwnTerms
<1> DEFINE y == OwnFor(c, bids'[n]) - OwnFor(c, bids[n])
<1>4. OwnFor(c, bids'[n]) \in Nat
  BY OwnTermsPrimed
<1>5. liquid'[c] = liquid[c] /\ refunds'[n][c] = refunds[n][c]
  BY <1>1
<1>6. \A m \in Newnames \ {n} : bids'[m] = bids[m] /\ refunds'[m][c] = refunds[m][c]
  BY <1>1, <1>2
<1>7. /\ Holdings(c) \in Nat
      /\ Holdings(c)' = Holdings(c) + (liquid'[c] - liquid[c])
                      + (OwnFor(c, bids'[n]) - OwnFor(c, bids[n])) + (refunds'[n][c] - refunds[n][c])
  BY <1>6, HoldingsChange
<1>8. Holdings(c) \in Nat /\ Holdings(c)' = Holdings(c) + y
  BY <1>3, <1>4, <1>5, <1>7
<1>9. CASE y = 0
  <2> HIDE DEF y
  <2> QED
    BY <1>8, <1>9
<1>10. CASE y # 0
  <2>1. bids'[n] # bids[n]
    <3> SUFFICES ASSUME bids'[n] = bids[n] PROVE FALSE
      OBVIOUS
    <3> QED
      BY <1>3, <1>10
  <2>2. bids'[n] = NoBid /\ Closed(n) /\ bids[n].high_bidder = creator
    BY <1>2, <2>1
  <2>3. OwnFor(c, bids'[n]) = 0
    BY <2>2 DEF OwnFor
  <2>4. OwnFor(c, bids[n]) # 0
    BY <1>10, <2>3
  <2>5. bids[n] # NoBid /\ bids[n].high_bidder = c
    BY <2>4 DEF OwnFor
  <2>6. bids[n].high_bid \in Int /\ bids[n].high_bid < 0
    BY <2>2, RowFacts DEF Closed
  <2>7. Size(bids[n].high_bid) = -bids[n].high_bid
    BY <2>6, SizeType
  <2>8. OwnFor(c, bids[n]) = -bids[n].high_bid
    BY <2>5, <2>7 DEF OwnFor
  <2>9. y = bids[n].high_bid
    BY <2>3, <2>6, <2>8
  <2>10. Holdings(c)' = Holdings(c) + bids[n].high_bid
    BY <1>8, <2>6, <2>9
  <2> QED
    BY <1>2, <2>2, <2>5, <2>10 DEF Bought
<1> QED
  BY <1>9, <1>10

LEMMA StepKeepsHoldings ==
  ASSUME TypeOK, [Next]_vars, NEW c \in Bidders
  PROVE  Holdings(c)' = Holdings(c) \/ \E n \in Newnames : Bought(c, n) /\ NewAccount(c, n)
<1>1. TypeOK'
  BY TypeStep
<1>2. ASSUME NEW b \in Bidders, NEW n \in Newnames, NEW bid \in Amounts[n], BidName(b, n, bid)
      PROVE  Holdings(c)' = Holdings(c)
  BY <1>1, <1>2, HoldingsOfBid
<1>3. ASSUME NEW b \in Bidders, NEW n \in Newnames, BidRefund(b, n) PROVE Holdings(c)' = Holdings(c)
  BY <1>1, <1>3, HoldingsOfPay DEF BidRefund
<1>4. ASSUME NEW b \in Bidders, NEW n \in Newnames, RunDeferred(n, b) PROVE Holdings(c)' = Holdings(c)
  <2>1. Pay(b, n) \/ UNCHANGED <<liquid, pot, refunds>>
    BY <1>4 DEF RunDeferred
  <2>2. UNCHANGED bids
    BY <1>4 DEF RunDeferred
  <2>3. CASE Pay(b, n)
    BY <1>1, <2>2, <2>3, HoldingsOfPay
  <2>4. CASE UNCHANGED <<liquid, pot, refunds>>
    BY <1>1, <2>2, <2>4, HoldingsSame, SameBidsUnchanged
  <2> QED
    BY <2>1, <2>3, <2>4
<1>5. ASSUME NEW b \in Bidders, NEW n \in Newnames, DropDeferred(n, b) PROVE Holdings(c)' = Holdings(c)
  BY <1>1, <1>5, HoldingsSame, SameBidsUnchanged DEF DropDeferred
<1>6. ASSUME NEW creator \in Bidders \cup {Self}, NEW n \in Newnames, NewAccount(creator, n)
      PROVE  Holdings(c)' = Holdings(c) \/ (Bought(c, n) /\ NewAccount(c, n))
  BY <1>1, <1>6, HoldingsOfClaim
<1>7. ASSUME OnBlock PROVE Holdings(c)' = Holdings(c)
  <2>1. SameBids /\ UNCHANGED <<liquid, refunds>>
    BY <1>7, BlockEffect DEF OnBlock
  <2> QED
    BY <1>1, <2>1, HoldingsSame
<1>8. ASSUME VotesChange PROVE Holdings(c)' = Holdings(c)
  BY <1>1, <1>8, HoldingsSame, SameBidsUnchanged DEF VotesChange
<1>9. ASSUME Tick PROVE Holdings(c)' = Holdings(c)
  <2>1. SameBids /\ UNCHANGED <<liquid, refunds>>
    BY <1>9, TickEffect DEF Tick
  <2> QED
    BY <1>1, <2>1, HoldingsSame
<1>10. ASSUME UNCHANGED vars PROVE Holdings(c)' = Holdings(c)
  BY <1>1, <1>10, HoldingsSame, SameBidsUnchanged DEF vars
<1> QED
  BY <1>2, <1>3, <1>4, <1>5, <1>6, <1>7, <1>8, <1>9, <1>10 DEF Next

(***************************************************************************)
(* What b has lost is what it bid for names that are accounts.             *)
(***************************************************************************)
LostFor(b, n, row, names) == IF n \in names THEN OwnFor(b, row) ELSE 0

LEMMA LostTerms ==
  ASSUME TypeOK, NEW b \in Bidders
  PROVE  \A n \in Newnames :
           LostBidOf(b)[n] = LostFor(b, n, bids[n], accounts) /\ LostBidOf(b)[n] \in Nat
BY OwnTerms DEF LostBidOf, LostFor

LEMMA LostTermsPrimed ==
  ASSUME TypeOK', NEW b \in Bidders
  PROVE  \A n \in Newnames :
           LostBidOf(b)'[n] = LostFor(b, n, bids'[n], accounts') /\ LostBidOf(b)'[n] \in Nat
BY OwnTermsPrimed DEF LostBidOf, LostFor

LEMMA LostStays ==
  ASSUME TypeOK, TypeOK', NEW b \in Bidders,
         \A n \in Newnames : LostFor(b, n, bids'[n], accounts') = LostFor(b, n, bids[n], accounts)
  PROVE  Total(LostBidOf(b)', Newnames) = Total(LostBidOf(b), Newnames)
<1>1. \A n \in Newnames : LostBidOf(b)'[n] = LostBidOf(b)[n]
  BY LostTerms, LostTermsPrimed
<1> QED
  BY <1>1, TotalSame

(***************************************************************************)
(* Bids are lost when the system account creates their name, and in no     *)
(* other way; and once lost they neither change nor come back.             *)
(***************************************************************************)
Forfeited(b, n) ==
  /\ NewAccount(Self, n)
  /\ bids[n] # NoBid /\ bids[n].high_bidder = b
  /\ Total(LostBidOf(b)', Newnames) = Total(LostBidOf(b), Newnames) + Size(bids[n].high_bid)

LEMMA LostToSystem ==
  ASSUME TypeOK, TypeOK', NEW n \in Newnames, NewAccount(Self, n), NEW c \in Bidders
  PROVE  \/ Total(LostBidOf(c)', Newnames) = Total(LostBidOf(c), Newnames)
         \/ Forfeited(c, n)
<1>1. n \notin accounts /\ accounts' = accounts \cup {n} /\ bids' = bids
  BY DEF NewAccount
<1> DEFINE f == LostBidOf(c)
           g == LostBidOf(c)'
<1>2. \A m \in Newnames : f[m] \in Nat /\ f[m] = LostFor(c, m, bids[m], accounts)
  BY LostTerms
<1>3. \A m \in Newnames : g[m] \in Nat /\ g[m] = LostFor(c, m, bids'[m], accounts')
  BY LostTermsPrimed
<1> HIDE DEF f, g
<1>4. \A m \in Newnames \ {n} : g[m] = f[m]
  BY <1>1, <1>2, <1>3 DEF LostFor
<1>5. f[n] = 0 /\ g[n] = OwnFor(c, bids[n])
  BY <1>1, <1>2, <1>3 DEF LostFor
<1>6. Total(g, Newnames) = Total(f, Newnames) + g[n] - f[n]
  BY <1>2, <1>3, <1>4, NamesUpdate
<1>7. Total(f, Newnames) \in Nat /\ g[n] \in Nat
  BY <1>2, <1>3, NamesTotalType
<1>8. Total(g, Newnames) = Total(f, Newnames) + OwnFor(c, bids[n])
  BY <1>5, <1>6, <1>7
<1>9. CASE bids[n] # NoBid /\ bids[n].high_bidder = c
  <2>1. OwnFor(c, bids[n]) = Size(bids[n].high_bid)
    BY <1>9 DEF OwnFor
  <2>2. Total(g, Newnames) = Total(f, Newnames) + Size(bids[n].high_bid)
    BY <1>8, <2>1
  <2> QED
    BY <1>9, <2>2 DEF Forfeited, f, g
<1>10. CASE ~(bids[n] # NoBid /\ bids[n].high_bidder = c)
  <2>1. OwnFor(c, bids[n]) = 0
    BY <1>10 DEF OwnFor
  <2>2. Total(g, Newnames) = Total(f, Newnames)
    BY <1>7, <1>8, <2>1
  <2> QED
    BY <2>2 DEF f, g
<1> QED
  BY <1>9, <1>10

LEMMA StepLoses ==
  ASSUME TypeOK, [Next]_vars, NEW c \in Bidders
  PROVE  \/ Total(LostBidOf(c)', Newnames) = Total(LostBidOf(c), Newnames)
         \/ \E n \in Newnames : Forfeited(c, n)
<1> DEFINE Stays == Total(LostBidOf(c)', Newnames) = Total(LostBidOf(c), Newnames)
<1>1. TypeOK'
  BY TypeStep
<1>2. ASSUME SameBids, UNCHANGED accounts PROVE Stays
  <2>1. \A n \in Newnames : LostFor(c, n, bids'[n], accounts') = LostFor(c, n, bids[n], accounts)
    BY <1>2, OwnSame DEF LostFor
  <2> QED
    BY <1>1, <2>1, LostStays
<1>3. ASSUME NEW b \in Bidders, NEW n \in Newnames, NEW bid \in Amounts[n], BidName(b, n, bid) PROVE Stays
  <2>1. \A m \in Newnames \ {n} : bids'[m] = bids[m]
    BY <1>3, BidEffect
  <2>2. n \notin accounts /\ accounts' = accounts
    BY <1>3 DEF BidName
  <2>3. \A m \in Newnames : LostFor(c, m, bids'[m], accounts') = LostFor(c, m, bids[m], accounts)
    BY <2>1, <2>2 DEF LostFor
  <2> QED
    BY <1>1, <2>3, LostStays
<1>4. ASSUME NEW creator \in Bidders, NEW n \in Newnames, NewAccount(creator, n) PROVE Stays
  <2>1. creator # Self
    BY NamesAssumption
  <2>2. n \notin accounts /\ accounts' = accounts \cup {n} /\ \A m \in Newnames \ {n} : bids'[m] = bids[m]
    BY <1>4, ClaimEffect
  <2>3. bids'[n] = NoBid
    BY <1>4, <2>1 DEF NewAccount, TypeOK
  <2>4. \A m \in Newnames : LostFor(c, m, bids'[m], accounts') = LostFor(c, m, bids[m], accounts)
    BY <2>2, <2>3 DEF LostFor, OwnFor
  <2> QED
    BY <1>1, <2>4, LostStays
<1>5. ASSUME NEW n \in Newnames, NewAccount(Self, n) PROVE Stays \/ Forfeited(c, n)
  BY <1>1, <1>5, LostToSystem
<1>6. ASSUME NEW b \in Bidders, NEW n \in Newnames,
             BidRefund(b, n) \/ RunDeferred(n, b) \/ DropDeferred(n, b)
      PROVE  Stays
  <2>1. UNCHANGED <<bids, accounts>>
    BY <1>6 DEF BidRefund, RunDeferred, DropDeferred
  <2> QED
    BY <1>2, <2>1, SameBidsUnchanged
<1>7. ASSUME OnBlock PROVE Stays
  BY <1>2, <1>7, BlockEffect DEF OnBlock
<1>8. ASSUME VotesChange PROVE Stays
  BY <1>2, <1>8, SameBidsUnchanged DEF VotesChange
<1>9. ASSUME Tick PROVE Stays
  BY <1>2, <1>9, TickEffect DEF Tick
<1>10. ASSUME UNCHANGED vars PROVE Stays
  BY <1>2, <1>10, SameBidsUnchanged DEF vars
<1> HIDE DEF Stays
<1>11. Stays \/ \E n \in Newnames : Forfeited(c, n)
  BY <1>3, <1>4, <1>5, <1>6, <1>7, <1>8, <1>9, <1>10 DEF Next
<1> QED
  BY <1>11 DEF Stays

(***************************************************************************)
(* What b is worth moves with its holdings and with what it has lost; no   *)
(* step moves both.                                                        *)
(***************************************************************************)
LEMMA HoldingsType ==
  ASSUME TypeOK, NEW b \in Bidders
  PROVE  Holdings(b) \in Nat
<1>1. liquid[b] \in Nat /\ Total(StandingBidOf(b), Newnames) \in Nat /\ Total(RefundOf(b), Newnames) \in Nat
  BY RowFacts, OwnTerms, NamesTotalType
<1> QED
  BY <1>1 DEF Holdings

LEMMA HoldingsTypePrimed ==
  ASSUME TypeOK', NEW b \in Bidders
  PROVE  Holdings(b)' \in Nat
<1>1. liquid'[b] \in Nat
  BY DEF TypeOK
<1>2. Total(StandingBidOf(b)', Newnames) \in Nat /\ Total(RefundOf(b)', Newnames) \in Nat
  BY OwnTermsPrimed, NamesTotalType
<1> QED
  BY <1>1, <1>2 DEF Holdings

Pays(b, n) ==
  /\ bids[n] # NoBid /\ bids[n].high_bidder = b
  /\ Worth(b)' = Worth(b) - Size(bids[n].high_bid)
  /\ NewAccount(b, n) \/ NewAccount(Self, n)

LEMMA WorthMoves ==
  ASSUME TypeOK, [Next]_vars, NEW c \in Bidders
  PROVE  Worth(c)' = Worth(c) \/ \E n \in Newnames : Pays(c, n)
<1> DEFINE h == Holdings(c)
           k == Holdings(c)'
           f == Total(LostBidOf(c), Newnames)
           g == Total(LostBidOf(c)', Newnames)
<1>1. TypeOK'
  BY TypeStep
<1>2. h \in Nat /\ k \in Nat
  BY <1>1, HoldingsType, HoldingsTypePrimed
<1>3. f \in Nat /\ g \in Nat
  BY <1>1, LostTerms, LostTermsPrimed, NamesTotalType
<1>4. Worth(c) = h - f /\ Worth(c)' = k - g
  BY DEF Worth
<1>5. ASSUME NEW n \in Newnames, Forfeited(c, n) PROVE Pays(c, n)
  <2>1. UNCHANGED <<liquid, refunds, bids>>
    BY <1>5 DEF Forfeited, NewAccount
  <2>2. k = h
    BY <1>1, <2>1, HoldingsSame, SameBidsUnchanged
  <2>3. g = f + Size(bids[n].high_bid) /\ Size(bids[n].high_bid) \in Nat
    BY <1>5, RowFacts, SizeType DEF Forfeited
  <2> HIDE DEF h, k, f, g
  <2>4. Worth(c)' = Worth(c) - Size(bids[n].high_bid)
    BY <1>2, <1>3, <1>4, <2>2, <2>3
  <2> QED
    BY <1>5, <2>4 DEF Forfeited, Pays
<1>6. ASSUME NEW n \in Newnames, Bought(c, n), NewAccount(c, n), g = f PROVE Pays(c, n)
  <2>1. bids[n] # NoBid /\ bids[n].high_bidder = c /\ bids[n].high_bid < 0 /\ bids[n].high_bid \in Int
    BY <1>6, RowFacts DEF Bought, Closed
  <2>2. Size(bids[n].high_bid) = -bids[n].high_bid
    BY <2>1, SizeType
  <2>3. k = h + bids[n].high_bid
    BY <1>6 DEF Bought
  <2>4. g = f
    BY <1>6
  <2> HIDE DEF h, k, f, g
  <2>5. Worth(c)' = Worth(c) - Size(bids[n].high_bid)
    BY <1>2, <1>3, <1>4, <2>1, <2>2, <2>3, <2>4
  <2> QED
    BY <1>6, <2>1, <2>5 DEF Pays
<1>7. CASE g = f
  <2>1. k = h \/ \E n \in Newnames : Bought(c, n) /\ NewAccount(c, n)
    BY StepKeepsHoldings
  <2>2. ASSUME k = h PROVE Worth(c)' = Worth(c)
    BY <1>4, <1>7, <2>2
  <2> QED
    BY <1>6, <1>7, <2>1, <2>2
<1> QED
  BY <1>5, <1>7, StepLoses

(***************************************************************************)
(* What a bidder has in hand, in refunds and in bids that are not lost is  *)
(* spent on the names he won, by the bids that won them, and taken from    *)
(* him when the system account creates a name he bid for, by that bid; in  *)
(* no other way, whatever is bid, outbid, refunded, closed or claimed.     *)
(***************************************************************************)
THEOREM PaysOnlyForNames == Spec => WorthIsKept
<1> DEFINE Kept == \A b \in Bidders : Worth(b)' # Worth(b) =>
                     \E n \in Newnames :
                       /\ bids[n] # NoBid /\ bids[n].high_bidder = b
                       /\ Worth(b)' = Worth(b) - Size(bids[n].high_bid)
                       /\ NewAccount(b, n) \/ NewAccount(Self, n)
<1>1. Inv /\ [Next]_vars => Kept
  BY WorthMoves DEF Inv, Pays
<1>2. WorthIsKept <=> [][Kept]_vars
  BY PTL DEF WorthIsKept
<1> HIDE DEF Kept
<1>3. Inv /\ [Next]_vars => [Kept]_vars
  BY <1>1
<1> QED
  BY <1>2, <1>3, Invariant, PTL DEF Spec

-----------------------------------------------------------------------------
(***************************************************************************)
(* A refund of the pot can be paid.                                        *)
(***************************************************************************)
LEMMA RefundInPot ==
  ASSUME Inv, NEW n \in Newnames, NEW b \in Bidders
  PROVE  refunds[n][b] <= pot
<1> DEFINE S == Total(StandingBid, Newnames)
           R == Total(Refunds, RefundKeys)
           f == Refunds
           k == <<n, b>>
<1>1. TypeOK /\ pot >= S + R
  BY DebtsCovered DEF Inv, Debts
<1>2. S \in Nat /\ R \in Nat /\ pot \in Nat
  BY <1>1, TotalsNatural DEF TypeOK
<1>3. k \in RefundKeys /\ f[k] = refunds[n][b] /\ f[k] \in Nat
  BY <1>1, RefundTerms
<1>4. \A j \in RefundKeys : f[j] \in Nat
  BY <1>1, KeysOf, RefundTerms
<1>5. f[k] <= R
  <2> HIDE DEF f, k
  <2>1. f[k] <= Total(f, RefundKeys)
    BY <1>3, <1>4, KeysFinite, TotalBounds
  <2> QED
    BY <2>1 DEF f
<1> HIDE DEF S, R, f, k
<1> QED
  BY <1>1, <1>2, <1>3, <1>5

(***************************************************************************)
(* What a step may do to the deferred payment of a refund.                 *)
(***************************************************************************)
Scheduled(n, b) ==
  /\ refunds'[n][b] > 0
  /\ <<n, b>> \in deferred \/ refunds'[n][b] # refunds[n][b]
  => <<n, b>> \in deferred' \/ DropDeferred(n, b)

LEMMA BidSchedules ==
  ASSUME TypeOK, NEW b \in Bidders, NEW n \in Newnames, NEW bid \in Amounts[n], BidName(b, n, bid)
  PROVE  \A m \in Newnames, c \in Bidders : Scheduled(m, c)
<1>1. CASE bids[n] = NoBid
  <2>1. UNCHANGED <<refunds, deferred>>
    BY <1>1 DEF BidName
  <2> QED
    BY <2>1 DEF Scheduled
<1>2. CASE bids[n] # NoBid
  <2> DEFINE last == bids[n].high_bidder
  <2>1. /\ \A m \in Newnames, c \in Bidders : (m # n \/ c # last) => refunds'[m][c] = refunds[m][c]
        /\ deferred' = deferred \cup {<<n, last>>}
    BY <1>2, OutbidEffect
  <2> HIDE DEF last
  <2> SUFFICES ASSUME NEW m \in Newnames, NEW c \in Bidders PROVE Scheduled(m, c)
    OBVIOUS
  <2>2. CASE m = n /\ c = last
    BY <2>1, <2>2 DEF Scheduled
  <2>3. CASE m # n \/ c # last
    BY <2>1, <2>3 DEF Scheduled
  <2> QED
    BY <2>2, <2>3
<1> QED
  BY <1>1, <1>2

LEMMA ScheduleStep ==
  ASSUME Inv, [Next]_vars, NEW n \in Newnames, NEW b \in Bidders
  PROVE  Scheduled(n, b)
<1>1. TypeOK
  BY DEF Inv
<1>2. ASSUME UNCHANGED <<refunds, deferred>> PROVE Scheduled(n, b)
  BY <1>2 DEF Scheduled
<1>3. ASSUME NEW a \in Bidders, NEW m \in Newnames, NEW bid \in Amounts[m], BidName(a, m, bid)
      PROVE  Scheduled(n, b)
  BY <1>1, <1>3, BidSchedules
<1>4. ASSUME NEW a \in Bidders, NEW m \in Newnames, Pay(a, m)
      PROVE  refunds'[n][b] > 0 => (n # m \/ b # a) /\ refunds'[n][b] = refunds[n][b]
  <2>1. /\ refunds'[m][a] = 0
        /\ \A j \in Newnames, c \in Bidders : (j # m \/ c # a) => refunds'[j][c] = refunds[j][c]
    <3> TypeOK /\ Pay(a, m)
      BY <1>1, <1>4
    <3> QED
      BY PayEffect
  <2>2. CASE n = m /\ b = a
    <3>1. refunds'[n][b] = 0
      BY <2>1, <2>2
    <3>2. ~(refunds'[n][b] > 0)
      BY <3>1
    <3> QED
      BY <3>2
  <2>3. CASE n # m \/ b # a
    BY <2>1, <2>3
  <2> QED
    BY <2>2, <2>3
<1>5. ASSUME NEW a \in Bidders, NEW m \in Newnames, BidRefund(a, m) PROVE Scheduled(n, b)
  BY <1>4, <1>5 DEF BidRefund, Scheduled
<1>6. ASSUME NEW a \in Bidders, NEW m \in Newnames, RunDeferred(m, a) PROVE Scheduled(n, b)
  <2>1. deferred' = deferred \ {<<m, a>>}
    BY <1>6 DEF RunDeferred
  <2>2. CASE CanPay(a, m)
    <3>1. Pay(a, m)
      BY <1>6, <2>2 DEF RunDeferred
    <3> QED
      BY <1>4, <2>1, <3>1 DEF Scheduled
  <2>3. CASE ~CanPay(a, m)
    <3>1. UNCHANGED refunds
      BY <1>6, <2>3 DEF RunDeferred
    <3>2. refunds[m][a] \in Nat /\ refunds[m][a] <= pot /\ pot \in Nat
      BY <1>1, RowFacts, RefundInPot DEF TypeOK
    <3>3. refunds[m][a] = 0
      BY <2>3, <3>2 DEF CanPay
    <3>4. CASE n = m /\ b = a
      <4>1. refunds'[n][b] = 0
        BY <3>1, <3>3, <3>4
      <4>2. ~(refunds'[n][b] > 0)
        BY <4>1
      <4> QED
        BY <4>2 DEF Scheduled
    <3>5. CASE n # m \/ b # a
      BY <2>1, <3>1, <3>5 DEF Scheduled
    <3> QED
      BY <3>4, <3>5
  <2> QED
    BY <2>2, <2>3
<1>7. ASSUME NEW a \in Bidders, NEW m \in Newnames, DropDeferred(m, a) PROVE Scheduled(n, b)
  <2>1. deferred' = deferred \ {<<m, a>>} /\ UNCHANGED refunds
    BY <1>7 DEF DropDeferred
  <2>2. CASE n = m /\ b = a
    <3>1. DropDeferred(n, b)
      BY <1>7, <2>2
    <3> QED
      BY <3>1 DEF Scheduled
  <2>3. CASE n # m \/ b # a
    BY <2>1, <2>3 DEF Scheduled
  <2> QED
    BY <2>2, <2>3
<1>8. ASSUME NEW creator \in Bidders \cup {Self}, NEW m \in Newnames, NewAccount(creator, m)
      PROVE  Scheduled(n, b)
  BY <1>2, <1>8 DEF NewAccount
<1>9. CASE OnBlock
  BY <1>2, <1>9 DEF OnBlock
<1>10. CASE VotesChange
  BY <1>2, <1>10 DEF VotesChange
<1>11. CASE Tick
  BY <1>2, <1>11 DEF Tick
<1>12. CASE UNCHANGED vars
  BY <1>2, <1>12 DEF vars
<1> QED
  BY <1>3, <1>5, <1>6, <1>7, <1>8, <1>9, <1>10, <1>11, <1>12 DEF Next

(***************************************************************************)
(* A refund keeps its deferred transaction until it is paid: that          *)
(* transaction never fails for want of tokens in names_account, and a bid  *)
(* on any name replaces only the one of the same bidder and name.          *)
(***************************************************************************)
THEOREM RefundsStayScheduled == Spec => RefundIsScheduled
<1> DEFINE All == \A n \in Newnames, b \in Bidders :
                    /\ refunds'[n][b] > 0
                    /\ <<n, b>> \in deferred \/ refunds'[n][b] # refunds[n][b]
                    => <<n, b>> \in deferred' \/ DropDeferred(n, b)
<1>1. Inv /\ [Next]_vars => All
  BY ScheduleStep DEF Scheduled
<1>2. RefundIsScheduled <=> [][All]_vars
  BY PTL DEF RefundIsScheduled
<1> HIDE DEF All
<1>3. Inv /\ [Next]_vars => [All]_vars
  BY <1>1
<1> QED
  BY <1>2, <1>3, Invariant, PTL DEF Spec
-----------------------------------------------------------------------------
(***************************************************************************)
(* Custody's view: what the auctions owe b is what b holds without the     *)
(* tokens in hand.                                                         *)
(***************************************************************************)
LEMMA ClaimIsHeld ==
  ASSUME TypeOK, NEW b \in Bidders
  PROVE  Claim[b] \in Nat /\ liquid[b] \in Nat /\ Holdings(b) = liquid[b] + Claim[b]
<1> DEFINE s == Total(StandingBidOf(b), Newnames)
           r == Total(RefundOf(b), Newnames)
<1>1. s \in Nat /\ r \in Nat
  BY OwnTerms, NamesTotalType
<1>2. Claim[b] = s + r /\ Holdings(b) = liquid[b] + s + r
  BY DEF Claim, Holdings
<1>3. liquid[b] \in Nat
  BY RowFacts
<1> HIDE DEF s, r
<1> QED
  BY <1>1, <1>2, <1>3

LEMMA ClaimIsHeldPrimed ==
  ASSUME TypeOK', NEW b \in Bidders
  PROVE  Claim'[b] \in Nat /\ liquid'[b] \in Nat /\ Holdings(b)' = liquid'[b] + Claim'[b]
<1> DEFINE s == Total(StandingBidOf(b)', Newnames)
           r == Total(RefundOf(b)', Newnames)
<1>1. s \in Nat /\ r \in Nat
  BY OwnTermsPrimed, NamesTotalType
<1>2. Claim'[b] = s + r /\ Holdings(b)' = liquid'[b] + s + r
  BY DEF Claim, Holdings
<1>3. liquid'[b] \in Nat
  BY DEF TypeOK
<1> HIDE DEF s, r
<1> QED
  BY <1>1, <1>2, <1>3

(***************************************************************************)
(* What a bidder's holdings do not tell of his claim, his balance does.    *)
(***************************************************************************)
LEMMA ClaimMoves ==
  ASSUME TypeOK, TypeOK', NEW b \in Bidders, NEW d \in Int,
         Holdings(b)' = Holdings(b), liquid'[b] = liquid[b] + d
  PROVE  Claim'[b] = Claim[b] - d
<1> DEFINE c0 == Claim[b]
           c1 == Claim'[b]
           l0 == liquid[b]
           l1 == liquid'[b]
<1>1. c0 \in Nat /\ l0 \in Nat /\ Holdings(b) = l0 + c0
  BY ClaimIsHeld
<1>2. c1 \in Nat /\ l1 \in Nat /\ Holdings(b)' = l1 + c1
  BY ClaimIsHeldPrimed
<1>3. l1 = l0 + d /\ l1 + c1 = l0 + c0
  BY <1>1, <1>2
<1> HIDE DEF c0, c1, l0, l1
<1>4. c1 = c0 - d
  BY <1>1, <1>2, <1>3
<1> QED
  BY <1>4 DEF c0, c1

LEMMA ClaimStays ==
  ASSUME TypeOK, TypeOK', NEW b \in Bidders, Holdings(b)' = Holdings(b), liquid'[b] = liquid[b]
  PROVE  Claim'[b] = Claim[b]
BY ClaimIsHeld, ClaimIsHeldPrimed

LEMMA ClaimChanges ==
  ASSUME NEW b \in Bidders, NEW x, Claim'[b] = x, \A c \in Bidders \ {b} : Claim'[c] = Claim[c]
  PROVE  Claim' = [Claim EXCEPT ![b] = x]
BY DEF Claim

(***************************************************************************)
(* A bid is a deposit of the bidder's own, a refund paid a withdrawal.     *)
(***************************************************************************)
LEMMA BidDeposits ==
  ASSUME TypeOK, TypeOK', NEW b \in Bidders, NEW n \in Newnames, NEW bid \in Amounts[n], BidName(b, n, bid)
  PROVE  Trust!Next
<1> DEFINE d == 0 - bid
<1>1. /\ liquid'[b] = liquid[b] - bid /\ \A a \in Bidders \ {b} : liquid'[a] = liquid[a]
      /\ bid \in Nat /\ bid > 0 /\ pot' = pot + bid
  BY BidEffect
<1>2. /\ liquid[b] \in Nat /\ Claim[b] \in Nat /\ pot \in Nat
  BY ClaimIsHeld DEF TypeOK
<1>3. d \in Int /\ liquid'[b] = liquid[b] + d /\ Holdings(b)' = Holdings(b)
  BY <1>1, <1>2, HoldingsOfBid
<1>4. Claim'[b] = Claim[b] - d
  <2> HIDE DEF d
  <2> QED
    BY <1>3, ClaimMoves
<1>5. Claim'[b] = Claim[b] + bid
  BY <1>1, <1>2, <1>4
<1>6. \A c \in Bidders \ {b} : Claim'[c] = Claim[c]
  BY <1>1, HoldingsOfBid, ClaimStays
<1>7. Claim' = [Claim EXCEPT ![b] = Claim[b] + bid]
  BY <1>5, <1>6, ClaimChanges
<1>8. liquid[b] >= bid /\ liquid' = [liquid EXCEPT ![b] = liquid[b] - bid]
  BY DEF BidName, Affords
<1>9. pot' - pot = bid
  BY <1>1, <1>2
<1>10. Trust!Deposit(b, b)
  BY <1>1, <1>7, <1>8, <1>9 DEF Trust!Deposit
<1> QED
  BY <1>10 DEF Trust!Next

LEMMA PayWithdraws ==
  ASSUME TypeOK, TypeOK', NEW b \in Bidders, NEW n \in Newnames, Pay(b, n), UNCHANGED bids
  PROVE  Trust!Next
<1> DEFINE x == refunds[n][b]
<1>1. /\ x \in Nat /\ x <= pot /\ pot' = pot - x
      /\ liquid'[b] = liquid[b] + x /\ \A a \in Bidders \ {b} : liquid'[a] = liquid[a]
  BY PayEffect
<1>2. x > 0 /\ liquid' = [liquid EXCEPT ![b] = liquid[b] + x]
  BY DEF Pay, CanPay
<1>3. Claim[b] \in Nat /\ pot \in Nat
  BY ClaimIsHeld DEF TypeOK
<1>4. Holdings(b)' = Holdings(b)
  BY HoldingsOfPay
<1>5. Claim[b] >= x
  <2> DEFINE f == RefundOf(b)
  <2>1. \A m \in Newnames : f[m] \in Nat
    BY OwnTerms
  <2>2. f[n] = x /\ Claim[b] = Total(StandingBidOf(b), Newnames) + Total(f, Newnames)
    BY OwnTerms DEF Claim
  <2>3. Total(StandingBidOf(b), Newnames) \in Nat
    BY OwnTerms, NamesTotalType
  <2> HIDE DEF f, x
  <2>4. f[n] <= Total(f, Newnames) /\ Total(f, Newnames) \in Nat
    BY <2>1, TotalBounds, NamesTotalType
  <2> QED
    BY <1>1, <2>2, <2>3, <2>4
<1> HIDE DEF x
<1>6. Claim'[b] = Claim[b] - x
  <2>1. x \in Int
    BY <1>1
  <2> QED
    BY <1>1, <1>4, <2>1, ClaimMoves
<1>7. \A c \in Bidders \ {b} : Claim'[c] = Claim[c]
  BY <1>1, HoldingsOfPay, ClaimStays
<1>8. Claim' = [Claim EXCEPT ![b] = Claim[b] - x]
  BY <1>6, <1>7, ClaimChanges
<1>9. pot - pot' = x /\ pot >= x
  BY <1>1, <1>3
<1>10. Trust!Withdraw(b)
  BY <1>2, <1>5, <1>8, <1>9 DEF Trust!Withdraw
<1> QED
  BY <1>10 DEF Trust!Next

(***************************************************************************)
(* An account claimed is the winner's bid spent, and nobody else's.        *)
(***************************************************************************)
LEMMA AccountSpends ==
  ASSUME TypeOK, TypeOK', NEW creator \in Bidders \cup {Self}, NEW n \in Newnames, NewAccount(creator, n)
  PROVE  [Trust!Next]_Trust!vars
<1>1. UNCHANGED <<liquid, pot, refunds>>
  BY DEF NewAccount
<1>2. \A c \in Bidders : Holdings(c)' = Holdings(c) => Claim'[c] = Claim[c]
  BY <1>1, ClaimStays
<1>3. CASE \A c \in Bidders : Holdings(c)' = Holdings(c)
  <2>1. Claim' = Claim
    BY <1>2, <1>3 DEF Claim
  <2> QED
    BY <1>1, <2>1 DEF Trust!vars
<1>4. ASSUME NEW c \in Bidders, Holdings(c)' # Holdings(c)
      PROVE  Trust!Next
  <2> DEFINE hb == bids[n].high_bid
  <2>1. Bought(c, n)
    BY <1>4, HoldingsOfClaim
  <2>2. hb \in Int /\ hb < 0 /\ bids[n].high_bidder = c /\ Holdings(c)' = Holdings(c) + hb
    BY <2>1, RowFacts DEF Bought, Closed
  <2>3. \A a \in Bidders \ {c} : Holdings(a)' = Holdings(a)
    BY <2>2, HoldingsOfClaim DEF Bought
  <2> DEFINE k == 0 - hb
  <2>4. /\ Claim[c] \in Nat /\ Claim'[c] \in Nat /\ liquid[c] \in Nat
        /\ Holdings(c) = liquid[c] + Claim[c] /\ Holdings(c)' = liquid[c] + Claim'[c]
    BY <1>1, ClaimIsHeld, ClaimIsHeldPrimed
  <2> HIDE DEF hb
  <2>5. k \in Nat /\ k > 0 /\ Claim'[c] = Claim[c] - k
    BY <2>2, <2>4
  <2> HIDE DEF k
  <2>6. Claim[c] >= k /\ Claim[c] - Claim'[c] = k
    BY <2>4, <2>5
  <2>7. \A a \in Bidders \ {c} : Claim'[a] = Claim[a]
    BY <1>2, <2>3
  <2>8. Claim' = [Claim EXCEPT ![c] = Claim[c] - k]
    BY <2>5, <2>7, ClaimChanges
  <2>9. Trust!Spend(c)
    BY <1>1, <2>5, <2>6, <2>8 DEF Trust!Spend
  <2> QED
    BY <2>9 DEF Trust!Next
<1> QED
  BY <1>3, <1>4

LEMMA QuietTrust ==
  ASSUME TypeOK, TypeOK', UNCHANGED <<liquid, pot, refunds>>, SameBids
  PROVE  UNCHANGED Trust!vars
<1>1. \A c \in Bidders : Claim'[c] = Claim[c]
  BY HoldingsSame, ClaimStays
<1>2. Claim' = Claim
  BY <1>1 DEF Claim
<1> QED
  BY <1>2 DEF Trust!vars

LEMMA InitCustody == Init => Trust!Init
<1> SUFFICES ASSUME Init
             PROVE  Trust!Init
  OBVIOUS
<1>1. ASSUME NEW b \in Bidders
      PROVE  Total(StandingBidOf(b), Newnames) + Total(RefundOf(b), Newnames) = 0
  <2>1. \A n \in Newnames : StandingBidOf(b)[n] = 0 /\ RefundOf(b)[n] = 0
    BY DEF Init, StandingBidOf, RefundOf
  <2>2. Total(StandingBidOf(b), Newnames) = 0
    BY <2>1, TotalZero
  <2>3. Total(RefundOf(b), Newnames) = 0
    BY <2>1, TotalZero
  <2> QED
    BY <2>2, <2>3
<1>2. Claim = [b \in Bidders |-> 0]
  BY <1>1 DEF Claim
<1> QED
  BY <1>2 DEF Init, Trust!Init

LEMMA CustodyStep == Inv /\ [Next]_vars => [Trust!Next]_Trust!vars
<1> SUFFICES ASSUME Inv, [Next]_vars
             PROVE  [Trust!Next]_Trust!vars
  OBVIOUS
<1>1. TypeOK /\ TypeOK'
  BY TypeStep DEF Inv
<1>2. ASSUME NEW b \in Bidders, NEW n \in Newnames, NEW bid \in Amounts[n], BidName(b, n, bid)
      PROVE  Trust!Next
  BY <1>1, <1>2, BidDeposits
<1>3. ASSUME NEW b \in Bidders, NEW n \in Newnames, BidRefund(b, n)
      PROVE  Trust!Next
  BY <1>1, <1>3, PayWithdraws DEF BidRefund
<1>4. ASSUME NEW b \in Bidders, NEW n \in Newnames, RunDeferred(n, b)
      PROVE  [Trust!Next]_Trust!vars
  <2>1. UNCHANGED bids /\ (Pay(b, n) \/ UNCHANGED <<liquid, pot, refunds>>)
    BY <1>4 DEF RunDeferred
  <2>2. CASE Pay(b, n)
    BY <1>1, <2>1, <2>2, PayWithdraws
  <2>3. CASE UNCHANGED <<liquid, pot, refunds>>
    BY <1>1, <2>1, <2>3, QuietTrust, SameBidsUnchanged
  <2> QED
    BY <2>1, <2>2, <2>3
<1>5. ASSUME NEW b \in Bidders, NEW n \in Newnames, DropDeferred(n, b)
      PROVE  [Trust!Next]_Trust!vars
  BY <1>1, <1>5, QuietTrust, SameBidsUnchanged DEF DropDeferred
<1>6. ASSUME NEW creator \in Bidders \cup {Self}, NEW n \in Newnames, NewAccount(creator, n)
      PROVE  [Trust!Next]_Trust!vars
  BY <1>1, <1>6, AccountSpends
<1>7. CASE OnBlock
  <2>1. SameBids /\ UNCHANGED <<liquid, pot, refunds>>
    BY <1>1, <1>7, BlockEffect DEF OnBlock
  <2> QED
    BY <1>1, <2>1, QuietTrust
<1>8. CASE VotesChange
  BY <1>1, <1>8, QuietTrust, SameBidsUnchanged DEF VotesChange
<1>9. CASE Tick
  <2>1. SameBids /\ UNCHANGED <<liquid, pot, refunds>>
    BY <1>1, <1>9, TickEffect DEF Tick
  <2> QED
    BY <1>1, <2>1, QuietTrust
<1>10. CASE UNCHANGED vars
  BY <1>1, <1>10, QuietTrust, SameBidsUnchanged DEF vars
<1> QED
  BY <1>2, <1>3, <1>4, <1>5, <1>6, <1>7, <1>8, <1>9, <1>10 DEF Next

(***************************************************************************)
(* The auctions keep what bidders paid in, bidder by bidder: a refund pays *)
(* only him it is owed to and only what he bid, and only the winner of an  *)
(* auction gives his bid up, for the account.                              *)
(***************************************************************************)
THEOREM KeepsCustody == Spec => IsCustody
<1>1. Spec => Trust!Init /\ [][Trust!Next]_Trust!vars
  BY InitCustody, InitInv, NextInv, CustodyStep, PTL DEF Spec
<1> QED
  BY <1>1 DEF IsCustody, Trust!Spec
=============================================================================
