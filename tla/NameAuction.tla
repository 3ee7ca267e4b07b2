----------------------------- MODULE NameAuction -----------------------------
(***************************************************************************)
(* The auction of short account names in fscio.system: bids, the refunds   *)
(* of those who were outbid, the daily closing of the highest bid in       *)
(* onblock, and newaccount, by which the winner claims the name.           *)
(*                                                                         *)
(* Newnames are the names that have to be bought: top-level names of less  *)
(* than 12 characters, as numbers, the values the chain sorts them by.     *)
(* An action of the contract is one transaction with its inline transfers; *)
(* a bid's refund goes by a deferred transaction of its own.  The clock    *)
(* ticks in fractions of a day and its readings stop where they stop       *)
(* mattering.                                                              *)
(*                                                                         *)
(* A definition whose name ends in _Something is a mutant of the one next  *)
(* to it.                                                                  *)
(***************************************************************************)
EXTENDS Integers, FiniteSets, Totals

CONSTANTS
  Bidders,      \* the accounts that bid
  Newnames,     \* the names on sale
  Self,         \* the system account, fscio
  Endowment,    \* the tokens each bidder starts with
  Amounts,      \* Amounts[n]: what may be bid for n
  Day,          \* a day, in ticks
  Launch,       \* how long the chain must have been activated: 14 days, in ticks
  NoBid,        \* no row in namebids
  Never         \* thresh_activated_stake_time is not set

ASSUME NamesAssumption ==
  IsFiniteSet(Bidders) /\ IsFiniteSet(Newnames) /\ Newnames \subseteq Nat /\ Self \notin Bidders
ASSUME EndowmentAssumption == Endowment \in [Bidders -> Nat] /\ Amounts \in [Newnames -> SUBSET (Nat \ {0})]
ASSUME TimesAssumption     == Day \in Nat /\ Launch \in Nat

NameBid == [high_bidder : Bidders, high_bid : Int, age : 0..(Day + 1)]

ASSUME SentinelAssumption  == NoBid \notin NameBid /\ Never \notin 0..(Launch + 1)

VARIABLES
  liquid,       \* liquid[b]: b's balance of the core token
  pot,          \* the balance of names_account, as far as the auctions filled it
  bids,         \* bids[n]: the namebids row; age is the time since last_bid_time
  refunds,      \* refunds[n][b]: the bidrefunds row of b for n, 0 for no row
  deferred,     \* the pairs <<n, b>> whose deferred bidrefund is scheduled
  accounts,     \* the names of Newnames that are accounts by now
  enough,       \* total_activated_stake >= get_min_activated_stake()
  launched,     \* the time since thresh_activated_stake_time
  closed,       \* the time since last_name_close
  due           \* a minute is over since last_producer_schedule_update

vars == <<liquid, pot, bids, refunds, deferred, accounts, enough, launched, closed, due>>
chain == <<enough, launched, closed, due>>

Open(n)   == bids[n] # NoBid /\ bids[n].high_bid > 0
Closed(n) == bids[n] # NoBid /\ bids[n].high_bid < 0

Init ==
  /\ liquid = Endowment
  /\ pot = 0
  /\ bids = [n \in Newnames |-> NoBid]
  /\ refunds = [n \in Newnames |-> [b \in Bidders |-> 0]]
  /\ deferred = {}
  /\ accounts = {}
  /\ enough = FALSE
  /\ launched = Never
  /\ closed = Day + 1
  /\ due = TRUE

-----------------------------------------------------------------------------
(***************************************************************************)
(* A bid must be more than 10 percent over the last, of somebody else.     *)
(***************************************************************************)
Outbids(bid, current) == bid - current.high_bid > current.high_bid \div 10

(***************************************************************************)
(* The former high bidder gets his bid added to his refund for the name,   *)
(* and its deferred payment is sent anew.                                  *)
(***************************************************************************)
AddRefund_Replaces(n, current) ==
  [refunds EXCEPT ![n] = [refunds[n] EXCEPT ![current.high_bidder] = current.high_bid]]

AddRefund_FirstOnly(n, current) ==
  [refunds EXCEPT ![n] = [refunds[n] EXCEPT ![current.high_bidder] =
                            IF refunds[n][current.high_bidder] = 0
                            THEN current.high_bid ELSE refunds[n][current.high_bidder]]]

AddRefund(n, current) ==
  [refunds EXCEPT ![n] = [refunds[n] EXCEPT ![current.high_bidder] =
                            refunds[n][current.high_bidder] + current.high_bid]]

Notified_OnePerBidder(n, current) ==
  (deferred \ (Newnames \X {current.high_bidder})) \cup {<<n, current.high_bidder>>}

Notified(n, current) == deferred \cup {<<n, current.high_bidder>>}

(***************************************************************************)
(* Whether the inline transfer of the bid goes through.                    *)
(***************************************************************************)
Affords_AnyBalance(b, bid) == liquid[b] > 0

Affords(b, bid) == liquid[b] >= bid

BidName(b, n, bid) ==
  /\ n \notin accounts
  /\ Affords(b, bid)
  /\ liquid' = [liquid EXCEPT ![b] = liquid[b] - bid]
  /\ pot' = pot + bid
  /\ IF bids[n] = NoBid
     THEN UNCHANGED <<refunds, deferred>>
     ELSE /\ Open(n)
          /\ Outbids(bid, bids[n])
          /\ bids[n].high_bidder # b
          /\ refunds' = AddRefund(n, bids[n])
          /\ deferred' = Notified(n, bids[n])
  /\ bids' = [bids EXCEPT ![n] = [high_bidder |-> b, high_bid |-> bid, age |-> 0]]
  /\ UNCHANGED <<accounts, chain>>

(***************************************************************************)
(* bidrefund needs nobody's permission.                                    *)
(***************************************************************************)
CanPay_WhileOpen(b, n) == refunds[n][b] > 0 /\ pot >= refunds[n][b] /\ Open(n)

CanPay(b, n) == refunds[n][b] > 0 /\ pot >= refunds[n][b]

Pay(b, n) ==
  /\ CanPay(b, n)
  /\ liquid' = [liquid EXCEPT ![b] = liquid[b] + refunds[n][b]]
  /\ pot' = pot - refunds[n][b]
  /\ refunds' = [refunds EXCEPT ![n] = [refunds[n] EXCEPT ![b] = 0]]

BidRefund(b, n) ==
  /\ Pay(b, n)
  /\ UNCHANGED <<bids, deferred, accounts, chain>>

(***************************************************************************)
(* The chain runs the deferred bidrefund; when it fails, it is gone all    *)
(* the same.  A chain may also drop it, unrun.                             *)
(***************************************************************************)
RunDeferred(n, b) ==
  /\ <<n, b>> \in deferred
  /\ deferred' = deferred \ {<<n, b>>}
  /\ IF CanPay(b, n) THEN Pay(b, n) ELSE UNCHANGED <<liquid, pot, refunds>>
  /\ UNCHANGED <<bids, accounts, chain>>

DropDeferred(n, b) ==
  /\ <<n, b>> \in deferred
  /\ deferred' = deferred \ {<<n, b>>}
  /\ UNCHANGED <<liquid, pot, bids, refunds, accounts, chain>>

(***************************************************************************)
(* newaccount of a name on sale.  The system account may create any; all   *)
(* others need to have won it, and the row goes with the claim.            *)
(***************************************************************************)
Claims_Open(creator, n) == bids[n] # NoBid /\ bids[n].high_bidder = creator

Claims(creator, n) == Closed(n) /\ bids[n].high_bidder = creator

NewAccount(creator, n) ==
  /\ n \notin accounts
  /\ accounts' = accounts \cup {n}
  /\ IF creator = Self
     THEN UNCHANGED bids
     ELSE /\ Claims(creator, n)
          /\ bids' = [bids EXCEPT ![n] = NoBid]
  /\ UNCHANGED <<liquid, pot, refunds, deferred, chain>>

-----------------------------------------------------------------------------
(***************************************************************************)
(* The first entry of the index highbid from the middle of its range on:   *)
(* the highest of the open bids, and among equals that of the lowest name. *)
(***************************************************************************)
Ahead_AnyState(n, m) ==
  LET size(x) == IF x < 0 THEN -x ELSE x
  IN  size(bids[n].high_bid) > size(bids[m].high_bid)

Ahead(n, m) ==
  /\ bids[n].high_bid > 0
  /\ \/ bids[n].high_bid > bids[m].high_bid
     \/ bids[n].high_bid = bids[m].high_bid /\ n <= m

Highest(n) ==
  /\ bids[n] # NoBid
  /\ \A m \in Newnames \ {n} : bids[m] # NoBid => Ahead(n, m)

Closes(n) ==
  /\ closed > Day
  /\ Highest(n)
  /\ bids[n].high_bid > 0
  /\ bids[n].age > Day
  /\ launched # Never
  /\ launched > Launch

(***************************************************************************)
(* onblock, as far as it concerns the auctions: once a minute it updates   *)
(* the schedule and looks whether an auction is to be closed.              *)
(***************************************************************************)
OnBlock ==
  /\ enough
  /\ due
  /\ due' = FALSE
  /\ \/ \E n \in Newnames :
          /\ Closes(n)
          /\ bids' = [bids EXCEPT ![n] =
                        [high_bidder |-> bids[n].high_bidder, high_bid |-> -bids[n].high_bid,
                         age |-> bids[n].age]]
          /\ closed' = 0
     \/ /\ \A n \in Newnames : ~Closes(n)
        /\ UNCHANGED <<bids, closed>>
  /\ UNCHANGED <<liquid, pot, refunds, deferred, accounts, enough, launched>>

(***************************************************************************)
(* Votes come and go (voteproducer); the first time they suffice is noted. *)
(***************************************************************************)
VotesChange ==
  /\ enough' = ~enough
  /\ launched' = IF launched = Never THEN 0 ELSE launched
  /\ UNCHANGED <<liquid, pot, bids, refunds, deferred, accounts, closed, due>>

Later(t, last) == IF t > last THEN t ELSE t + 1

Tick ==
  /\ due' = TRUE
  /\ closed' = Later(closed, Day)
  /\ launched' = IF launched = Never THEN Never ELSE Later(launched, Launch)
  /\ bids' = [n \in Newnames |->
       IF bids[n] = NoBid THEN NoBid
       ELSE [high_bidder |-> bids[n].high_bidder, high_bid |-> bids[n].high_bid,
             age |-> Later(bids[n].age, Day)]]
  /\ UNCHANGED <<liquid, pot, refunds, deferred, accounts, enough>>

Next ==
  \/ \E b \in Bidders, n \in Newnames : \E bid \in Amounts[n] : BidName(b, n, bid)
  \/ \E b \in Bidders, n \in Newnames : BidRefund(b, n)
  \/ \E b \in Bidders, n \in Newnames : RunDeferred(n, b)
  \/ \E b \in Bidders, n \in Newnames : DropDeferred(n, b)
  \/ \E creator \in Bidders \cup {Self}, n \in Newnames : NewAccount(creator, n)
  \/ OnBlock
  \/ VotesChange
  \/ Tick

Spec == Init /\ [][Next]_vars

(***************************************************************************)
(* Time passes and blocks come, and those who were outbid, or anybody      *)
(* else, ask for their refund.                                             *)
(***************************************************************************)
FairSpec ==
  /\ Spec
  /\ WF_vars(Tick)
  /\ WF_vars(OnBlock)
  /\ \A b \in Bidders, n \in Newnames : WF_vars(BidRefund(b, n))

-----------------------------------------------------------------------------
(***************************************************************************)
(* What b has in standing bids, won ones included, and in refunds.         *)
(***************************************************************************)
Size(x) == IF x < 0 THEN -x ELSE x

StandingBid == [n \in Newnames |-> IF bids[n] = NoBid THEN 0 ELSE Size(bids[n].high_bid)]

StandingBidOf(b) ==
  [n \in Newnames |-> IF bids[n] # NoBid /\ bids[n].high_bidder = b THEN Size(bids[n].high_bid) ELSE 0]

RefundOf(b) == [n \in Newnames |-> refunds[n][b]]

Refunds == [p \in Newnames \X Bidders |-> refunds[p[1]][p[2]]]

(***************************************************************************)
(* A bid on a name that is an account is lost: the row stays, nobody can   *)
(* outbid it, and whoever wins the auction has nothing left to create.     *)
(***************************************************************************)
LostBidOf(b) == [n \in Newnames |-> IF n \in accounts THEN StandingBidOf(b)[n] ELSE 0]

Holdings(b) == liquid[b] + Total(StandingBidOf(b), Newnames) + Total(RefundOf(b), Newnames)

Worth(b) == Holdings(b) - Total(LostBidOf(b), Newnames)

(***************************************************************************)
(* The tables hold what their types say; nothing is ever negative but the  *)
(* bid of a closed auction.                                                *)
(***************************************************************************)
TypeOK ==
  /\ liquid \in [Bidders -> Nat] /\ pot \in Nat
  /\ bids \in [Newnames -> NameBid \cup {NoBid}]
  /\ \A n \in Newnames : bids[n] # NoBid => bids[n].high_bid # 0
  /\ refunds \in [Newnames -> [Bidders -> Nat]]
  /\ deferred \subseteq Newnames \X Bidders
  /\ accounts \subseteq Newnames
  /\ enough \in BOOLEAN /\ due \in BOOLEAN
  /\ launched \in 0..(Launch + 1) \cup {Never}
  /\ closed \in 0..(Day + 1)

(***************************************************************************)
(* names_account holds every standing bid and every refund that is owed:   *)
(* whoever was outbid can be paid, whatever was bid, closed, claimed and   *)
(* refunded before.                                                        *)
(***************************************************************************)
DebtsAreCovered == pot >= Total(StandingBid, Newnames) + Total(Refunds, Newnames \X Bidders)

(***************************************************************************)
(* What a bidder has in hand, in refunds and in bids that are not lost     *)
(* changes in two ways only, both by the one bid that stands for a name.   *)
(* He creates the name that bid has won: then he paid for it.  Or the      *)
(* system account creates the name, while the auction runs or after it:    *)
(* then he paid for nothing, and gets neither the name nor the bid back.   *)
(***************************************************************************)
WorthIsKept ==
  [][\A b \in Bidders : Worth(b)' # Worth(b) =>
       \E n \in Newnames :
         /\ bids[n] # NoBid /\ bids[n].high_bidder = b
         /\ Worth(b)' = Worth(b) - Size(bids[n].high_bid)
         /\ NewAccount(b, n) \/ NewAccount(Self, n)]_vars

(***************************************************************************)
(* The auctions are custody, bidder by bidder: names_account owes each his *)
(* standing bids and his refunds, and being outbid, by whomever and on     *)
(* however many names, turns the one into the other and takes nothing from *)
(* him.  Only the winner of an auction gives his claim up.  A claim may be *)
(* one that he can never use: see WorthIsKept.                             *)
(***************************************************************************)
Claim == [b \in Bidders |-> Total(StandingBidOf(b), Newnames) + Total(RefundOf(b), Newnames)]

Trust == INSTANCE Custody WITH
  Owners <- Bidders, Spenders <- Bidders, hand <- liquid, owed <- Claim, vault <- pot

IsCustody == Trust!Spec

(***************************************************************************)
(* The deferred payment of a refund is there when the refund comes to be   *)
(* or grows, and stays until it is paid or the chain drops it: whatever    *)
(* else is bid, on this name or another, it is replaced and never lost.    *)
(***************************************************************************)
RefundIsScheduled ==
  [][\A n \in Newnames, b \in Bidders :
       /\ refunds'[n][b] > 0
       /\ <<n, b>> \in deferred \/ refunds'[n][b] # refunds[n][b]
       => <<n, b>> \in deferred' \/ DropDeferred(n, b)]_vars

(***************************************************************************)
(* Who was outbid is paid at last.                                         *)
(***************************************************************************)
OutbidArePaid ==
  \A n \in Newnames, b \in Bidders : refunds[n][b] > 0 ~> refunds[n][b] = 0

(***************************************************************************)
(* If the votes of the chain suffice for good, every auction closes at     *)
(* last: an auction waits for those with higher bids, one a day, and for   *)
(* its bidders to have had enough.                                         *)
(***************************************************************************)
AuctionsClose ==
  <>[]enough => \A n \in Newnames : Open(n) ~> ~Open(n)
=============================================================================
