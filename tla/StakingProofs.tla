---------------------------- MODULE StakingProofs ----------------------------
(***************************************************************************)
(* The staking tables agree with one another, and with the balance of the  *)
(* stake account, for every set of accounts, every endowment and every     *)
(* delay.                                                                  *)
(***************************************************************************)
EXTENDS Staking, TotalProofs

(***************************************************************************)
(* Weights are in rows, so that setalimits, which asks for no row, finds   *)
(* no stake.                                                               *)
(***************************************************************************)
WeightsHaveRows == \A r \in Accounts \ rows : res_net[r] = 0 /\ res_cpu[r] = 0

LimitsInv == LimitsFollowStake /\ WeightsHaveRows

(***************************************************************************)
(* The inductive invariant.  The sums can only be compared under the       *)
(* types; that they are natural numbers after a step comes from the guards *)
(* of changebw, refund and voteproducer.                                   *)
(***************************************************************************)
Inv ==
  /\ TypeOK
  /\ StakesAreBacked
  /\ ReceiverTotals
  /\ StakeBacksVotes
  /\ LimitsInv
  /\ AirdropIsRecorded

USE AccountsAssumption, EndowmentAssumption, BoundsAssumption, SentinelAssumption

-----------------------------------------------------------------------------
(***************************************************************************)
(* Sets of delegations are finite, so that they have totals.               *)
(***************************************************************************)
LEMMA PairsFinite ==
  ASSUME NEW S \in SUBSET Pairs
  PROVE  IsFiniteSet(S)
<1>1. IsFiniteSet(Pairs)
  BY FS_Product DEF Pairs
<1> QED
  BY <1>1, FS_Subset

(***************************************************************************)
(* What a change of one delegation does to the total over a set of them.   *)
(***************************************************************************)
LEMMA PairUpdate ==
  ASSUME NEW S \in SUBSET Pairs, NEW f \in [Pairs -> Nat], NEW g \in [Pairs -> Nat],
         NEW p \in Pairs, NEW d \in Int, g[p] = f[p] + d,
         \A q \in Pairs \ {p} : g[q] = f[q]
  PROVE  /\ Total(f, S) \in Nat
         /\ p \in S => Total(g, S) = Total(f, S) + d
         /\ p \notin S => Total(g, S) = Total(f, S)
<1>1. IsFiniteSet(S)
  BY PairsFinite
<1>2. \A q \in S : f[q] \in Nat /\ g[q] \in Nat
  OBVIOUS
<1>3. \A q \in S \ {p} : g[q] = f[q]
  OBVIOUS
<1> QED
  BY <1>1, <1>2, <1>3, TotalType, TotalChange

(***************************************************************************)
(* The same for a total over the accounts, of which one changes.           *)
(***************************************************************************)
LEMMA AccountUpdate ==
  ASSUME NEW f \in [Accounts -> Nat], NEW g \in [Accounts -> Nat], NEW a \in Accounts,
         \A b \in Accounts \ {a} : g[b] = f[b]
  PROVE  /\ Total(f, Accounts) \in Nat
         /\ Total(g, Accounts) = Total(f, Accounts) + g[a] - f[a]
<1>1. \A b \in Accounts : f[b] \in Nat /\ g[b] \in Nat
  OBVIOUS
<1> QED
  BY <1>1, TotalType, TotalUpdate

-----------------------------------------------------------------------------
(***************************************************************************)
(* The parts of changebw.  A refund request has at most two parts and none *)
(* is negative.                                                            *)
(***************************************************************************)
LEMMA RefundOfType ==
  ASSUME TypeOK, NEW a \in Accounts
  PROVE  RefundOf(a, "net") \in Nat /\ RefundOf(a, "cpu") \in Nat
BY DEF TypeOK, RefundOf, Refund

(***************************************************************************)
(* What the request of from holds after changebw, and what is paid in: the *)
(* stake is covered by the one or the other.                               *)
(***************************************************************************)
LEMMA RequestEffect ==
  ASSUME TypeOK, NEW from \in Accounts, NEW dnet \in Int, NEW dcpu \in Int,
         \/ dnet >= 0 /\ dcpu >= 0
         \/ dnet <= 0 /\ dcpu <= 0
  PROVE  LET req == RequestAfter(from, dnet, dcpu)
             net == Positive(RefundOf(from, "net") - dnet)
             cpu == Positive(RefundOf(from, "cpu") - dcpu)
         IN  /\ req \in Refund \cup {NoRefund}
             /\ net \in Nat /\ cpu \in Nat
             /\ req = NoRefund <=> net = 0 /\ cpu = 0
             /\ req # NoRefund => req.net = net /\ req.cpu = cpu
             /\ req # NoRefund /\ (dnet < 0 \/ dcpu < 0) => req.wait = RefundDelay
<1> DEFINE net == Positive(RefundOf(from, "net") - dnet)
           cpu == Positive(RefundOf(from, "cpu") - dcpu)
           time == IF dnet < 0 \/ dcpu < 0 THEN RefundDelay ELSE refunds[from].wait
           req == [net |-> net, cpu |-> cpu, wait |-> time]
<1>1. net \in Nat /\ cpu \in Nat
  BY RefundOfType DEF Positive
<1>2. CASE net = 0 /\ cpu = 0
  <2>1. RequestAfter(from, dnet, dcpu) = NoRefund
    BY <1>2 DEF RequestAfter
  <2> QED
    BY <1>1, <1>2, <2>1
<1>3. CASE ~(net = 0 /\ cpu = 0)
  <2>1. RequestAfter(from, dnet, dcpu) = req
    BY <1>3 DEF RequestAfter
  <2>2. ~(dnet < 0 \/ dcpu < 0) => refunds[from] # NoRefund
    BY <1>3 DEF RefundOf, Positive
  <2>3. time \in 0..RefundDelay
    BY <2>2 DEF TypeOK, Refund
  <2>4. req \in Refund
    BY <1>1, <2>3 DEF Refund
  <2>5. req # NoRefund
    BY <2>4
  <2> QED
    BY <1>1, <1>3, <2>1, <2>4, <2>5
<1> QED
  BY <1>2, <1>3

(***************************************************************************)
(* When one request changes, the totals of the refunds change by as much.  *)
(***************************************************************************)
LEMMA RefundTotals ==
  ASSUME TypeOK, NEW owner \in Accounts,
         refunds' \in [Accounts -> Refund \cup {NoRefund}],
         \A a \in Accounts \ {owner} : refunds'[a] = refunds[a]
  PROVE  /\ Total(RefundNet, Accounts) \in Nat /\ Total(RefundCpu, Accounts) \in Nat
         /\ RefundOf(owner, "net") \in Nat /\ RefundOf(owner, "net")' \in Nat
         /\ RefundOf(owner, "cpu") \in Nat /\ RefundOf(owner, "cpu")' \in Nat
         /\ Total(RefundNet, Accounts)' = Total(RefundNet, Accounts)
                                            + RefundOf(owner, "net")' - RefundOf(owner, "net")
         /\ Total(RefundCpu, Accounts)' = Total(RefundCpu, Accounts)
                                            + RefundOf(owner, "cpu")' - RefundOf(owner, "cpu")
<1>1. \A a \in Accounts : /\ RefundOf(a, "net") \in Nat /\ RefundOf(a, "net")' \in Nat
                          /\ RefundOf(a, "cpu") \in Nat /\ RefundOf(a, "cpu")' \in Nat
  BY DEF TypeOK, RefundOf, Refund
<1>2. \A a \in Accounts \ {owner} : /\ RefundOf(a, "net")' = RefundOf(a, "net")
                                    /\ RefundOf(a, "cpu")' = RefundOf(a, "cpu")
  BY DEF RefundOf
<1>3. /\ RefundNet \in [Accounts -> Nat] /\ RefundNet' \in [Accounts -> Nat]
      /\ RefundNet[owner] = RefundOf(owner, "net") /\ RefundNet'[owner] = RefundOf(owner, "net")'
      /\ \A a \in Accounts \ {owner} : RefundNet'[a] = RefundNet[a]
  BY <1>1, <1>2 DEF RefundNet
<1>4. /\ RefundCpu \in [Accounts -> Nat] /\ RefundCpu' \in [Accounts -> Nat]
      /\ RefundCpu[owner] = RefundOf(owner, "cpu") /\ RefundCpu'[owner] = RefundOf(owner, "cpu")'
      /\ \A a \in Accounts \ {owner} : RefundCpu'[a] = RefundCpu[a]
  BY <1>1, <1>2 DEF RefundCpu
<1>5. /\ Total(RefundNet, Accounts) \in Nat
      /\ Total(RefundNet', Accounts) = Total(RefundNet, Accounts) + RefundNet'[owner] - RefundNet[owner]
  BY <1>3, AccountUpdate
<1>6. /\ Total(RefundCpu, Accounts) \in Nat
      /\ Total(RefundCpu', Accounts) = Total(RefundCpu, Accounts) + RefundCpu'[owner] - RefundCpu[owner]
  BY <1>4, AccountUpdate
<1> QED
  BY <1>1, <1>3, <1>4, <1>5, <1>6

(***************************************************************************)
(* What changebw takes from the request and what it pays in make up the    *)
(* stake; the request and the deferred transaction keep their types.       *)
(***************************************************************************)
LEMMA PaidOrRefunded ==
  ASSUME TypeOK, NEW from \in Accounts, NEW receiver \in Accounts, NEW transfer \in BOOLEAN,
         NEW dnet \in Int, NEW dcpu \in Int,
         \/ dnet >= 0 /\ dcpu >= 0
         \/ dnet <= 0 /\ dcpu <= 0,
         RefundRequest(from, receiver, dnet, dcpu, transfer)
  PROVE  /\ PaidIn(from, receiver, dnet, dcpu, transfer) \in Nat
         /\ refunds' \in [Accounts -> Refund \cup {NoRefund}]
         /\ \A a \in Accounts : refunds'[a] # NoRefund => refunds'[a].net + refunds'[a].cpu > 0
         /\ deferred' \in [Accounts -> 0..RefundDelay \cup {NoTrx}]
         /\ \A a \in Accounts \ {from} : refunds'[a] = refunds[a]
         /\ PaidIn(from, receiver, dnet, dcpu, transfer)
              = dnet + dcpu + (RefundOf(from, "net")' - RefundOf(from, "net"))
                            + (RefundOf(from, "cpu")' - RefundOf(from, "cpu"))
<1> DEFINE req == RequestAfter(from, dnet, dcpu)
           net == RefundOf(from, "net")
           cpu == RefundOf(from, "cpu")
           uses == UsesRefund(from, receiver, dnet, dcpu, transfer)
           paid == PaidIn(from, receiver, dnet, dcpu, transfer)
<1>1. net \in Nat /\ cpu \in Nat
  BY RefundOfType
<1>2. CASE uses
  <2>1. /\ req \in Refund \cup {NoRefund}
        /\ Positive(net - dnet) \in Nat /\ Positive(cpu - dcpu) \in Nat
        /\ req = NoRefund <=> Positive(net - dnet) = 0 /\ Positive(cpu - dcpu) = 0
        /\ req # NoRefund => req.net = Positive(net - dnet) /\ req.cpu = Positive(cpu - dcpu)
    BY RequestEffect
  <2>2. /\ refunds' = [refunds EXCEPT ![from] = req]
        /\ deferred' = [deferred EXCEPT ![from] = IF req = NoRefund THEN NoTrx ELSE RefundDelay]
    BY <1>2 DEF RefundRequest
  <2>3. paid = Positive(dnet - net) + Positive(dcpu - cpu)
    BY <1>2 DEF PaidIn
  <2> HIDE DEF req, net, cpu, uses, paid
  <2>4. refunds' \in [Accounts -> Refund \cup {NoRefund}] /\ refunds'[from] = req
    BY <2>1, <2>2 DEF TypeOK
  <2>5. RefundOf(from, "net")' = Positive(net - dnet) /\ RefundOf(from, "cpu")' = Positive(cpu - dcpu)
    BY <2>1, <2>4 DEF RefundOf
  <2>6. deferred' \in [Accounts -> 0..RefundDelay \cup {NoTrx}]
    BY <2>2 DEF TypeOK
  <2>7. \A a \in Accounts \ {from} : refunds'[a] = refunds[a]
    BY <2>2 DEF TypeOK
  <2>8. req # NoRefund => req.net + req.cpu > 0
    BY <2>1
  <2>9. \A a \in Accounts : refunds'[a] # NoRefund => refunds'[a].net + refunds'[a].cpu > 0
    BY <2>4, <2>7, <2>8 DEF TypeOK
  <2>10. /\ paid \in Nat
         /\ paid = dnet + dcpu + (Positive(net - dnet) - net) + (Positive(cpu - dcpu) - cpu)
    BY <1>1, <2>3 DEF Positive
  <2> QED
    BY <2>4, <2>5, <2>6, <2>7, <2>9, <2>10 DEF net, cpu, paid
<1>3. CASE ~uses
  <2>1. refunds' = refunds /\ deferred' = [deferred EXCEPT ![from] = NoTrx]
    BY <1>3 DEF RefundRequest
  <2>2. paid = dnet + dcpu /\ paid \in Nat
    BY <1>3 DEF PaidIn, UsesRefund
  <2>3. RefundOf(from, "net")' = net /\ RefundOf(from, "cpu")' = cpu
    BY <2>1 DEF RefundOf
  <2> HIDE DEF net, cpu, uses, paid
  <2>4. /\ refunds' \in [Accounts -> Refund \cup {NoRefund}]
        /\ \A a \in Accounts : refunds'[a] # NoRefund => refunds'[a].net + refunds'[a].cpu > 0
        /\ deferred' \in [Accounts -> 0..RefundDelay \cup {NoTrx}]
        /\ \A a \in Accounts \ {from} : refunds'[a] = refunds[a]
    BY <2>1 DEF TypeOK
  <2> QED
    BY <1>1, <2>2, <2>3, <2>4 DEF net, cpu, paid
<1> QED
  BY <1>2, <1>3

(***************************************************************************)
(* The three sums over the delegations, when those of from to receiver and *)
(* the totals of receiver change together.                                 *)
(***************************************************************************)
LEMMA DelegationSums ==
  ASSUME Inv, NEW from \in Accounts, NEW receiver \in Accounts,
         NEW dnet \in Int, NEW dcpu \in Int,
         UpdateDelegation(from, receiver, dnet, dcpu),
         UpdateTotals(receiver, dnet, dcpu)
  PROVE  /\ del_net' \in [Pairs -> Nat] /\ del_cpu' \in [Pairs -> Nat]
         /\ res_net' \in [Accounts -> Nat] /\ res_cpu' \in [Accounts -> Nat]
         /\ ReceiverTotals'
         /\ Delegated(Pairs) \in Nat
         /\ Delegated(Pairs)' = Delegated(Pairs) + dnet + dcpu
         /\ \A f \in Accounts : Delegated({f} \X Accounts) \in Nat
         /\ Delegated({from} \X Accounts)' = Delegated({from} \X Accounts) + dnet + dcpu
         /\ \A f \in Accounts \ {from} :
              Delegated({f} \X Accounts)' = Delegated({f} \X Accounts)
<1> DEFINE p == <<from, receiver>>
<1>1. p \in Pairs
  BY DEF Pairs
<1>2. /\ del_net \in [Pairs -> Nat] /\ del_cpu \in [Pairs -> Nat]
      /\ res_net \in [Accounts -> Nat] /\ res_cpu \in [Accounts -> Nat]
  BY DEF Inv, TypeOK
<1>3. /\ del_net' \in [Pairs -> Nat] /\ del_net'[p] = del_net[p] + dnet
      /\ \A q \in Pairs \ {p} : del_net'[q] = del_net[q]
  <2>1. del_net[p] + dnet >= 0 /\ del_net' = [del_net EXCEPT ![p] = del_net[p] + dnet]
    BY DEF UpdateDelegation
  <2> HIDE DEF p
  <2> QED
    BY <1>1, <1>2, <2>1
<1>4. /\ del_cpu' \in [Pairs -> Nat] /\ del_cpu'[p] = del_cpu[p] + dcpu
      /\ \A q \in Pairs \ {p} : del_cpu'[q] = del_cpu[q]
  <2>1. del_cpu[p] + dcpu >= 0 /\ del_cpu' = [del_cpu EXCEPT ![p] = del_cpu[p] + dcpu]
    BY DEF UpdateDelegation
  <2> HIDE DEF p
  <2> QED
    BY <1>1, <1>2, <2>1
<1>5. /\ res_net' \in [Accounts -> Nat] /\ res_net'[receiver] = res_net[receiver] + dnet
      /\ \A r \in Accounts \ {receiver} : res_net'[r] = res_net[r]
  BY <1>2 DEF UpdateTotals
<1>6. /\ res_cpu' \in [Accounts -> Nat] /\ res_cpu'[receiver] = res_cpu[receiver] + dcpu
      /\ \A r \in Accounts \ {receiver} : res_cpu'[r] = res_cpu[r]
  BY <1>2 DEF UpdateTotals
<1> HIDE DEF p
<1>7. \A S \in SUBSET Pairs :
        /\ Total(del_net, S) \in Nat /\ Total(del_cpu, S) \in Nat
        /\ p \in S => /\ Total(del_net', S) = Total(del_net, S) + dnet
                      /\ Total(del_cpu', S) = Total(del_cpu, S) + dcpu
        /\ p \notin S => /\ Total(del_net', S) = Total(del_net, S)
                         /\ Total(del_cpu', S) = Total(del_cpu, S)
  <2> SUFFICES ASSUME NEW S \in SUBSET Pairs
               PROVE  /\ Total(del_net, S) \in Nat /\ Total(del_cpu, S) \in Nat
                      /\ p \in S => /\ Total(del_net', S) = Total(del_net, S) + dnet
                                    /\ Total(del_cpu', S) = Total(del_cpu, S) + dcpu
                      /\ p \notin S => /\ Total(del_net', S) = Total(del_net, S)
                                       /\ Total(del_cpu', S) = Total(del_cpu, S)
    OBVIOUS
  <2>1. /\ Total(del_net, S) \in Nat
        /\ p \in S => Total(del_net', S) = Total(del_net, S) + dnet
        /\ p \notin S => Total(del_net', S) = Total(del_net, S)
    BY <1>1, <1>2, <1>3, PairUpdate
  <2>2. /\ Total(del_cpu, S) \in Nat
        /\ p \in S => Total(del_cpu', S) = Total(del_cpu, S) + dcpu
        /\ p \notin S => Total(del_cpu', S) = Total(del_cpu, S)
    BY <1>1, <1>2, <1>4, PairUpdate
  <2> QED
    BY <2>1, <2>2
<1>8. ReceiverTotals'
  <2> SUFFICES ASSUME NEW r \in Accounts
               PROVE  /\ res_net'[r] = Total(del_net', Accounts \X {r})
                      /\ res_cpu'[r] = Total(del_cpu', Accounts \X {r})
    BY DEF ReceiverTotals
  <2>1. Accounts \X {r} \in SUBSET Pairs
    BY DEF Pairs
  <2>2. p \in Accounts \X {r} <=> r = receiver
    BY DEF p
  <2>3. res_net[r] = Total(del_net, Accounts \X {r}) /\ res_cpu[r] = Total(del_cpu, Accounts \X {r})
    BY DEF Inv, ReceiverTotals
  <2> QED
    BY <1>5, <1>6, <1>7, <2>1, <2>2, <2>3
<1>9. Delegated(Pairs) \in Nat /\ Delegated(Pairs)' = Delegated(Pairs) + dnet + dcpu
  BY <1>1, <1>7 DEF Delegated
<1>10. ASSUME NEW f \in Accounts
       PROVE  /\ Delegated({f} \X Accounts) \in Nat
              /\ f = from => Delegated({f} \X Accounts)' = Delegated({f} \X Accounts) + dnet + dcpu
              /\ f # from => Delegated({f} \X Accounts)' = Delegated({f} \X Accounts)
  <2>1. {f} \X Accounts \in SUBSET Pairs
    BY DEF Pairs
  <2>2. p \in {f} \X Accounts <=> f = from
    BY DEF p
  <2> QED
    BY <1>7, <2>1, <2>2 DEF Delegated
<1> QED
  BY <1>3, <1>4, <1>5, <1>6, <1>8, <1>9, <1>10

(***************************************************************************)
(* A step that leaves the drops and the delegations alone, and what        *)
(* fscio.resad has of its own, leaves the drops on record.                 *)
(***************************************************************************)
LEMMA RecordsStay ==
  ASSUME AirdropIsRecorded, Resad \in Accounts => Kept' = Kept,
         airdrop' = airdrop, del_net' = del_net, del_cpu' = del_cpu
  PROVE  AirdropIsRecorded'
BY DEF AirdropIsRecorded, DropNet, DropCpu, Others

(***************************************************************************)
(* No more is paid in than is staked.                                      *)
(***************************************************************************)
LEMMA PaidAtMost ==
  ASSUME TypeOK, NEW from \in Accounts, NEW receiver \in Accounts, NEW transfer \in BOOLEAN,
         NEW dnet \in Int, NEW dcpu \in Int
  PROVE  PaidIn(from, receiver, dnet, dcpu, transfer) <= Positive(dnet) + Positive(dcpu)
<1> DEFINE net == RefundOf(from, "net")
           cpu == RefundOf(from, "cpu")
<1>1. net \in Nat /\ cpu \in Nat
  BY RefundOfType
<1> HIDE DEF net, cpu
<1>2. /\ Positive(dnet - net) \in Nat /\ Positive(dnet - net) <= Positive(dnet) /\ dnet <= Positive(dnet)
      /\ Positive(dcpu - cpu) \in Nat /\ Positive(dcpu - cpu) <= Positive(dcpu) /\ dcpu <= Positive(dcpu)
      /\ Positive(dnet) \in Nat /\ Positive(dcpu) \in Nat
  BY <1>1 DEF Positive
<1>3. \/ PaidIn(from, receiver, dnet, dcpu, transfer) = Positive(dnet - net) + Positive(dcpu - cpu)
      \/ PaidIn(from, receiver, dnet, dcpu, transfer) = dnet + dcpu
  BY DEF PaidIn, net, cpu
<1> QED
  BY <1>2, <1>3

(***************************************************************************)
(* What a drop adds to the records, and to their totals.                   *)
(***************************************************************************)
LEMMA DropsAdd ==
  ASSUME TypeOK, NEW source \in Accounts, NEW receiver \in Accounts, NEW dnet \in Int, NEW dcpu \in Int,
         AirDrop(source, receiver, dnet, dcpu)
  PROVE  /\ airdrop' \in [Accounts -> Drop]
         /\ \A r \in Accounts \ {receiver} : airdrop'[r] = airdrop[r]
         /\ source # Resad => airdrop' = airdrop
         /\ source = Resad =>
              /\ airdrop'[receiver].net = airdrop[receiver].net + Positive(dnet)
              /\ airdrop'[receiver].cpu = airdrop[receiver].cpu + Positive(dcpu)
              /\ dnet > 0 => airdrop[receiver].net = 0
              /\ dcpu > 0 => airdrop[receiver].cpu = 0
<1>1. airdrop \in [Accounts -> Drop]
  BY DEF TypeOK
<1>2. CASE source # Resad
  BY <1>1, <1>2 DEF AirDrop
<1>3. CASE source = Resad
  <2> DEFINE net == Recorded(airdrop[receiver].net, dnet)
             cpu == Recorded(airdrop[receiver].cpu, dcpu)
  <2>1. airdrop' = [airdrop EXCEPT ![receiver] = [net |-> net, cpu |-> cpu]]
    BY <1>3 DEF AirDrop
  <2>2. /\ dnet > 0 => airdrop[receiver].net = 0
        /\ dcpu > 0 => airdrop[receiver].cpu = 0
    BY <1>3 DEF AirDrop, DropFits
  <2>3. airdrop[receiver].net \in Nat /\ airdrop[receiver].cpu \in Nat
    BY <1>1 DEF Drop
  <2>4. /\ net = airdrop[receiver].net + Positive(dnet) /\ net \in Nat
        /\ cpu = airdrop[receiver].cpu + Positive(dcpu) /\ cpu \in Nat
    BY <2>2, <2>3 DEF Recorded, Positive
  <2> HIDE DEF net, cpu
  <2>5. [net |-> net, cpu |-> cpu] \in Drop
    BY <2>4 DEF Drop
  <2> QED
    BY <1>1, <1>3, <2>1, <2>2, <2>4, <2>5
<1> QED
  BY <1>2, <1>3

LEMMA DropTotals ==
  ASSUME TypeOK, NEW source \in Accounts, NEW receiver \in Accounts, NEW dnet \in Int, NEW dcpu \in Int,
         AirDrop(source, receiver, dnet, dcpu)
  PROVE  /\ Total(DropNet, Others) \in Nat /\ Total(DropCpu, Others) \in Nat
         /\ Total(DropNet, Others)' = Total(DropNet, Others)
                + (IF source = Resad /\ receiver # Resad THEN Positive(dnet) ELSE 0)
         /\ Total(DropCpu, Others)' = Total(DropCpu, Others)
                + (IF source = Resad /\ receiver # Resad THEN Positive(dcpu) ELSE 0)
<1> DEFINE n == IF source = Resad THEN Positive(dnet) ELSE 0
           c == IF source = Resad THEN Positive(dcpu) ELSE 0
<1>1. /\ airdrop' \in [Accounts -> Drop] /\ airdrop \in [Accounts -> Drop]
      /\ \A r \in Accounts \ {receiver} : airdrop'[r] = airdrop[r]
      /\ source # Resad => airdrop' = airdrop
      /\ source = Resad =>
           /\ airdrop'[receiver].net = airdrop[receiver].net + Positive(dnet)
           /\ airdrop'[receiver].cpu = airdrop[receiver].cpu + Positive(dcpu)
  BY DropsAdd DEF TypeOK
<1>2. IsFiniteSet(Others)
  BY FS_Subset DEF Others
<1>3. n \in Int /\ c \in Int
  BY DEF Positive
<1>4. \A r \in Accounts : /\ airdrop[r].net \in Nat /\ airdrop'[r].net \in Nat
                          /\ airdrop[r].cpu \in Nat /\ airdrop'[r].cpu \in Nat
  BY <1>1 DEF Drop
<1>5. airdrop'[receiver].net = airdrop[receiver].net + n /\ airdrop'[receiver].cpu = airdrop[receiver].cpu + c
  BY <1>1, <1>4
<1> HIDE DEF n, c
<1>6. \A r \in Accounts : /\ DropNet[r] = airdrop[r].net /\ DropNet'[r] = airdrop'[r].net
                          /\ DropCpu[r] = airdrop[r].cpu /\ DropCpu'[r] = airdrop'[r].cpu
  BY DEF DropNet, DropCpu
<1>7. /\ \A r \in Others : DropNet[r] \in Nat /\ DropNet'[r] \in Nat
      /\ \A r \in Others \ {receiver} : DropNet'[r] = DropNet[r]
      /\ DropNet'[receiver] = DropNet[receiver] + n
  BY <1>1, <1>4, <1>5, <1>6 DEF Others
<1>8. /\ \A r \in Others : DropCpu[r] \in Nat /\ DropCpu'[r] \in Nat
      /\ \A r \in Others \ {receiver} : DropCpu'[r] = DropCpu[r]
      /\ DropCpu'[receiver] = DropCpu[receiver] + c
  BY <1>1, <1>4, <1>5, <1>6 DEF Others
<1>9. /\ Total(DropNet, Others) \in Nat
      /\ receiver \in Others => Total(DropNet', Others) = Total(DropNet, Others) + n
      /\ receiver \notin Others => Total(DropNet', Others) = Total(DropNet, Others)
  <2>1. Total(DropNet, Others) \in Nat
    BY <1>2, <1>7, TotalType
  <2> QED
    BY <1>2, <1>3, <1>7, <2>1, TotalChange
<1>10. /\ Total(DropCpu, Others) \in Nat
       /\ receiver \in Others => Total(DropCpu', Others) = Total(DropCpu, Others) + c
       /\ receiver \notin Others => Total(DropCpu', Others) = Total(DropCpu, Others)
  <2>1. Total(DropCpu, Others) \in Nat
    BY <1>2, <1>8, TotalType
  <2> QED
    BY <1>2, <1>3, <1>8, <2>1, TotalChange
<1>11. receiver \in Others <=> receiver # Resad
  BY DEF Others
<1>12. Total(DropNet, Others)' = Total(DropNet', Others) /\ Total(DropCpu, Others)' = Total(DropCpu', Others)
  BY DEF Others
<1> QED
  BY <1>9, <1>10, <1>11, <1>12 DEF n, c

(***************************************************************************)
(* changebw keeps the drops on record: what fscio.resad gives to another   *)
(* is recorded when it is given, and what it takes back it keeps.          *)
(***************************************************************************)
LEMMA RecordsDrops ==
  ASSUME TypeOK, AirdropIsRecorded,
         NEW source \in Accounts, NEW receiver \in Accounts, NEW transfer \in BOOLEAN,
         NEW from \in Accounts, from = IF transfer THEN receiver ELSE source,
         NEW dnet \in Int, NEW dcpu \in Int,
         \/ dnet >= 0 /\ dcpu >= 0
         \/ dnet <= 0 /\ dcpu <= 0,
         AirDrop(source, receiver, dnet, dcpu),
         UpdateDelegation(from, receiver, dnet, dcpu),
         RefundRequest(from, receiver, dnet, dcpu, transfer),
         liquid' = [liquid EXCEPT ![source] = liquid[source] - PaidIn(from, receiver, dnet, dcpu, transfer)]
  PROVE  airdrop' \in [Accounts -> Drop] /\ AirdropIsRecorded'
<1> DEFINE paid == PaidIn(from, receiver, dnet, dcpu, transfer)
           given == Total(DropNet, Others) + Total(DropCpu, Others)
<1>1. /\ airdrop' \in [Accounts -> Drop] /\ airdrop \in [Accounts -> Drop]
      /\ \A r \in Accounts \ {receiver} : airdrop'[r] = airdrop[r]
      /\ source # Resad => airdrop' = airdrop
      /\ source = Resad =>
           /\ airdrop'[receiver].net = airdrop[receiver].net + Positive(dnet)
           /\ airdrop'[receiver].cpu = airdrop[receiver].cpu + Positive(dcpu)
           /\ dnet > 0 => airdrop[receiver].net = 0
           /\ dcpu > 0 => airdrop[receiver].cpu = 0
  BY DropsAdd DEF TypeOK
<1> SUFFICES ASSUME Resad \in Accounts PROVE AirdropIsRecorded'
  BY <1>1 DEF AirdropIsRecorded
<1>2. /\ \A r \in Others : del_net[<<Resad, r>>] <= airdrop[r].net /\ del_cpu[<<Resad, r>>] <= airdrop[r].cpu
      /\ Endowment[Resad] <= Kept + given /\ Endowment[Resad] \in Nat
  <2>1. Endowment[Resad] <= Kept + Total(DropNet, Others) + Total(DropCpu, Others)
    BY DEF AirdropIsRecorded
  <2>2. Total(DropNet, Others) \in Nat /\ Total(DropCpu, Others) \in Nat
    BY DropTotals
  <2>3. Kept \in Nat
    BY RefundOfType DEF Kept, TypeOK, Pairs
  <2> QED
    BY <2>1, <2>2, <2>3 DEF AirdropIsRecorded
<1>3. /\ paid \in Nat
      /\ refunds' \in [Accounts -> Refund \cup {NoRefund}]
      /\ \A a \in Accounts \ {from} : refunds'[a] = refunds[a]
      /\ paid = dnet + dcpu + (RefundOf(from, "net")' - RefundOf(from, "net"))
                            + (RefundOf(from, "cpu")' - RefundOf(from, "cpu"))
      /\ paid <= Positive(dnet) + Positive(dcpu)
  BY PaidOrRefunded, PaidAtMost
<1>4. /\ given \in Nat
      /\ given' = given + (IF source = Resad /\ receiver # Resad THEN Positive(dnet) + Positive(dcpu) ELSE 0)
  BY DropTotals DEF Positive
<1>5. liquid'[Resad] = liquid[Resad] - (IF source = Resad THEN paid ELSE 0)
  <2>1. liquid \in [Accounts -> Nat] /\ liquid' = [liquid EXCEPT ![source] = liquid[source] - paid]
    BY DEF TypeOK
  <2> HIDE DEF paid
  <2> QED
    BY <1>3, <2>1
<1>6. \A r \in Accounts :
        /\ del_net[<<Resad, r>>] \in Nat /\ del_cpu[<<Resad, r>>] \in Nat
        /\ del_net'[<<Resad, r>>] = del_net[<<Resad, r>>] + (IF from = Resad /\ r = receiver THEN dnet ELSE 0)
        /\ del_cpu'[<<Resad, r>>] = del_cpu[<<Resad, r>>] + (IF from = Resad /\ r = receiver THEN dcpu ELSE 0)
  <2> SUFFICES ASSUME NEW r \in Accounts
               PROVE  /\ del_net[<<Resad, r>>] \in Nat /\ del_cpu[<<Resad, r>>] \in Nat
                      /\ del_net'[<<Resad, r>>] = del_net[<<Resad, r>>] + (IF from = Resad /\ r = receiver THEN dnet ELSE 0)
                      /\ del_cpu'[<<Resad, r>>]
                           = del_cpu[<<Resad, r>>] + (IF from = Resad /\ r = receiver THEN dcpu ELSE 0)
    OBVIOUS
  <2>1. <<Resad, r>> \in Pairs /\ <<from, receiver>> \in Pairs
    BY DEF Pairs
  <2>2. del_net[<<Resad, r>>] \in Nat /\ del_cpu[<<Resad, r>>] \in Nat
    BY <2>1 DEF TypeOK
  <2>3. <<Resad, r>> = <<from, receiver>> <=> from = Resad /\ r = receiver
    OBVIOUS
  <2>4. /\ del_net \in [Pairs -> Nat] /\ del_cpu \in [Pairs -> Nat]
        /\ del_net' = [del_net EXCEPT ![<<from, receiver>>] = del_net[<<from, receiver>>] + dnet]
        /\ del_cpu' = [del_cpu EXCEPT ![<<from, receiver>>] = del_cpu[<<from, receiver>>] + dcpu]
    BY DEF TypeOK, UpdateDelegation
  <2> QED
    BY <2>1, <2>2, <2>3, <2>4
<1> HIDE DEF paid, given
<1>7. ASSUME NEW r \in Others
      PROVE  del_net'[<<Resad, r>>] <= airdrop'[r].net /\ del_cpu'[<<Resad, r>>] <= airdrop'[r].cpu
  <2>1. /\ r \in Accounts /\ r # Resad
        /\ del_net[<<Resad, r>>] <= airdrop[r].net /\ del_cpu[<<Resad, r>>] <= airdrop[r].cpu
        /\ airdrop[r].net \in Nat /\ airdrop[r].cpu \in Nat
    BY <1>1, <1>2 DEF Others, Drop
  <2>2. CASE from = Resad /\ r = receiver
    <3>1. source = Resad
      BY <2>1, <2>2
    <3>2. /\ del_net'[<<Resad, r>>] = del_net[<<Resad, r>>] + dnet
          /\ del_cpu'[<<Resad, r>>] = del_cpu[<<Resad, r>>] + dcpu
          /\ del_net[<<Resad, r>>] \in Nat /\ del_cpu[<<Resad, r>>] \in Nat
      BY <1>6, <2>1, <2>2
    <3>3. /\ airdrop'[r].net = airdrop[r].net + Positive(dnet)
          /\ airdrop'[r].cpu = airdrop[r].cpu + Positive(dcpu)
      BY <1>1, <2>2, <3>1
    <3> QED
      BY <2>1, <3>2, <3>3 DEF Positive
  <2>3. CASE ~(from = Resad /\ r = receiver)
    <3>1. del_net'[<<Resad, r>>] = del_net[<<Resad, r>>] /\ del_cpu'[<<Resad, r>>] = del_cpu[<<Resad, r>>]
      BY <1>6, <2>1, <2>3
    <3>2. airdrop'[r].net >= airdrop[r].net /\ airdrop'[r].cpu >= airdrop[r].cpu
      BY <1>1, <2>1 DEF Positive
    <3> QED
      BY <1>1, <1>6, <2>1, <3>1, <3>2 DEF Drop
  <2> QED
    BY <2>2, <2>3
<1>8. Kept' + given' >= Kept + given
  <2> DEFINE l == liquid[Resad]
             rn == RefundOf(Resad, "net")
             rc == RefundOf(Resad, "cpu")
             dn == del_net[<<Resad, Resad>>]
             dc == del_cpu[<<Resad, Resad>>]
             ln == liquid'[Resad]
             pn == Positive(dnet)
             pc == Positive(dcpu)
  <2>1. Kept = l + rn + rc + dn + dc /\ Kept' = ln + rn' + rc' + dn' + dc'
    BY DEF Kept
  <2>2. l \in Nat /\ rn \in Nat /\ rc \in Nat /\ dn \in Nat /\ dc \in Nat
    BY <1>6, RefundOfType DEF TypeOK
  <2>3. rn' \in Nat /\ rc' \in Nat
    BY <1>3 DEF RefundOf, Refund
  <2>4. from # Resad => rn' = rn /\ rc' = rc
    BY <1>3 DEF RefundOf
  <2>5. from = Resad => paid = dnet + dcpu + (rn' - rn) + (rc' - rc)
    BY <1>3
  <2>6. /\ dn' = dn + (IF from = Resad /\ Resad = receiver THEN dnet ELSE 0)
        /\ dc' = dc + (IF from = Resad /\ Resad = receiver THEN dcpu ELSE 0)
    BY <1>6
  <2>7. ln = l - (IF source = Resad THEN paid ELSE 0)
    BY <1>5
  <2>8. pn \in Nat /\ pc \in Nat /\ pn >= dnet /\ pc >= dcpu /\ paid <= pn + pc /\ paid \in Nat
    BY <1>3 DEF Positive
  <2>9. given \in Nat /\ given' = given + (IF source = Resad /\ receiver # Resad THEN pn + pc ELSE 0)
    BY <1>4
  <2> DEFINE rnn == rn'
             rcn == rc'
             dnn == dn'
             dcn == dc'
             gn == given'
  <2> HIDE DEF l, rn, rc, dn, dc, ln, pn, pc, rnn, rcn, dnn, dcn, gn
  <2>10. CASE from = Resad
    <3>1. CASE receiver = Resad
      <4>1. Kept' = ln + rnn + rcn + dnn + dcn /\ paid = dnet + dcpu + (rnn - rn) + (rcn - rc)
        BY <2>1, <2>5, <2>10 DEF rnn, rcn, dnn, dcn
      <4>2. dnn = dn + dnet /\ dcn = dc + dcpu /\ rnn \in Nat /\ rcn \in Nat
        BY <2>3, <2>6, <2>10, <3>1 DEF dnn, dcn, rnn, rcn
      <4>3. ln >= l - paid /\ gn = given
        BY <2>2, <2>7, <2>8, <2>9, <3>1 DEF gn
      <4>4. ln \in Int
        BY <2>2, <2>7, <2>8
      <4> QED
        BY <2>1, <2>2, <2>8, <2>9, <4>1, <4>2, <4>3, <4>4 DEF gn
    <3>2. CASE receiver # Resad
      <4>1. Kept' = ln + rnn + rcn + dnn + dcn /\ paid = dnet + dcpu + (rnn - rn) + (rcn - rc)
        BY <2>1, <2>5, <2>10 DEF rnn, rcn, dnn, dcn
      <4>2. dnn = dn /\ dcn = dc /\ rnn \in Nat /\ rcn \in Nat
        BY <2>2, <2>3, <2>6, <2>10, <3>2 DEF dnn, dcn, rnn, rcn
      <4>3. source = Resad
        BY <2>10, <3>2
      <4>4. ln = l - paid /\ gn = given + (pn + pc)
        BY <2>7, <2>9, <3>2, <4>3 DEF gn
      <4> QED
        BY <2>1, <2>2, <2>8, <2>9, <4>1, <4>2, <4>4 DEF gn
    <3> QED
      BY <3>1, <3>2
  <2>11. CASE from # Resad
    <3>1. Kept' = ln + rn + rc + dn + dc
      BY <2>1, <2>2, <2>4, <2>6, <2>11
    <3>2. source = Resad => receiver # Resad
      BY <2>11
    <3>3. CASE source = Resad
      <4>1. ln = l - paid /\ gn = given + (pn + pc)
        BY <2>7, <2>9, <3>2, <3>3 DEF gn
      <4> QED
        BY <2>1, <2>2, <2>8, <2>9, <3>1, <4>1 DEF gn
    <3>4. CASE source # Resad
      <4>1. ln = l /\ gn = given
        BY <2>2, <2>7, <2>9, <3>4 DEF gn
      <4> QED
        BY <2>1, <2>2, <2>9, <3>1, <4>1 DEF gn
    <3> QED
      BY <3>3, <3>4
  <2> QED
    BY <2>10, <2>11
<1>9. Endowment[Resad] <= (Kept + Total(DropNet, Others) + Total(DropCpu, Others))'
  <2>1. Kept \in Nat /\ Kept' \in Int
    <3>1. Kept \in Nat
      BY RefundOfType DEF Kept, TypeOK, Pairs
    <3>2. RefundOf(Resad, "net")' \in Nat /\ RefundOf(Resad, "cpu")' \in Nat
      BY <1>3 DEF RefundOf, Refund
    <3>3. /\ liquid'[Resad] \in Int
          /\ del_net'[<<Resad, Resad>>] \in Int /\ del_cpu'[<<Resad, Resad>>] \in Int
      BY <1>3, <1>5, <1>6 DEF TypeOK
    <3> QED
      BY <3>1, <3>2, <3>3 DEF Kept
  <2>2. /\ Total(DropNet, Others)' \in Int /\ Total(DropCpu, Others)' \in Int
        /\ given' = Total(DropNet, Others)' + Total(DropCpu, Others)'
    BY DropTotals DEF given, Positive
  <2>3. given' \in Int /\ given \in Nat
    BY <1>4, <2>2
  <2> QED
    BY <1>2, <1>8, <2>1, <2>2, <2>3
<1> QED
  BY <1>7, <1>9 DEF AirdropIsRecorded, Others

(***************************************************************************)
(* The whole of changebw, staking or unstaking.                            *)
(***************************************************************************)
LEMMA ChangeBwStep ==
  ASSUME Inv, NEW source \in Accounts, NEW receiver \in Accounts, NEW transfer \in BOOLEAN,
         NEW dnet \in Int, NEW dcpu \in Int,
         \/ dnet >= 0 /\ dcpu >= 0
         \/ dnet <= 0 /\ dcpu <= 0,
         ChangeBw(source, receiver, dnet, dcpu, transfer)
  PROVE  Inv' /\ pool' >= pool
<1> DEFINE from == IF transfer THEN receiver ELSE source
           paid == PaidIn(from, receiver, dnet, dcpu, transfer)
<1>1. from \in Accounts /\ TypeOK
  BY DEF Inv
<1>2. /\ AirDrop(source, receiver, dnet, dcpu)
      /\ UpdateDelegation(from, receiver, dnet, dcpu)
      /\ UpdateTotals(receiver, dnet, dcpu)
      /\ UpdateRow(receiver)
      /\ SetLimits(receiver)
      /\ RefundRequest(from, receiver, dnet, dcpu, transfer)
      /\ liquid[source] >= paid
      /\ liquid' = [liquid EXCEPT ![source] = liquid[source] - paid]
      /\ pool' = pool + paid
      /\ voter' = [voter EXCEPT ![from] = "core"]
      /\ staked[from] + dnet + dcpu >= 0
      /\ staked' = [staked EXCEPT ![from] = staked[from] + dnet + dcpu]
      /\ bound' = bound /\ drop_limit' = drop_limit
  BY DEF ChangeBw
<1> HIDE DEF from, paid
<1>3. /\ paid \in Nat
      /\ refunds' \in [Accounts -> Refund \cup {NoRefund}]
      /\ \A a \in Accounts : refunds'[a] # NoRefund => refunds'[a].net + refunds'[a].cpu > 0
      /\ deferred' \in [Accounts -> 0..RefundDelay \cup {NoTrx}]
      /\ \A a \in Accounts \ {from} : refunds'[a] = refunds[a]
      /\ paid = dnet + dcpu + (RefundOf(from, "net")' - RefundOf(from, "net"))
                            + (RefundOf(from, "cpu")' - RefundOf(from, "cpu"))
  BY <1>1, <1>2, PaidOrRefunded DEF paid
<1>4. /\ del_net' \in [Pairs -> Nat] /\ del_cpu' \in [Pairs -> Nat]
      /\ res_net' \in [Accounts -> Nat] /\ res_cpu' \in [Accounts -> Nat]
      /\ ReceiverTotals'
      /\ Delegated(Pairs) \in Nat
      /\ Delegated(Pairs)' = Delegated(Pairs) + dnet + dcpu
      /\ \A f \in Accounts : Delegated({f} \X Accounts) \in Nat
      /\ Delegated({from} \X Accounts)' = Delegated({from} \X Accounts) + dnet + dcpu
      /\ \A f \in Accounts \ {from} : Delegated({f} \X Accounts)' = Delegated({f} \X Accounts)
  BY <1>1, <1>2, DelegationSums
<1>5. /\ lim_net' \in [Accounts -> Limit] /\ lim_cpu' \in [Accounts -> Limit] /\ managed' = managed
      /\ rows' \subseteq Accounts /\ ram' \subseteq Accounts
  BY <1>1, <1>2, <1>4 DEF SetLimits, UpdateRow, TypeOK, Limit
<1>6. LimitsInv'
  <2>1. LimitsFollowStake'
    BY <1>1, <1>2, <1>4, <1>5 DEF SetLimits, UpdateTotals, Inv, LimitsInv, LimitsFollowStake, TypeOK
  <2>2. WeightsHaveRows'
    BY <1>1, <1>2, <1>4 DEF UpdateRow, UpdateTotals, Inv, LimitsInv, WeightsHaveRows, TypeOK
  <2> QED
    BY <2>1, <2>2 DEF LimitsInv
<1>7. /\ airdrop' \in [Accounts -> Drop] /\ drop_limit' \in Drop
      /\ AirdropIsRecorded'
  BY <1>1, <1>2, RecordsDrops DEF from, paid, Inv, TypeOK
<1>8. /\ liquid' \in [Accounts -> Nat] /\ pool' \in Nat /\ pool' >= pool
      /\ voter' \in [Accounts -> {"none", "core", "bare"}]
      /\ staked' \in [Accounts -> Nat] /\ bound' \in [Accounts -> Nat]
  BY <1>1, <1>2, <1>3 DEF TypeOK
<1>9. TypeOK'
  BY <1>1, <1>3, <1>4, <1>5, <1>7, <1>8 DEF TypeOK
<1>10. StakeBacksVotes'
  <2> SUFFICES ASSUME NEW f \in Accounts
               PROVE  staked'[f] + bound'[f] = Delegated({f} \X Accounts)'
    BY DEF StakeBacksVotes
  <2>1. /\ staked[f] + bound[f] = Delegated({f} \X Accounts)
        /\ staked[f] \in Nat /\ bound[f] \in Nat
    BY <1>1 DEF Inv, StakeBacksVotes, TypeOK
  <2>2. CASE f = from
    <3>1. staked'[f] = staked[f] + dnet + dcpu /\ bound'[f] = bound[f]
      BY <1>1, <1>2, <2>2 DEF TypeOK
    <3>2. Delegated({f} \X Accounts)' = Delegated({f} \X Accounts) + dnet + dcpu
      BY <1>4, <2>2
    <3> QED
      BY <2>1, <3>1, <3>2
  <2>3. CASE f # from
    <3>1. staked'[f] = staked[f] /\ bound'[f] = bound[f]
      BY <1>1, <1>2, <2>3 DEF TypeOK
    <3>2. Delegated({f} \X Accounts)' = Delegated({f} \X Accounts)
      BY <1>4, <2>3
    <3> QED
      BY <2>1, <3>1, <3>2
  <2> QED
    BY <2>2, <2>3
<1>11. StakesAreBacked'
  <2>1. /\ Total(RefundNet, Accounts) \in Nat /\ Total(RefundCpu, Accounts) \in Nat
        /\ RefundOf(from, "net") \in Nat /\ RefundOf(from, "net")' \in Nat
        /\ RefundOf(from, "cpu") \in Nat /\ RefundOf(from, "cpu")' \in Nat
        /\ Total(RefundNet, Accounts)' = Total(RefundNet, Accounts)
                                           + RefundOf(from, "net")' - RefundOf(from, "net")
        /\ Total(RefundCpu, Accounts)' = Total(RefundCpu, Accounts)
                                           + RefundOf(from, "cpu")' - RefundOf(from, "cpu")
    BY <1>1, <1>3, RefundTotals
  <2>2. pool = Delegated(Pairs) + Total(RefundNet, Accounts) + Total(RefundCpu, Accounts)
    BY DEF Inv, StakesAreBacked
  <2> QED
    BY <1>2, <1>3, <1>4, <2>1, <2>2 DEF StakesAreBacked
<1> QED
  BY <1>4, <1>6, <1>7, <1>8, <1>9, <1>10, <1>11 DEF Inv

LEMMA DelegateStep ==
  ASSUME Inv, NEW from \in Accounts, NEW receiver \in Accounts, NEW net \in Amounts, NEW cpu \in Amounts,
         NEW transfer \in BOOLEAN, DelegateBw(from, receiver, net, cpu, transfer)
  PROVE  Inv' /\ pool' >= pool
<1>1. net \in Nat /\ cpu \in Nat /\ ChangeBw(from, receiver, net, cpu, transfer)
  BY DEF DelegateBw
<1> QED
  BY <1>1, ChangeBwStep

LEMMA UndelegateStep ==
  ASSUME Inv, NEW from \in Accounts, NEW receiver \in Accounts, NEW net \in Amounts, NEW cpu \in Amounts,
         UndelegateBw(from, receiver, net, cpu)
  PROVE  Inv' /\ pool' >= pool
<1>1. net \in Nat /\ cpu \in Nat /\ ChangeBw(from, receiver, -net, -cpu, FALSE)
  BY DEF UndelegateBw
<1>2. -net \in Int /\ -cpu \in Int /\ -net <= 0 /\ -cpu <= 0
  BY <1>1
<1> QED
  BY <1>1, <1>2, ChangeBwStep

(***************************************************************************)
(* A refund pays out what leaves the request.                              *)
(***************************************************************************)
LEMMA PayRefundStep ==
  ASSUME Inv, NEW owner \in Accounts, PayRefund(owner),
         deferred' \in [Accounts -> 0..RefundDelay \cup {NoTrx}]
  PROVE  Inv'
<1> DEFINE amount == refunds[owner].net + refunds[owner].cpu
<1>1. /\ TypeOK
      /\ refunds[owner] # NoRefund /\ pool >= amount /\ pool' = pool - amount
      /\ liquid' = [liquid EXCEPT ![owner] = liquid[owner] + amount]
      /\ refunds' = [refunds EXCEPT ![owner] = NoRefund]
  BY DEF Inv, PayRefund, CanRefund
<1>2. /\ UNCHANGED <<del_net, del_cpu, res_net, res_cpu, rows, ram>>
      /\ UNCHANGED <<lim_net, lim_cpu, managed, voter, staked, bound, airdrop, drop_limit>>
  BY DEF PayRefund, ledger, limits, drops
<1>3. /\ RefundOf(owner, "net") = refunds[owner].net /\ RefundOf(owner, "cpu") = refunds[owner].cpu
      /\ RefundOf(owner, "net") \in Nat /\ RefundOf(owner, "cpu") \in Nat
  BY <1>1, RefundOfType DEF RefundOf
<1>4. amount \in Nat /\ amount = RefundOf(owner, "net") + RefundOf(owner, "cpu")
  BY <1>3
<1> HIDE DEF amount
<1>5. /\ refunds' \in [Accounts -> Refund \cup {NoRefund}] /\ refunds'[owner] = NoRefund
      /\ \A a \in Accounts \ {owner} : refunds'[a] = refunds[a]
  BY <1>1 DEF TypeOK
<1>6. RefundOf(owner, "net")' = 0 /\ RefundOf(owner, "cpu")' = 0
  BY <1>5 DEF RefundOf
<1>7. \A a \in Accounts : refunds'[a] # NoRefund => refunds'[a].net + refunds'[a].cpu > 0
  BY <1>1, <1>5 DEF TypeOK
<1>8. liquid' \in [Accounts -> Nat] /\ pool' \in Nat
  BY <1>1, <1>4 DEF TypeOK
<1>9. TypeOK'
  BY <1>1, <1>2, <1>5, <1>7, <1>8 DEF TypeOK
<1>10. StakesAreBacked'
  <2>1. Delegated(Pairs)' = Delegated(Pairs) /\ Delegated(Pairs) \in Nat
    <3>1. Total(del_net, Pairs) \in Nat /\ Total(del_cpu, Pairs) \in Nat
      BY <1>1, PairsFinite, TotalType DEF TypeOK
    <3> QED
      BY <1>2, <3>1 DEF Delegated
  <2>2. /\ Total(RefundNet, Accounts) \in Nat /\ Total(RefundCpu, Accounts) \in Nat
        /\ Total(RefundNet, Accounts)' = Total(RefundNet, Accounts)
                                           + RefundOf(owner, "net")' - RefundOf(owner, "net")
        /\ Total(RefundCpu, Accounts)' = Total(RefundCpu, Accounts)
                                           + RefundOf(owner, "cpu")' - RefundOf(owner, "cpu")
    BY <1>1, <1>5, RefundTotals
  <2>3. pool = Delegated(Pairs) + Total(RefundNet, Accounts) + Total(RefundCpu, Accounts)
    BY DEF Inv, StakesAreBacked
  <2> QED
    BY <1>1, <1>3, <1>4, <1>6, <2>1, <2>2, <2>3 DEF StakesAreBacked
<1>11. ReceiverTotals' /\ StakeBacksVotes' /\ LimitsInv'
  BY <1>2 DEF Inv, ReceiverTotals, StakeBacksVotes, LimitsInv, LimitsFollowStake, WeightsHaveRows, Delegated
<1>12. AirdropIsRecorded'
  <2> SUFFICES ASSUME Resad \in Accounts
               PROVE  Kept' = Kept
    BY <1>2, RecordsStay DEF Inv
  <2>1. liquid'[Resad] = liquid[Resad] + (IF Resad = owner THEN amount ELSE 0)
    BY <1>1, <1>4 DEF TypeOK
  <2>2. /\ RefundOf(Resad, "net") \in Nat /\ RefundOf(Resad, "cpu") \in Nat
        /\ liquid[Resad] \in Nat
        /\ del_net[<<Resad, Resad>>] \in Nat /\ del_cpu[<<Resad, Resad>>] \in Nat
    BY <1>1, RefundOfType DEF TypeOK, Pairs
  <2>3. CASE Resad = owner
    <3> DEFINE net == RefundOf(Resad, "net")
               cpu == RefundOf(Resad, "cpu")
               dn == del_net[<<Resad, Resad>>]
               dc == del_cpu[<<Resad, Resad>>]
               l == liquid[Resad]
    <3>1. Kept = l + net + cpu + dn + dc
      BY DEF Kept
    <3>2. Kept' = (l + amount) + 0 + 0 + dn + dc
      BY <1>2, <1>6, <2>1, <2>3 DEF Kept
    <3>3. amount = net + cpu
      BY <1>4, <2>3
    <3>4. net \in Nat /\ cpu \in Nat /\ dn \in Nat /\ dc \in Nat /\ l \in Nat
      BY <2>2
    <3> HIDE DEF net, cpu, dn, dc, l
    <3> QED
      BY <3>1, <3>2, <3>3, <3>4
  <2>4. CASE Resad # owner
    <3>1. liquid'[Resad] = liquid[Resad] /\ refunds'[Resad] = refunds[Resad]
      BY <1>5, <2>1, <2>2, <2>4
    <3> QED
      BY <1>2, <3>1 DEF Kept, RefundOf
  <2> QED
    BY <2>3, <2>4
<1> QED
  BY <1>9, <1>10, <1>11, <1>12 DEF Inv

(***************************************************************************)
(* A step that moves no tokens and leaves every delegation and every       *)
(* amount in a request alone.                                              *)
(***************************************************************************)
LEMMA QuietStep ==
  ASSUME Inv, TypeOK', LimitsInv',
         liquid' = liquid, pool' = pool, airdrop' = airdrop,
         UNCHANGED <<del_net, del_cpu, res_net, res_cpu>>,
         \A a \in Accounts : /\ RefundOf(a, "net")' = RefundOf(a, "net")
                             /\ RefundOf(a, "cpu")' = RefundOf(a, "cpu"),
         \A a \in Accounts : staked'[a] + bound'[a] = staked[a] + bound[a]
  PROVE  Inv'
<1>1. RefundNet' = RefundNet /\ RefundCpu' = RefundCpu
  BY DEF RefundNet, RefundCpu
<1>2. StakesAreBacked'
  BY <1>1 DEF Inv, StakesAreBacked, Delegated
<1>3. ReceiverTotals' /\ StakeBacksVotes'
  BY DEF Inv, ReceiverTotals, StakeBacksVotes, Delegated
<1>4. AirdropIsRecorded'
  BY RecordsStay DEF Inv, Kept
<1> QED
  BY <1>2, <1>3, <1>4 DEF Inv

LEMMA RunDeferredStep ==
  ASSUME Inv, NEW owner \in Accounts, RunDeferred(owner)
  PROVE  Inv'
<1>1. deferred' \in [Accounts -> 0..RefundDelay \cup {NoTrx}]
  BY DEF RunDeferred, Inv, TypeOK
<1>2. CASE CanRefund(owner)
  BY <1>1, <1>2, PayRefundStep DEF RunDeferred
<1>3. CASE ~CanRefund(owner)
  <2>1. UNCHANGED <<liquid, pool, ledger, limits, refunds, voter, staked, bound, drops>>
    BY <1>3 DEF RunDeferred
  <2>2. TypeOK' /\ LimitsInv'
    BY <1>1, <2>1 DEF Inv, TypeOK, LimitsInv, LimitsFollowStake, WeightsHaveRows, ledger, limits, drops
  <2> QED
    BY <2>1, <2>2, QuietStep DEF ledger, drops, RefundOf
<1> QED
  BY <1>2, <1>3

LEMMA ClaimRefundStep ==
  ASSUME Inv, NEW owner \in Accounts, ClaimRefund(owner)
  PROVE  Inv'
BY PayRefundStep DEF ClaimRefund, Inv, TypeOK

LEMMA DropDeferredStep ==
  ASSUME Inv, NEW owner \in Accounts, DropDeferred(owner)
  PROVE  Inv'
<1>1. /\ deferred' = [deferred EXCEPT ![owner] = NoTrx]
      /\ UNCHANGED <<liquid, pool, ledger, limits, refunds, voter, staked, bound, drops>>
  BY DEF DropDeferred
<1>2. TypeOK' /\ LimitsInv'
  BY <1>1 DEF Inv, TypeOK, LimitsInv, LimitsFollowStake, WeightsHaveRows, ledger, limits, drops
<1> QED
  BY <1>1, <1>2, QuietStep DEF ledger, drops, RefundOf

(***************************************************************************)
(* Voting moves stake into votes and back.                                 *)
(***************************************************************************)
LEMMA VoteStep ==
  ASSUME Inv, NEW a \in Accounts, NEW k \in Amounts, Vote(a, k)
  PROVE  Inv'
<1>1. /\ k \in Nat /\ k - bound[a] <= staked[a]
      /\ staked' = [staked EXCEPT ![a] = staked[a] - (k - bound[a])]
      /\ bound' = [bound EXCEPT ![a] = k]
      /\ UNCHANGED <<liquid, pool, ledger, limits, refunds, deferred, voter, drops>>
  BY DEF Vote
<1>2. staked \in [Accounts -> Nat] /\ bound \in [Accounts -> Nat]
  BY DEF Inv, TypeOK
<1>3. staked' \in [Accounts -> Nat] /\ bound' \in [Accounts -> Nat]
  BY <1>1, <1>2
<1>4. \A b \in Accounts : staked'[b] + bound'[b] = staked[b] + bound[b]
  BY <1>1, <1>2
<1>5. TypeOK' /\ LimitsInv'
  BY <1>1, <1>3 DEF Inv, TypeOK, LimitsInv, LimitsFollowStake, WeightsHaveRows, ledger, limits, drops
<1> QED
  BY <1>1, <1>4, <1>5, QuietStep DEF ledger, drops, RefundOf

LEMMA ManageNetStep ==
  ASSUME Inv, NEW r \in Manageable, NEW n \in LimitValues, ManageNet(r, n)
  PROVE  Inv'
<1>1. /\ r \in Accounts /\ n \in Limit /\ TypeOK
      /\ managed' = [managed EXCEPT ![r] = managed[r] \cup {"net"}]
      /\ lim_net' = [lim_net EXCEPT ![r] = n]
      /\ voter' = [voter EXCEPT ![r] = IF voter[r] = "none" THEN "bare" ELSE voter[r]]
      /\ UNCHANGED <<liquid, pool, del_net, del_cpu, res_net, res_cpu, rows, ram, lim_cpu>>
      /\ UNCHANGED <<refunds, deferred, staked, bound, airdrop, drop_limit>>
  BY DEF ManageNet, Inv, ledger, drops
<1>2. /\ managed' \in [Accounts -> SUBSET {"net", "cpu"}]
      /\ lim_net' \in [Accounts -> Limit]
      /\ voter' \in [Accounts -> {"none", "core", "bare"}]
  BY <1>1 DEF TypeOK
<1>3. TypeOK'
  BY <1>1, <1>2 DEF TypeOK
<1>4. LimitsInv'
  BY <1>1, <1>2 DEF Inv, LimitsInv, LimitsFollowStake, WeightsHaveRows, TypeOK
<1> QED
  BY <1>1, <1>3, <1>4, QuietStep DEF RefundOf

LEMMA UnmanageNetStep ==
  ASSUME Inv, NEW r \in Manageable, UnmanageNet(r)
  PROVE  Inv'
<1>1. /\ r \in Accounts /\ TypeOK
      /\ managed' = [managed EXCEPT ![r] = managed[r] \ {"net"}]
      /\ lim_net' = [lim_net EXCEPT ![r] = res_net[r]]
      /\ UNCHANGED <<liquid, pool, del_net, del_cpu, res_net, res_cpu, rows, ram, lim_cpu>>
      /\ UNCHANGED <<refunds, deferred, voter, staked, bound, airdrop, drop_limit>>
  BY DEF UnmanageNet, Inv, ledger, drops
<1>2. /\ managed' \in [Accounts -> SUBSET {"net", "cpu"}]
      /\ lim_net' \in [Accounts -> Limit]
  BY <1>1 DEF TypeOK, Limit
<1>3. TypeOK'
  BY <1>1, <1>2 DEF TypeOK
<1>4. LimitsInv'
  BY <1>1, <1>2 DEF Inv, LimitsInv, LimitsFollowStake, WeightsHaveRows, TypeOK
<1> QED
  BY <1>1, <1>3, <1>4, QuietStep DEF RefundOf

LEMMA ManageCpuStep ==
  ASSUME Inv, NEW r \in Manageable, NEW n \in LimitValues, ManageCpu(r, n)
  PROVE  Inv'
<1>1. /\ r \in Accounts /\ n \in Limit /\ TypeOK
      /\ managed' = [managed EXCEPT ![r] = managed[r] \cup {"cpu"}]
      /\ lim_cpu' = [lim_cpu EXCEPT ![r] = n]
      /\ voter' = [voter EXCEPT ![r] = IF voter[r] = "none" THEN "bare" ELSE voter[r]]
      /\ UNCHANGED <<liquid, pool, del_net, del_cpu, res_net, res_cpu, rows, ram, lim_net>>
      /\ UNCHANGED <<refunds, deferred, staked, bound, airdrop, drop_limit>>
  BY DEF ManageCpu, Inv, ledger, drops
<1>2. /\ managed' \in [Accounts -> SUBSET {"net", "cpu"}]
      /\ lim_cpu' \in [Accounts -> Limit]
      /\ voter' \in [Accounts -> {"none", "core", "bare"}]
  BY <1>1 DEF TypeOK
<1>3. TypeOK'
  BY <1>1, <1>2 DEF TypeOK
<1>4. LimitsInv'
  BY <1>1, <1>2 DEF Inv, LimitsInv, LimitsFollowStake, WeightsHaveRows, TypeOK
<1> QED
  BY <1>1, <1>3, <1>4, QuietStep DEF RefundOf

LEMMA UnmanageCpuStep ==
  ASSUME Inv, NEW r \in Manageable, UnmanageCpu(r)
  PROVE  Inv'
<1>1. /\ r \in Accounts /\ TypeOK
      /\ managed' = [managed EXCEPT ![r] = managed[r] \ {"cpu"}]
      /\ lim_cpu' = [lim_cpu EXCEPT ![r] = res_cpu[r]]
      /\ UNCHANGED <<liquid, pool, del_net, del_cpu, res_net, res_cpu, rows, ram, lim_net>>
      /\ UNCHANGED <<refunds, deferred, voter, staked, bound, airdrop, drop_limit>>
  BY DEF UnmanageCpu, Inv, ledger, drops
<1>2. /\ managed' \in [Accounts -> SUBSET {"net", "cpu"}]
      /\ lim_cpu' \in [Accounts -> Limit]
  BY <1>1 DEF TypeOK, Limit
<1>3. TypeOK'
  BY <1>1, <1>2 DEF TypeOK
<1>4. LimitsInv'
  BY <1>1, <1>2 DEF Inv, LimitsInv, LimitsFollowStake, WeightsHaveRows, TypeOK
<1> QED
  BY <1>1, <1>3, <1>4, QuietStep DEF RefundOf

(***************************************************************************)
(* What the operators set for accounts without a row, for the airdrop, and *)
(* what trading RAM does to rows.                                          *)
(***************************************************************************)
LEMMA SetALimitsStep ==
  ASSUME Inv, NEW r \in Manageable, NEW net \in LimitValues, NEW cpu \in LimitValues, SetALimits(r, net, cpu)
  PROVE  Inv'
<1>1. /\ r \in Accounts /\ net \in Limit /\ cpu \in Limit /\ r \notin rows /\ TypeOK
      /\ lim_net' = [lim_net EXCEPT ![r] = net] /\ lim_cpu' = [lim_cpu EXCEPT ![r] = cpu]
      /\ UNCHANGED <<liquid, pool, del_net, del_cpu, res_net, res_cpu, rows, ram, managed>>
      /\ UNCHANGED <<refunds, deferred, voter, staked, bound, airdrop, drop_limit>>
  BY DEF SetALimits, Inv, ledger, drops
<1>2. lim_net' \in [Accounts -> Limit] /\ lim_cpu' \in [Accounts -> Limit]
  BY <1>1 DEF TypeOK
<1>3. TypeOK'
  BY <1>1, <1>2 DEF TypeOK
<1>4. res_net[r] + res_cpu[r] = 0
  BY <1>1 DEF Inv, LimitsInv, WeightsHaveRows
<1>5. LimitsInv'
  BY <1>1, <1>2, <1>4 DEF Inv, LimitsInv, LimitsFollowStake, WeightsHaveRows, TypeOK
<1> QED
  BY <1>1, <1>3, <1>5, QuietStep DEF RefundOf

LEMMA SetResAdCfgStep ==
  ASSUME Inv, NEW limit \in DropLimits, SetResAdCfg(limit)
  PROVE  Inv'
<1>1. /\ drop_limit' \in Drop
      /\ UNCHANGED <<liquid, pool, ledger, limits, refunds, deferred, voter, staked, bound, airdrop>>
  BY DEF SetResAdCfg
<1>2. TypeOK' /\ LimitsInv'
  BY <1>1 DEF Inv, TypeOK, LimitsInv, LimitsFollowStake, WeightsHaveRows, ledger, limits
<1> QED
  BY <1>1, <1>2, QuietStep DEF ledger, RefundOf

LEMMA RamStep ==
  ASSUME Inv, NEW r \in Traders, BuyRam(r) \/ SellRam(r)
  PROVE  Inv'
<1>1. /\ rows \subseteq rows' /\ rows' \subseteq Accounts /\ ram' \subseteq Accounts
      /\ UNCHANGED <<liquid, pool, del_net, del_cpu, res_net, res_cpu, limits>>
      /\ UNCHANGED <<refunds, deferred, voter, staked, bound, drops>>
  BY DEF BuyRam, SellRam, Inv, TypeOK
<1>2. TypeOK' /\ LimitsInv'
  BY <1>1 DEF Inv, TypeOK, LimitsInv, LimitsFollowStake, WeightsHaveRows, limits, drops
<1> QED
  BY <1>1, <1>2, QuietStep DEF drops, RefundOf

(***************************************************************************)
(* The clock moves delays and no amounts.                                  *)
(***************************************************************************)
LEMMA TickAmounts ==
  ASSUME TypeOK, Tick
  PROVE  /\ refunds' \in [Accounts -> Refund \cup {NoRefund}]
         /\ \A a \in Accounts :
              /\ refunds'[a] = NoRefund <=> refunds[a] = NoRefund
              /\ refunds'[a] # NoRefund =>
                   refunds'[a].net = refunds[a].net /\ refunds'[a].cpu = refunds[a].cpu
<1> SUFFICES ASSUME NEW a \in Accounts
             PROVE  /\ refunds'[a] \in Refund \cup {NoRefund}
                    /\ refunds'[a] = NoRefund <=> refunds[a] = NoRefund
                    /\ refunds'[a] # NoRefund =>
                         refunds'[a].net = refunds[a].net /\ refunds'[a].cpu = refunds[a].cpu
  BY DEF Tick
<1>1. CASE refunds[a] = NoRefund
  BY <1>1 DEF Tick
<1>2. CASE refunds[a] # NoRefund
  <2> DEFINE time == Positive(refunds[a].wait - 1)
             new == [net |-> refunds[a].net, cpu |-> refunds[a].cpu, wait |-> time]
  <2>1. refunds[a] \in Refund
    BY <1>2 DEF TypeOK
  <2>2. time \in 0..RefundDelay
    BY <2>1 DEF Refund, Positive
  <2>3. new \in Refund
    BY <2>1, <2>2 DEF Refund
  <2>4. refunds'[a] = new /\ new.net = refunds[a].net /\ new.cpu = refunds[a].cpu
    BY <1>2 DEF Tick
  <2> QED
    BY <1>2, <2>3, <2>4
<1> QED
  BY <1>1, <1>2

LEMMA TickStep ==
  ASSUME Inv, Tick
  PROVE  Inv'
<1>1. /\ TypeOK
      /\ UNCHANGED <<liquid, pool, del_net, del_cpu, res_net, res_cpu, rows, ram>>
      /\ UNCHANGED <<lim_net, lim_cpu, managed, voter, staked, bound, airdrop, drop_limit>>
  BY DEF Tick, Inv, ledger, limits, drops
<1>2. /\ refunds' \in [Accounts -> Refund \cup {NoRefund}]
      /\ \A a \in Accounts :
           /\ refunds'[a] = NoRefund <=> refunds[a] = NoRefund
           /\ refunds'[a] # NoRefund =>
                refunds'[a].net = refunds[a].net /\ refunds'[a].cpu = refunds[a].cpu
  BY <1>1, TickAmounts
<1>3. deferred' \in [Accounts -> 0..RefundDelay \cup {NoTrx}]
  <2>1. \A a \in Accounts :
          (IF deferred[a] = NoTrx THEN NoTrx ELSE Positive(deferred[a] - 1)) \in 0..RefundDelay \cup {NoTrx}
    BY <1>1 DEF TypeOK, Positive
  <2> QED
    BY <2>1 DEF Tick
<1>4. \A a \in Accounts : refunds'[a] # NoRefund => refunds'[a].net + refunds'[a].cpu > 0
  BY <1>1, <1>2 DEF TypeOK
<1>5. TypeOK' /\ LimitsInv'
  BY <1>1, <1>2, <1>3, <1>4 DEF TypeOK, Inv, LimitsInv, LimitsFollowStake, WeightsHaveRows
<1>6. \A a \in Accounts : /\ RefundOf(a, "net")' = RefundOf(a, "net")
                          /\ RefundOf(a, "cpu")' = RefundOf(a, "cpu")
  BY <1>2 DEF RefundOf
<1> QED
  BY <1>1, <1>5, <1>6, QuietStep

-----------------------------------------------------------------------------
LEMMA InitInv == Init => Inv
<1> SUFFICES ASSUME Init PROVE Inv
  OBVIOUS
<1>1. TypeOK
  BY DEF Init, TypeOK, Limit, Drop
<1>2. /\ \A S \in SUBSET Pairs : Total(del_net, S) = 0 /\ Total(del_cpu, S) = 0
      /\ Total(RefundNet, Accounts) = 0 /\ Total(RefundCpu, Accounts) = 0
  <2>1. ASSUME NEW S \in SUBSET Pairs PROVE Total(del_net, S) = 0 /\ Total(del_cpu, S) = 0
    <3>1. \A p \in S : del_net[p] = 0 /\ del_cpu[p] = 0
      BY DEF Init
    <3> QED
      BY <3>1, TotalZero
  <2>2. \A a \in Accounts : RefundNet[a] = 0 /\ RefundCpu[a] = 0
    BY DEF Init, RefundNet, RefundCpu, RefundOf
  <2>3. Total(RefundNet, Accounts) = 0 /\ Total(RefundCpu, Accounts) = 0
    BY <2>2, TotalZero
  <2> QED
    BY <2>1, <2>3
<1>3. StakesAreBacked
  BY <1>2 DEF StakesAreBacked, Delegated, Init
<1>4. ReceiverTotals
  <2>1. \A r \in Accounts : Accounts \X {r} \in SUBSET Pairs
    BY DEF Pairs
  <2> QED
    BY <1>2, <2>1 DEF ReceiverTotals, Init
<1>5. StakeBacksVotes
  <2>1. \A f \in Accounts : {f} \X Accounts \in SUBSET Pairs
    BY DEF Pairs
  <2> QED
    BY <1>2, <2>1 DEF StakeBacksVotes, Delegated, Init
<1>6. LimitsInv
  BY DEF LimitsInv, LimitsFollowStake, WeightsHaveRows, Init
<1>7. AirdropIsRecorded
  <2> SUFFICES ASSUME Resad \in Accounts PROVE AirdropIsRecorded
    BY DEF AirdropIsRecorded
  <2>1. \A r \in Others : del_net[<<Resad, r>>] = 0 /\ del_cpu[<<Resad, r>>] = 0
    BY DEF Init, Others, Pairs
  <2>2. \A r \in Others : airdrop[r].net = 0 /\ airdrop[r].cpu = 0
    BY DEF Init, Others
  <2>3. \A r \in Others : DropNet[r] = 0 /\ DropCpu[r] = 0
    BY <2>2 DEF DropNet, DropCpu, Others
  <2>4. Total(DropNet, Others) = 0 /\ Total(DropCpu, Others) = 0
    BY <2>3, TotalZero
  <2>5. Kept = Endowment[Resad]
    BY DEF Init, Kept, RefundOf, Pairs
  <2>6. Endowment[Resad] \in Nat
    OBVIOUS
  <2> QED
    BY <2>1, <2>2, <2>4, <2>5, <2>6 DEF AirdropIsRecorded
<1> QED
  BY <1>1, <1>3, <1>4, <1>5, <1>6, <1>7 DEF Inv

LEMMA NextInv == Inv /\ [Next]_vars => Inv'
<1> SUFFICES ASSUME Inv, [Next]_vars PROVE Inv'
  OBVIOUS
<1>1. ASSUME NEW from \in Accounts, NEW receiver \in Accounts, NEW net \in Amounts, NEW cpu \in Amounts,
             NEW transfer \in BOOLEAN, DelegateBw(from, receiver, net, cpu, transfer)
      PROVE  Inv'
  BY <1>1, DelegateStep
<1>2. ASSUME NEW from \in Accounts, NEW receiver \in Accounts, NEW net \in Amounts, NEW cpu \in Amounts,
             UndelegateBw(from, receiver, net, cpu)
      PROVE  Inv'
  BY <1>2, UndelegateStep
<1>3. ASSUME NEW owner \in Accounts, ClaimRefund(owner) PROVE Inv'
  BY <1>3, ClaimRefundStep
<1>4. ASSUME NEW owner \in Accounts, RunDeferred(owner) PROVE Inv'
  BY <1>4, RunDeferredStep
<1>5. ASSUME NEW owner \in Accounts, DropDeferred(owner) PROVE Inv'
  BY <1>5, DropDeferredStep
<1>6. ASSUME NEW a \in Accounts, NEW k \in Amounts, Vote(a, k) PROVE Inv'
  BY <1>6, VoteStep
<1>7. ASSUME NEW r \in Manageable, NEW n \in LimitValues, ManageNet(r, n) PROVE Inv'
  BY <1>7, ManageNetStep
<1>8. ASSUME NEW r \in Manageable, NEW n \in LimitValues, ManageCpu(r, n) PROVE Inv'
  BY <1>8, ManageCpuStep
<1>9. ASSUME NEW r \in Manageable, UnmanageNet(r) PROVE Inv'
  BY <1>9, UnmanageNetStep
<1>10. ASSUME NEW r \in Manageable, UnmanageCpu(r) PROVE Inv'
  BY <1>10, UnmanageCpuStep
<1>11. CASE Tick
  BY <1>11, TickStep
<1>12. ASSUME NEW r \in Manageable, NEW net \in LimitValues, NEW cpu \in LimitValues, SetALimits(r, net, cpu)
       PROVE  Inv'
  BY <1>12, SetALimitsStep
<1>13. ASSUME NEW limit \in DropLimits, SetResAdCfg(limit) PROVE Inv'
  BY <1>13, SetResAdCfgStep
<1>14. ASSUME NEW r \in Traders, BuyRam(r) \/ SellRam(r) PROVE Inv'
  BY <1>14, RamStep
<1>15. CASE UNCHANGED vars
  <2>1. TypeOK' /\ LimitsInv'
    BY <1>15 DEF vars, ledger, limits, drops, Inv, TypeOK, LimitsInv, LimitsFollowStake, WeightsHaveRows
  <2> QED
    BY <1>15, <2>1, QuietStep DEF vars, ledger, drops, RefundOf
<1> QED
  BY <1>1, <1>2, <1>3, <1>4, <1>5, <1>6, <1>7, <1>8, <1>9, <1>10, <1>11, <1>12, <1>13, <1>14, <1>15
     DEF Next

(***************************************************************************)
(* No balance, weight or request is ever negative, whatever is staked,     *)
(* unstaked, voted and refunded.                                           *)
(***************************************************************************)
THEOREM TypeCorrect == Spec => []TypeOK
<1>1. Inv => TypeOK
  BY DEF Inv
<1> QED
  BY <1>1, InitInv, NextInv, PTL DEF Spec

(***************************************************************************)
(* The stake account can always pay what is delegated and what is being    *)
(* refunded, to the token.                                                 *)
(***************************************************************************)
THEOREM Backed == Spec => []StakesAreBacked
<1>1. Inv => StakesAreBacked
  BY DEF Inv
<1> QED
  BY <1>1, InitInv, NextInv, PTL DEF Spec

(***************************************************************************)
(* The weights of a receiver are the sums of what was delegated to it.     *)
(***************************************************************************)
THEOREM Totalled == Spec => []ReceiverTotals
<1>1. Inv => ReceiverTotals
  BY DEF Inv
<1> QED
  BY <1>1, InitInv, NextInv, PTL DEF Spec

(***************************************************************************)
(* No staked token votes twice or leaves while it votes.                   *)
(***************************************************************************)
THEOREM VotesBacked == Spec => []StakeBacksVotes
<1>1. Inv => StakeBacksVotes
  BY DEF Inv
<1> QED
  BY <1>1, InitInv, NextInv, PTL DEF Spec

(***************************************************************************)
(* Who has a stake has the limits of his weights, unless they are managed: *)
(* rows are erased only when nothing is in them, and setalimits wants no   *)
(* row.                                                                    *)
(***************************************************************************)
THEOREM LimitsFollow == Spec => []LimitsFollowStake
<1>1. Inv => LimitsFollowStake
  BY DEF Inv, LimitsInv
<1> QED
  BY <1>1, InitInv, NextInv, PTL DEF Spec

(***************************************************************************)
(* All that fscio.resad has given away is on record, and nobody has more   *)
(* of it than the record says, whatever limits are set in between.         *)
(***************************************************************************)
THEOREM DropsRecorded == Spec => []AirdropIsRecorded
<1>1. Inv => AirdropIsRecorded
  BY DEF Inv
<1> QED
  BY <1>1, InitInv, NextInv, PTL DEF Spec

-----------------------------------------------------------------------------
(***************************************************************************)
(* What a step may do to requests and to the pool.                         *)
(***************************************************************************)
Grows(a) == RefundOf(a, "net")' + RefundOf(a, "cpu")' > RefundOf(a, "net") + RefundOf(a, "cpu")

PaysOut ==
  \E a \in Accounts :
    /\ refunds[a] # NoRefund /\ refunds[a].wait = 0 /\ refunds'[a] = NoRefund
    /\ liquid' = [liquid EXCEPT ![a] = @ + (pool - pool')]

(***************************************************************************)
(* A request grows by unstaking only, and waits anew then.                 *)
(***************************************************************************)
LEMMA ChangeBwRestarts ==
  ASSUME Inv, NEW source \in Accounts, NEW receiver \in Accounts, NEW transfer \in BOOLEAN,
         NEW dnet \in Int, NEW dcpu \in Int,
         \/ dnet >= 0 /\ dcpu >= 0
         \/ dnet <= 0 /\ dcpu <= 0,
         ChangeBw(source, receiver, dnet, dcpu, transfer)
  PROVE  \A a \in Accounts : Grows(a) => refunds'[a].wait = RefundDelay
<1> DEFINE from == IF transfer THEN receiver ELSE source
           req == RequestAfter(from, dnet, dcpu)
           net == RefundOf(from, "net")
           cpu == RefundOf(from, "cpu")
<1>1. from \in Accounts /\ TypeOK
  BY DEF Inv
<1>2. RefundRequest(from, receiver, dnet, dcpu, transfer)
  BY DEF ChangeBw
<1>3. ASSUME NEW a \in Accounts, Grows(a) PROVE refunds'[a].wait = RefundDelay
  <2>1. \A b \in Accounts : RefundOf(b, "net") \in Nat /\ RefundOf(b, "cpu") \in Nat
    BY <1>1, RefundOfType
  <2>2. refunds'[a] # refunds[a]
    BY <1>3, <2>1 DEF Grows, RefundOf
  <2>3. a = from /\ UsesRefund(from, receiver, dnet, dcpu, transfer)
    BY <1>1, <1>2, <2>2 DEF RefundRequest, TypeOK
  <2>4. refunds'[from] = req
    BY <1>1, <1>2, <2>3 DEF RefundRequest, TypeOK
  <2> HIDE DEF from
  <2>5. /\ Positive(net - dnet) \in Nat /\ Positive(cpu - dcpu) \in Nat
        /\ req = NoRefund <=> Positive(net - dnet) = 0 /\ Positive(cpu - dcpu) = 0
        /\ req # NoRefund => req.net = Positive(net - dnet) /\ req.cpu = Positive(cpu - dcpu)
        /\ req # NoRefund /\ (dnet < 0 \/ dcpu < 0) => req.wait = RefundDelay
    BY <1>1, RequestEffect
  <2> HIDE DEF req
  <2>6. RefundOf(from, "net")' = Positive(net - dnet) /\ RefundOf(from, "cpu")' = Positive(cpu - dcpu)
    BY <2>4, <2>5 DEF RefundOf
  <2>7. Positive(net - dnet) + Positive(cpu - dcpu) > net + cpu
    BY <1>3, <2>3, <2>6 DEF Grows
  <2>8. net \in Nat /\ cpu \in Nat
    BY <1>1, <2>1
  <2> HIDE DEF net, cpu
  <2>9. dnet < 0 \/ dcpu < 0
    BY <2>7, <2>8 DEF Positive
  <2>10. req # NoRefund
    BY <2>5, <2>7, <2>8
  <2> QED
    BY <2>3, <2>4, <2>5, <2>9, <2>10
<1> QED
  BY <1>3

LEMMA PayRefundPays ==
  ASSUME Inv, NEW owner \in Accounts, PayRefund(owner)
  PROVE  /\ PaysOut
         /\ \A a \in Accounts : ~Grows(a)
<1> DEFINE amount == refunds[owner].net + refunds[owner].cpu
<1>1. /\ refunds[owner] # NoRefund /\ refunds[owner].wait = 0
      /\ pool' = pool - amount
      /\ liquid' = [liquid EXCEPT ![owner] = @ + amount]
      /\ refunds' = [refunds EXCEPT ![owner] = NoRefund]
  BY DEF PayRefund, CanRefund
<1>2. TypeOK
  BY DEF Inv
<1>3. amount \in Nat /\ pool \in Nat
  BY <1>1, <1>2 DEF TypeOK, Refund
<1> HIDE DEF amount
<1>4. pool - pool' = amount
  BY <1>1, <1>3
<1>5. refunds'[owner] = NoRefund
  BY <1>1, <1>2 DEF TypeOK
<1>6. PaysOut
  BY <1>1, <1>4, <1>5 DEF PaysOut
<1>7. \A a \in Accounts : ~Grows(a)
  <2> SUFFICES ASSUME NEW a \in Accounts PROVE ~Grows(a)
    OBVIOUS
  <2>1. RefundOf(a, "net") \in Nat /\ RefundOf(a, "cpu") \in Nat
    BY <1>2, RefundOfType
  <2>2. refunds'[a] = NoRefund \/ refunds'[a] = refunds[a]
    BY <1>1, <1>2 DEF TypeOK
  <2>3. CASE refunds'[a] = NoRefund
    <3>1. RefundOf(a, "net")' = 0 /\ RefundOf(a, "cpu")' = 0
      BY <2>3 DEF RefundOf
    <3> QED
      BY <2>1, <3>1 DEF Grows
  <2>4. CASE refunds'[a] = refunds[a]
    <3>1. RefundOf(a, "net")' = RefundOf(a, "net") /\ RefundOf(a, "cpu")' = RefundOf(a, "cpu")
      BY <2>4 DEF RefundOf
    <3> QED
      BY <2>1, <3>1 DEF Grows
  <2> QED
    BY <2>2, <2>3, <2>4
<1> QED
  BY <1>6, <1>7

(***************************************************************************)
(* Steps that leave the amounts of all requests alone.                     *)
(***************************************************************************)
LEMMA NothingPaid ==
  ASSUME Inv, pool' = pool,
         \A a \in Accounts : /\ refunds'[a] = NoRefund <=> refunds[a] = NoRefund
                             /\ refunds'[a] # NoRefund =>
                                  refunds'[a].net = refunds[a].net /\ refunds'[a].cpu = refunds[a].cpu
  PROVE  pool' >= pool /\ \A a \in Accounts : ~Grows(a)
<1>1. \A a \in Accounts : /\ RefundOf(a, "net")' = RefundOf(a, "net")
                          /\ RefundOf(a, "cpu")' = RefundOf(a, "cpu")
                          /\ RefundOf(a, "net") \in Nat /\ RefundOf(a, "cpu") \in Nat
  BY RefundOfType DEF RefundOf, Inv
<1>2. pool \in Nat
  BY DEF Inv, TypeOK
<1> QED
  BY <1>1, <1>2 DEF Grows

LEMMA StepsPay ==
  Inv /\ [Next]_vars => /\ pool' >= pool \/ PaysOut
                        /\ \A a \in Accounts : Grows(a) => refunds'[a].wait = RefundDelay
<1> DEFINE Goal == /\ pool' >= pool \/ PaysOut
                   /\ \A a \in Accounts : Grows(a) => refunds'[a].wait = RefundDelay
           Quiet == pool' >= pool /\ \A a \in Accounts : ~Grows(a)
<1> SUFFICES ASSUME Inv, [Next]_vars PROVE Goal
  OBVIOUS
<1>1. ASSUME NEW from \in Accounts, NEW receiver \in Accounts, NEW net \in Amounts, NEW cpu \in Amounts,
             NEW transfer \in BOOLEAN, DelegateBw(from, receiver, net, cpu, transfer)
      PROVE  Goal
  <2>1. net \in Nat /\ cpu \in Nat /\ ChangeBw(from, receiver, net, cpu, transfer)
    BY <1>1 DEF DelegateBw
  <2> QED
    BY <1>1, <2>1, DelegateStep, ChangeBwRestarts
<1>2. ASSUME NEW from \in Accounts, NEW receiver \in Accounts, NEW net \in Amounts, NEW cpu \in Amounts,
             UndelegateBw(from, receiver, net, cpu)
      PROVE  Goal
  <2>1. net \in Nat /\ cpu \in Nat /\ ChangeBw(from, receiver, -net, -cpu, FALSE)
    BY <1>2 DEF UndelegateBw
  <2>2. -net \in Int /\ -cpu \in Int /\ -net <= 0 /\ -cpu <= 0
    BY <2>1
  <2>3. pool' >= pool
    BY <1>2, UndelegateStep
  <2>4. \A a \in Accounts : Grows(a) => refunds'[a].wait = RefundDelay
    BY <2>1, <2>2, ChangeBwRestarts
  <2> QED
    BY <2>3, <2>4
<1>3. ASSUME NEW owner \in Accounts, ClaimRefund(owner) PROVE Goal
  BY <1>3, PayRefundPays DEF ClaimRefund
<1>4. ASSUME NEW owner \in Accounts, RunDeferred(owner) PROVE Goal
  <2>1. CASE CanRefund(owner)
    BY <1>4, <2>1, PayRefundPays DEF RunDeferred
  <2>2. CASE ~CanRefund(owner)
    <3>1. Quiet
      BY <1>4, <2>2, NothingPaid DEF RunDeferred
    <3> QED
      BY <3>1
  <2> QED
    BY <2>1, <2>2
<1>5. ASSUME NEW owner \in Accounts, DropDeferred(owner) PROVE Goal
  BY <1>5, NothingPaid DEF DropDeferred
<1>6. ASSUME NEW a \in Accounts, NEW k \in Amounts, Vote(a, k) PROVE Goal
  BY <1>6, NothingPaid DEF Vote
<1>7. ASSUME NEW r \in Manageable, NEW n \in LimitValues, ManageNet(r, n) PROVE Goal
  BY <1>7, NothingPaid DEF ManageNet
<1>8. ASSUME NEW r \in Manageable, NEW n \in LimitValues, ManageCpu(r, n) PROVE Goal
  BY <1>8, NothingPaid DEF ManageCpu
<1>9. ASSUME NEW r \in Manageable, UnmanageNet(r) PROVE Goal
  BY <1>9, NothingPaid DEF UnmanageNet
<1>10. ASSUME NEW r \in Manageable, UnmanageCpu(r) PROVE Goal
  BY <1>10, NothingPaid DEF UnmanageCpu
<1>11. CASE Tick
  BY <1>11, NothingPaid, TickAmounts DEF Tick, Inv
<1>12. CASE \/ \E r \in Manageable, net, cpu \in LimitValues : SetALimits(r, net, cpu)
            \/ \E limit \in DropLimits : SetResAdCfg(limit)
            \/ \E r \in Traders : BuyRam(r)
            \/ \E r \in Traders : SellRam(r)
            \/ UNCHANGED vars
  <2>1. pool' = pool /\ refunds' = refunds
    BY <1>12 DEF SetALimits, SetResAdCfg, BuyRam, SellRam, vars
  <2> QED
    BY <2>1, NothingPaid
<1> QED
  BY <1>1, <1>2, <1>3, <1>4, <1>5, <1>6, <1>7, <1>8, <1>9, <1>10, <1>11, <1>12 DEF Next

(***************************************************************************)
(* Tokens leave the stake account only to pay a request whose delay is     *)
(* over, and a request that has grown waits for all of its delay.          *)
(***************************************************************************)
THEOREM RefundsWait == Spec => NoEarlyRefund
<1> DEFINE A == /\ pool' < pool => PaysOut
                /\ \A a \in Accounts : Grows(a) => refunds'[a].wait = RefundDelay
<1>1. Inv /\ [Next]_vars => A
  <2> SUFFICES ASSUME Inv, [Next]_vars PROVE A
    OBVIOUS
  <2>1. pool \in Nat /\ pool' \in Nat
    BY NextInv DEF Inv, TypeOK
  <2>2. pool' >= pool \/ PaysOut
    BY StepsPay
  <2>3. pool' < pool => PaysOut
    BY <2>1, <2>2
  <2> QED
    BY <2>3, StepsPay
<1>2. Inv /\ [Next]_vars => [A]_vars
  BY <1>1
<1>3. NoEarlyRefund <=> [][A]_vars
  BY PTL DEF NoEarlyRefund, PaysOut, Grows
<1> HIDE DEF A
<1> QED
  BY <1>2, <1>3, InitInv, NextInv, PTL DEF Spec

-----------------------------------------------------------------------------
(***************************************************************************)
(* Staking as custody: an account's claim is what it has delegated and     *)
(* what is being refunded to it.                                           *)
(***************************************************************************)
LEMMA ClaimType ==
  ASSUME TypeOK, NEW a \in Accounts
  PROVE  /\ Delegated({a} \X Accounts) \in Nat
         /\ Claim[a] = Delegated({a} \X Accounts) + RefundOf(a, "net") + RefundOf(a, "cpu")
         /\ Claim[a] \in Nat
<1>1. {a} \X Accounts \in SUBSET Pairs
  BY DEF Pairs
<1>2. Total(del_net, {a} \X Accounts) \in Nat /\ Total(del_cpu, {a} \X Accounts) \in Nat
  BY <1>1, PairsFinite, TotalType DEF TypeOK
<1>3. Delegated({a} \X Accounts) \in Nat
  BY <1>2 DEF Delegated
<1>4. Claim[a] = Delegated({a} \X Accounts) + RefundOf(a, "net") + RefundOf(a, "cpu")
  BY DEF Claim
<1> QED
  BY <1>3, <1>4, RefundOfType

LEMMA ClaimsStay ==
  ASSUME del_net' = del_net, del_cpu' = del_cpu,
         \A a \in Accounts : /\ RefundOf(a, "net")' = RefundOf(a, "net")
                             /\ RefundOf(a, "cpu")' = RefundOf(a, "cpu")
  PROVE  Claim' = Claim
<1>1. \A a \in Accounts : Delegated({a} \X Accounts)' = Delegated({a} \X Accounts)
  BY DEF Delegated
<1> QED
  BY <1>1 DEF Claim

(***************************************************************************)
(* changebw adds what is paid in to the claim of the delegator, whoever    *)
(* pays it.                                                                *)
(***************************************************************************)
LEMMA ChangeBwClaims ==
  ASSUME Inv, NEW source \in Accounts, NEW receiver \in Accounts, NEW transfer \in BOOLEAN,
         NEW dnet \in Int, NEW dcpu \in Int,
         \/ dnet >= 0 /\ dcpu >= 0
         \/ dnet <= 0 /\ dcpu <= 0,
         ChangeBw(source, receiver, dnet, dcpu, transfer)
  PROVE  [Trust!Next]_Trust!vars
<1> DEFINE from == IF transfer THEN receiver ELSE source
           paid == PaidIn(from, receiver, dnet, dcpu, transfer)
<1>1. from \in Accounts /\ TypeOK
  BY DEF Inv
<1>2. /\ UpdateDelegation(from, receiver, dnet, dcpu)
      /\ UpdateTotals(receiver, dnet, dcpu)
      /\ RefundRequest(from, receiver, dnet, dcpu, transfer)
      /\ liquid[source] >= paid
      /\ liquid' = [liquid EXCEPT ![source] = liquid[source] - paid]
      /\ pool' = pool + paid
  BY DEF ChangeBw
<1> HIDE DEF from, paid
<1>3. /\ paid \in Nat
      /\ \A a \in Accounts \ {from} : refunds'[a] = refunds[a]
      /\ paid = dnet + dcpu + (RefundOf(from, "net")' - RefundOf(from, "net"))
                            + (RefundOf(from, "cpu")' - RefundOf(from, "cpu"))
  BY <1>1, <1>2, PaidOrRefunded DEF paid
<1>4. /\ Delegated({from} \X Accounts)' = Delegated({from} \X Accounts) + dnet + dcpu
      /\ \A f \in Accounts \ {from} : Delegated({f} \X Accounts)' = Delegated({f} \X Accounts)
  <2>1. /\ del_net' \in [Pairs -> Nat] /\ del_cpu' \in [Pairs -> Nat]
        /\ res_net' \in [Accounts -> Nat] /\ res_cpu' \in [Accounts -> Nat]
        /\ ReceiverTotals'
        /\ Delegated(Pairs) \in Nat
        /\ Delegated(Pairs)' = Delegated(Pairs) + dnet + dcpu
        /\ \A f \in Accounts : Delegated({f} \X Accounts) \in Nat
        /\ Delegated({from} \X Accounts)' = Delegated({from} \X Accounts) + dnet + dcpu
        /\ \A f \in Accounts \ {from} : Delegated({f} \X Accounts)' = Delegated({f} \X Accounts)
    BY <1>1, <1>2, DelegationSums
  <2> QED
    BY <2>1
<1>5. TypeOK'
  BY ChangeBwStep DEF Inv
<1>6. Claim'[from] = Claim[from] + paid
  <2>1. /\ Claim[from] = Delegated({from} \X Accounts) + RefundOf(from, "net") + RefundOf(from, "cpu")
        /\ Claim'[from] = Delegated({from} \X Accounts)' + RefundOf(from, "net")' + RefundOf(from, "cpu")'
    BY <1>1 DEF Claim
  <2>2. /\ Delegated({from} \X Accounts) \in Nat
        /\ RefundOf(from, "net") \in Nat /\ RefundOf(from, "cpu") \in Nat
        /\ RefundOf(from, "net")' \in Nat /\ RefundOf(from, "cpu")' \in Nat
    BY <1>1, <1>5, ClaimType, RefundOfType DEF RefundOf, TypeOK, Refund
  <2> QED
    BY <1>3, <1>4, <2>1, <2>2
<1>7. \A a \in Accounts \ {from} : Claim'[a] = Claim[a]
  BY <1>3, <1>4 DEF Claim, RefundOf
<1>8. Claim' = [Claim EXCEPT ![from] = Claim[from] + paid]
  BY <1>1, <1>6, <1>7 DEF Claim
<1>9. liquid \in [Accounts -> Nat] /\ pool \in Nat /\ Claim[from] \in Nat
  BY <1>1, ClaimType DEF TypeOK
<1>10. CASE paid = 0
  <2>1. liquid' = liquid /\ pool' = pool
    BY <1>2, <1>9, <1>10
  <2>2. Claim' = Claim
    BY <1>8, <1>9, <1>10 DEF Claim
  <2> QED
    BY <2>1, <2>2 DEF Trust!vars
<1>11. CASE paid > 0
  <2>1. pool' - pool = paid
    BY <1>2, <1>3, <1>9
  <2>2. Trust!Deposit(source, from)
    BY <1>2, <1>8, <1>11, <2>1 DEF Trust!Deposit
  <2> QED
    BY <1>1, <2>2 DEF Trust!Next
<1> QED
  BY <1>3, <1>10, <1>11

LEMMA PayRefundClaims ==
  ASSUME Inv, NEW owner \in Accounts, PayRefund(owner)
  PROVE  Trust!Next
<1> DEFINE amount == refunds[owner].net + refunds[owner].cpu
<1>1. /\ TypeOK /\ refunds[owner] # NoRefund /\ pool >= amount /\ pool' = pool - amount
      /\ liquid' = [liquid EXCEPT ![owner] = liquid[owner] + amount]
      /\ refunds' = [refunds EXCEPT ![owner] = NoRefund]
      /\ del_net' = del_net /\ del_cpu' = del_cpu
  BY DEF Inv, PayRefund, CanRefund, ledger
<1>2. amount = RefundOf(owner, "net") + RefundOf(owner, "cpu")
  BY <1>1 DEF RefundOf
<1>3. amount \in Nat /\ amount > 0 /\ pool \in Nat
  BY <1>1, <1>2, RefundOfType DEF TypeOK
<1> HIDE DEF amount
<1>4. \A a \in Accounts : Delegated({a} \X Accounts)' = Delegated({a} \X Accounts)
  BY <1>1 DEF Delegated
<1>5. refunds'[owner] = NoRefund /\ \A a \in Accounts \ {owner} : refunds'[a] = refunds[a]
  BY <1>1 DEF TypeOK
<1>6. /\ Claim[owner] \in Nat /\ Claim[owner] >= amount
      /\ Claim'[owner] = Claim[owner] - amount
  <2>1. /\ Delegated({owner} \X Accounts) \in Nat
        /\ Claim[owner] = Delegated({owner} \X Accounts) + RefundOf(owner, "net") + RefundOf(owner, "cpu")
        /\ RefundOf(owner, "net") \in Nat /\ RefundOf(owner, "cpu") \in Nat
    BY <1>1, ClaimType, RefundOfType
  <2>2. RefundOf(owner, "net")' = 0 /\ RefundOf(owner, "cpu")' = 0
    BY <1>5 DEF RefundOf
  <2>3. Claim'[owner] = Delegated({owner} \X Accounts)' + RefundOf(owner, "net")' + RefundOf(owner, "cpu")'
    BY DEF Claim
  <2> QED
    BY <1>2, <1>4, <2>1, <2>2, <2>3
<1>7. \A a \in Accounts \ {owner} : Claim'[a] = Claim[a]
  BY <1>4, <1>5 DEF Claim, RefundOf
<1>8. Claim' = [Claim EXCEPT ![owner] = Claim[owner] - amount]
  BY <1>6, <1>7 DEF Claim
<1>9. pool - pool' = amount
  BY <1>1, <1>3
<1>10. Trust!Withdraw(owner)
  BY <1>1, <1>3, <1>6, <1>8, <1>9 DEF Trust!Withdraw
<1> QED
  BY <1>10 DEF Trust!Next

LEMMA InitCustody == Init => Trust!Init
<1> SUFFICES ASSUME Init
             PROVE  Trust!Init
  OBVIOUS
<1>1. \A a \in Accounts : {a} \X Accounts \in SUBSET Pairs
  BY DEF Pairs
<1>2. ASSUME NEW a \in Accounts
      PROVE  Delegated({a} \X Accounts) + RefundOf(a, "net") + RefundOf(a, "cpu") = 0
  <2>1. \A p \in {a} \X Accounts : del_net[p] = 0 /\ del_cpu[p] = 0
    BY <1>1 DEF Init
  <2>2. Delegated({a} \X Accounts) = 0
    BY <2>1, TotalZero DEF Delegated
  <2>3. RefundOf(a, "net") = 0 /\ RefundOf(a, "cpu") = 0
    BY DEF Init, RefundOf
  <2> QED
    BY <2>2, <2>3
<1>3. Claim = [a \in Accounts |-> 0]
  BY <1>2 DEF Claim
<1> QED
  BY <1>3 DEF Init, Trust!Init

LEMMA CustodyStep == Inv /\ [Next]_vars => [Trust!Next]_Trust!vars
<1> SUFFICES ASSUME Inv, [Next]_vars
             PROVE  [Trust!Next]_Trust!vars
  OBVIOUS
<1> DEFINE Still == /\ liquid' = liquid /\ pool' = pool /\ del_net' = del_net /\ del_cpu' = del_cpu
                    /\ \A a \in Accounts : /\ RefundOf(a, "net")' = RefundOf(a, "net")
                                           /\ RefundOf(a, "cpu")' = RefundOf(a, "cpu")
<1>1. ASSUME Still
      PROVE  UNCHANGED Trust!vars
  BY <1>1, ClaimsStay DEF Trust!vars
<1>2. ASSUME NEW from \in Accounts, NEW receiver \in Accounts, NEW net \in Amounts, NEW cpu \in Amounts,
             NEW transfer \in BOOLEAN, DelegateBw(from, receiver, net, cpu, transfer)
      PROVE  [Trust!Next]_Trust!vars
  <2>1. net \in Nat /\ cpu \in Nat /\ ChangeBw(from, receiver, net, cpu, transfer)
    BY <1>2 DEF DelegateBw
  <2> QED
    BY <2>1, ChangeBwClaims
<1>3. ASSUME NEW from \in Accounts, NEW receiver \in Accounts, NEW net \in Amounts, NEW cpu \in Amounts,
             UndelegateBw(from, receiver, net, cpu)
      PROVE  [Trust!Next]_Trust!vars
  <2>1. net \in Nat /\ cpu \in Nat /\ ChangeBw(from, receiver, -net, -cpu, FALSE)
    BY <1>3 DEF UndelegateBw
  <2>2. -net \in Int /\ -cpu \in Int /\ -net <= 0 /\ -cpu <= 0
    BY <2>1
  <2> QED
    BY <2>1, <2>2, ChangeBwClaims
<1>4. ASSUME NEW owner \in Accounts, ClaimRefund(owner)
      PROVE  [Trust!Next]_Trust!vars
  BY <1>4, PayRefundClaims DEF ClaimRefund
<1>5. ASSUME NEW owner \in Accounts, RunDeferred(owner)
      PROVE  [Trust!Next]_Trust!vars
  <2>1. CASE CanRefund(owner)
    BY <1>5, <2>1, PayRefundClaims DEF RunDeferred
  <2>2. CASE ~CanRefund(owner)
    <3>1. Still
      BY <1>5, <2>2 DEF RunDeferred, ledger, RefundOf
    <3> QED
      BY <1>1, <3>1
  <2> QED
    BY <2>1, <2>2
<1>6. CASE \/ \E owner \in Accounts : DropDeferred(owner)
           \/ \E a \in Accounts, k \in Amounts : Vote(a, k)
           \/ \E r \in Manageable, n \in LimitValues : ManageNet(r, n) \/ ManageCpu(r, n)
           \/ \E r \in Manageable : UnmanageNet(r) \/ UnmanageCpu(r)
           \/ \E r \in Manageable, net, cpu \in LimitValues : SetALimits(r, net, cpu)
           \/ \E limit \in DropLimits : SetResAdCfg(limit)
           \/ \E r \in Traders : BuyRam(r) \/ SellRam(r)
           \/ UNCHANGED vars
  <2>1. Still
    BY <1>6 DEF DropDeferred, Vote, ManageNet, ManageCpu, UnmanageNet, UnmanageCpu, SetALimits,
                SetResAdCfg, BuyRam, SellRam, vars, ledger, RefundOf
  <2> QED
    BY <1>1, <2>1
<1>7. CASE Tick
  <2>1. \A a \in Accounts : /\ refunds'[a] = NoRefund <=> refunds[a] = NoRefund
                            /\ refunds'[a] # NoRefund =>
                                 refunds'[a].net = refunds[a].net /\ refunds'[a].cpu = refunds[a].cpu
    BY <1>7, TickAmounts DEF Inv
  <2>2. Still
    BY <1>7, <2>1 DEF Tick, ledger, RefundOf
  <2> QED
    BY <1>1, <2>2
<1> QED
  BY <1>2, <1>3, <1>4, <1>5, <1>6, <1>7 DEF Next

(***************************************************************************)
(* The stake account is in custody of everybody's own tokens: what an      *)
(* account pays in, or is given with transfer, it gets back, and nobody    *)
(* else does, though requests are restarted, taken back into stakes, and   *)
(* paid by transactions that may be lost or come late.                     *)
(***************************************************************************)
THEOREM KeepsCustody == Spec => IsCustody
<1>1. Spec => Trust!Init /\ [][Trust!Next]_Trust!vars
  BY InitCustody, InitInv, NextInv, CustodyStep, PTL DEF Spec
<1> QED
  BY <1>1 DEF IsCustody, Trust!Spec

(***************************************************************************)
(* The balance of the stake account is never what a refund fails for.      *)
(***************************************************************************)
RefundsAreCovered ==
  \A a \in Accounts : refunds[a] # NoRefund /\ refunds[a].wait = 0 => CanRefund(a)

(***************************************************************************)
(* A request whose delay is over can be paid at once, by its owner or by   *)
(* the deferred transaction, whatever everybody else has taken out.        *)
(***************************************************************************)
THEOREM RefundsNeverBounce == Spec => []RefundsAreCovered
<1>1. ASSUME Inv
      PROVE  RefundsAreCovered
  <2> SUFFICES ASSUME NEW a \in Accounts, refunds[a] # NoRefund, refunds[a].wait = 0
               PROVE  pool >= refunds[a].net + refunds[a].cpu
    BY DEF RefundsAreCovered, CanRefund
  <2>1. \A b \in Accounts : RefundNet[b] \in Nat /\ RefundCpu[b] \in Nat
    BY <1>1, RefundOfType DEF RefundNet, RefundCpu, Inv
  <2>2. RefundNet[a] <= Total(RefundNet, Accounts) /\ Total(RefundNet, Accounts) \in Nat
    BY <2>1, TotalBounds, TotalType
  <2>3. RefundCpu[a] <= Total(RefundCpu, Accounts) /\ Total(RefundCpu, Accounts) \in Nat
    BY <2>1, TotalBounds, TotalType
  <2>4. RefundNet[a] = refunds[a].net /\ RefundCpu[a] = refunds[a].cpu
    BY DEF RefundNet, RefundCpu, RefundOf
  <2>5. Delegated(Pairs) \in Nat
    <3>1. Total(del_net, Pairs) \in Nat /\ Total(del_cpu, Pairs) \in Nat
      BY <1>1, PairsFinite, TotalType DEF TypeOK, Inv
    <3> QED
      BY <3>1 DEF Delegated
  <2>6. pool = Delegated(Pairs) + Total(RefundNet, Accounts) + Total(RefundCpu, Accounts)
    BY <1>1 DEF Inv, StakesAreBacked
  <2> QED
    BY <2>1, <2>2, <2>3, <2>4, <2>5, <2>6
<1> QED
  BY <1>1, InitInv, NextInv, PTL DEF Spec

-----------------------------------------------------------------------------
(***************************************************************************)
(* Staking's part of the purse it shares with voting.                      *)
(***************************************************************************)
StakeOfOneMoves(dnet, dcpu) ==
  \E from \in Accounts :
    /\ staked' = [staked EXCEPT ![from] = staked'[from]] /\ bound' = bound
    /\ staked'[from] = staked[from] + dnet + dcpu /\ staked'[from] >= 0
    /\ staked[from] \in Nat

LEMMA ChangeBwPurse ==
  ASSUME Inv, NEW source \in Accounts, NEW receiver \in Accounts, NEW transfer \in BOOLEAN,
         NEW dnet \in Int, NEW dcpu \in Int,
         ChangeBw(source, receiver, dnet, dcpu, transfer)
  PROVE  StakeOfOneMoves(dnet, dcpu)
<1> DEFINE from == IF transfer THEN receiver ELSE source
<1>1. /\ from \in Accounts /\ staked \in [Accounts -> Nat]
      /\ staked[from] + dnet + dcpu >= 0
      /\ staked' = [staked EXCEPT ![from] = staked[from] + dnet + dcpu]
      /\ bound' = bound
  BY DEF ChangeBw, Inv, TypeOK
<1> HIDE DEF from
<1> QED
  BY <1>1 DEF StakeOfOneMoves

LEMMA PurseTotal ==
  ASSUME NEW f, NEW S
  PROVE  Purse!Total(f, S) = Total(f, S)
<1>1. Purse!Units(f, S) = Units(f, S)
  BY DEF Units, UnitsOf, Purse!Units, Purse!UnitsOf
<1>2. Purse!Cardinality(Units(f, S)) = Cardinality(Units(f, S))
  BY DEF Cardinality, Purse!Cardinality
<1> QED
  BY <1>1, <1>2 DEF Total, Purse!Total

LEMMA PurseStep == Inv /\ [Next]_vars => [Purse!Next]_Purse!vars
<1> SUFFICES ASSUME Inv, [Next]_vars
             PROVE  [Purse!Next]_Purse!vars
  OBVIOUS
<1>1. ASSUME NEW from \in Accounts, NEW receiver \in Accounts, NEW net \in Amounts, NEW cpu \in Amounts,
             NEW transfer \in BOOLEAN, DelegateBw(from, receiver, net, cpu, transfer)
      PROVE  Purse!Next
  <2>1. net \in Nat /\ cpu \in Nat /\ net + cpu > 0 /\ ChangeBw(from, receiver, net, cpu, transfer)
    BY <1>1 DEF DelegateBw
  <2>2. PICK a \in Accounts :
          /\ staked' = [staked EXCEPT ![a] = staked'[a]] /\ bound' = bound
          /\ staked'[a] = staked[a] + net + cpu /\ staked'[a] >= 0
          /\ staked[a] \in Nat
    BY <2>1, ChangeBwPurse DEF StakeOfOneMoves
  <2>3. Purse!Stake(a)
    BY <2>1, <2>2 DEF Purse!Stake
  <2> QED
    BY <2>3 DEF Purse!Next
<1>2. ASSUME NEW from \in Accounts, NEW receiver \in Accounts, NEW net \in Amounts, NEW cpu \in Amounts,
             UndelegateBw(from, receiver, net, cpu)
      PROVE  Purse!Next
  <2>1. /\ net \in Nat /\ cpu \in Nat /\ net + cpu > 0
        /\ ChangeBw(from, receiver, -net, -cpu, FALSE) /\ Activated
    BY <1>2 DEF UndelegateBw
  <2> DEFINE dnet == -net
             dcpu == -cpu
  <2>2. dnet \in Int /\ dcpu \in Int /\ dnet + dcpu < 0
    BY <2>1
  <2>3. ChangeBw(from, receiver, dnet, dcpu, FALSE)
    BY <2>1, Zenon
  <2> HIDE DEF dnet, dcpu
  <2>4. StakeOfOneMoves(dnet, dcpu)
    BY <2>2, <2>3, ChangeBwPurse
  <2>5. PICK a \in Accounts :
          /\ staked' = [staked EXCEPT ![a] = staked'[a]] /\ bound' = bound
          /\ staked'[a] = staked[a] + dnet + dcpu /\ staked'[a] >= 0
          /\ staked[a] \in Nat
    BY <2>4 DEF StakeOfOneMoves
  <2>6. staked'[a] < staked[a]
    <3> DEFINE after == staked'[a]
               before == staked[a]
    <3>1. after = before + dnet + dcpu /\ before \in Nat
      BY <2>5
    <3>2. dnet \in Int /\ dcpu \in Int /\ dnet + dcpu < 0
      BY <2>2
    <3> HIDE DEF after, before
    <3>3. after < before
      BY <3>1, <3>2
    <3> QED
      BY <3>3 DEF after, before
  <2>7. Purse!Total(bound, Accounts) >= MinActivated
    BY <2>1, PurseTotal DEF Activated
  <2>8. Purse!Unstake(a)
    BY <2>5, <2>6, <2>7 DEF Purse!Unstake
  <2> QED
    BY <2>8 DEF Purse!Next
<1>3. ASSUME NEW a \in Accounts, NEW k \in Amounts, Vote(a, k)
      PROVE  Purse!Next
  <2> DEFINE rest == staked[a] - (k - bound[a])
  <2>1. /\ k \in Nat /\ k - bound[a] <= staked[a]
        /\ staked' = [staked EXCEPT ![a] = rest]
        /\ bound' = [bound EXCEPT ![a] = k]
    BY <1>3 DEF Vote
  <2>2. staked \in [Accounts -> Nat] /\ bound \in [Accounts -> Nat]
    BY DEF Inv, TypeOK
  <2>3. rest >= 0 /\ rest + k = staked[a] + bound[a]
    <3>1. staked[a] \in Nat /\ bound[a] \in Nat
      BY <2>2
    <3> QED
      BY <2>1, <3>1
  <2> HIDE DEF rest
  <2>4. staked'[a] = rest /\ bound'[a] = k
    BY <2>1, <2>2
  <2>5. staked' = [staked EXCEPT ![a] = staked'[a]] /\ bound' = [bound EXCEPT ![a] = bound'[a]]
    BY <2>1, <2>4
  <2>6. /\ staked'[a] >= 0 /\ bound'[a] >= 0
        /\ staked'[a] + bound'[a] = staked[a] + bound[a]
    BY <2>1, <2>3, <2>4
  <2>7. Purse!Vote(a)
    BY <2>5, <2>6 DEF Purse!Vote
  <2> QED
    BY <2>7 DEF Purse!Next
<1>4. CASE UNCHANGED <<staked, bound>>
  BY <1>4 DEF Purse!vars
<1> QED
  BY <1>1, <1>2, <1>3, <1>4
     DEF Next, ClaimRefund, PayRefund, RunDeferred, DropDeferred, ManageNet, ManageCpu,
         UnmanageNet, UnmanageCpu, SetALimits, SetResAdCfg, BuyRam, SellRam, Tick, vars

(***************************************************************************)
(* What an account may vote with and what it has in votes move as Suffrage *)
(* says: unstaking and refunding never reach into votes, and no stake      *)
(* leaves before the chain is activated.                                   *)
(***************************************************************************)
THEOREM KeepsSuffrage == Spec => IsSuffrage
<1>1. Init => Purse!Init
  BY DEF Init, Purse!Init
<1>2. Spec => Purse!Init /\ [][Purse!Next]_Purse!vars
  BY <1>1, InitInv, NextInv, PurseStep, PTL DEF Spec
<1> QED
  BY <1>2 DEF IsSuffrage, Purse!Spec
=============================================================================
