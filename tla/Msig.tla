-------------------------------- MODULE Msig ---------------------------------
(***************************************************************************)
(* The fscio.msig contract: proposals, the approvals requested and         *)
(* provided for them, the accounts' invalidations, and the deferred        *)
(* transactions exec sends.                                                *)
(*                                                                         *)
(* Two generations of approvals exist.  Proposals made by the contract's   *)
(* first version have a row in the table "approvals", which keeps no       *)
(* times; new ones have a row in "approvals2".  An action is one           *)
(* transaction, and many fall into one block and see the same time.        *)
(* signer is the permission level the last transaction carried.            *)
(*                                                                         *)
(* A definition whose name ends in _Something is a mutant of the one next  *)
(* to it.                                                                  *)
(***************************************************************************)
EXTENDS Integers, Sequences, FiniteSets

CONSTANTS
  Levels,         \* permission levels: an account and a permission of it
  Accounts,       \* the accounts
  ActorOf,        \* ActorOf[l]: the account of level l
  Proposers,      \* the accounts that propose
  ProposalNames,  \* the names they give to proposals
  Trxs,           \* packed transactions; one stands for its hash, too
  Expiration,     \* Expiration[t]: the second t expires in
  Quorums,        \* Quorums[t]: the sets of levels that authorise t, each with its supersets
  BlocksPerSecond,
  MaxSeats,       \* bound: how often one level may be requested
  MaxTime,        \* bound: the last block of the model
  NoProposal, NoApprovals, NoHash, Never

Keys     == Proposers \X ProposalNames
Times    == 0..MaxTime
Hashes   == Trxs \cup {NoHash}
Approval == [time : Times, hash : Hashes]

ASSUME LevelsAssumption ==
  /\ ActorOf \in [Levels -> Accounts]
  /\ Levels # {} /\ Proposers \subseteq Accounts
ASSUME TrxsAssumption ==
  /\ Expiration \in [Trxs -> Nat]
  /\ Quorums \in [Trxs -> SUBSET SUBSET Levels]
ASSUME BoundsAssumption ==
  BlocksPerSecond \in Nat \ {0} /\ MaxSeats \in Nat /\ MaxTime \in Nat
ASSUME SentinelAssumption ==
  NoProposal \notin Trxs /\ NoHash \notin Trxs /\ Never \notin Times

(***************************************************************************)
(* A row of either table.  requested[l] is how often l stands in           *)
(* requested_approvals, provided[l] what stands in provided_approvals for  *)
(* l, in order: both are vectors, in which a level may occur repeatedly.   *)
(* hash is the hash that approve was given, which the contract compares    *)
(* and forgets; in an old row time is 0 and means nothing.                 *)
(***************************************************************************)
Row == [requested : [Levels -> Nat], provided : [Levels -> Seq(Approval)]]

ASSUME RowAssumption == NoApprovals \notin Row

VARIABLES
  proposals,    \* proposals[k]: the packed transaction proposed under k
  approvals,    \* approvals[k]: the row of approvals2
  old,          \* old[k]: the row of the table of the first version
  invals,       \* invals[a]: a's last_invalidation_time
  deferred,     \* deferred[k]: the transaction that exec sent with the id of k
  now,          \* the time, in blocks
  signer,
  consent,      \* not a table: consent[k] are the levels whose last word on k was yes
  pledged       \* not a table: pledged[k] are the levels that approved k since their
                \* account last invalidated

words == <<consent, pledged>>
vars  == <<proposals, approvals, old, invals, deferred, now, signer, words>>

Second == now \div BlocksPerSecond

Unapproved(requested) ==
  [requested |-> requested, provided |-> [l \in Levels |-> <<>>]]

(***************************************************************************)
(* The requests a proposal may come with.                                  *)
(***************************************************************************)
Requests == [Levels -> 0..MaxSeats]

(***************************************************************************)
(* check_transaction_authorization of the chain.                           *)
(***************************************************************************)
Authorizes(S, t) == \E q \in Quorums[t] : q \subseteq S

Requested(requested) == {l \in Levels : requested[l] > 0}

(***************************************************************************)
(* The contract may have been upgraded with old proposals open.            *)
(***************************************************************************)
Init ==
  /\ proposals \in [Keys -> Trxs \cup {NoProposal}]
  /\ approvals = [k \in Keys |-> NoApprovals]
  /\ \E requested \in [Keys -> Requests] :
       /\ \A k \in Keys : proposals[k] # NoProposal =>
            Authorizes(Requested(requested[k]), proposals[k])
       /\ old = [k \in Keys |-> IF proposals[k] = NoProposal THEN NoApprovals
                                ELSE Unapproved(requested[k])]
  /\ invals = [a \in Accounts |-> Never]
  /\ deferred = [k \in Keys |-> NoProposal]
  /\ now = 0
  /\ signer \in Levels
  /\ consent = [k \in Keys |-> {}] /\ pledged = [k \in Keys |-> {}]

-----------------------------------------------------------------------------
SignedBy(account) == signer' \in Levels /\ ActorOf[signer'] = account

Propose(k, requested, t) ==
  /\ SignedBy(k[1])
  /\ Expiration[t] >= Second
  /\ proposals[k] = NoProposal
  /\ approvals[k] = NoApprovals
  /\ Authorizes(Requested(requested), t)
  /\ proposals' = [proposals EXCEPT ![k] = t]
  /\ approvals' = [approvals EXCEPT ![k] = Unapproved(requested)]
  /\ UNCHANGED <<old, invals, deferred, now, words>>

(***************************************************************************)
(* One entry of level l goes from requested to provided, and back: the     *)
(* first that stands there.                                                *)
(***************************************************************************)
Granted(row, l, approval) ==
  [requested |-> [row.requested EXCEPT ![l] = row.requested[l] - 1],
   provided |-> [row.provided EXCEPT ![l] = Append(row.provided[l], approval)]]

Revoked_Lost(row, l) ==
  [requested |-> row.requested,
   provided |-> [row.provided EXCEPT ![l] = Tail(row.provided[l])]]

Revoked(row, l) ==
  [requested |-> [row.requested EXCEPT ![l] = row.requested[l] + 1],
   provided |-> [row.provided EXCEPT ![l] = Tail(row.provided[l])]]

(***************************************************************************)
(* The row of a proposal: the contract looks into the new table first.     *)
(***************************************************************************)
RowOf(k) == IF approvals[k] # NoApprovals THEN approvals[k] ELSE old[k]

(***************************************************************************)
(* approve; hash is the optional proposal_hash.                            *)
(***************************************************************************)
IsRequested_Ever(row, l) == row.requested[l] + Len(row.provided[l]) > 0

IsRequested(row, l) == row.requested[l] > 0

HashFits_Ignored(k, hash) == proposals[k] # NoProposal

HashFits(k, hash) == hash # NoHash => proposals[k] = hash

Approve(k, l, hash) ==
  /\ signer' = l
  /\ HashFits(k, hash)
  /\ IF approvals[k] # NoApprovals
     THEN /\ IsRequested(approvals[k], l)
          /\ approvals' = [approvals EXCEPT ![k] =
                             Granted(approvals[k], l, [time |-> now, hash |-> hash])]
          /\ UNCHANGED old
     ELSE /\ old[k] # NoApprovals
          /\ IsRequested(old[k], l)
          /\ old' = [old EXCEPT ![k] = Granted(old[k], l, [time |-> 0, hash |-> hash])]
          /\ UNCHANGED approvals
  /\ consent' = [consent EXCEPT ![k] = consent[k] \cup {l}]
  /\ pledged' = [pledged EXCEPT ![k] = pledged[k] \cup {l}]
  /\ UNCHANGED <<proposals, invals, deferred, now>>

Unapprove(k, l) ==
  /\ signer' = l
  /\ IF approvals[k] # NoApprovals
     THEN /\ approvals[k].provided[l] # <<>>
          /\ approvals' = [approvals EXCEPT ![k] = Revoked(approvals[k], l)]
          /\ UNCHANGED old
     ELSE /\ old[k] # NoApprovals
          /\ old[k].provided[l] # <<>>
          /\ old' = [old EXCEPT ![k] = Revoked(old[k], l)]
          /\ UNCHANGED approvals
  /\ consent' = [consent EXCEPT ![k] = consent[k] \ {l}]
  /\ UNCHANGED <<proposals, invals, deferred, now, pledged>>

(***************************************************************************)
(* cancel and exec remove the row from the table it is in.                 *)
(***************************************************************************)
EraseApprovals_OnlyNew(k) ==
  /\ approvals' = [approvals EXCEPT ![k] = NoApprovals]
  /\ UNCHANGED old

EraseApprovals(k) ==
  IF approvals[k] # NoApprovals
  THEN /\ approvals' = [approvals EXCEPT ![k] = NoApprovals]
       /\ UNCHANGED old
  ELSE /\ old[k] # NoApprovals
       /\ old' = [old EXCEPT ![k] = NoApprovals]
       /\ UNCHANGED approvals

Forget(k) ==
  /\ consent' = [consent EXCEPT ![k] = {}]
  /\ pledged' = [pledged EXCEPT ![k] = {}]

MayCancel(k, canceler) == canceler # k[1] => Expiration[proposals[k]] < Second

Cancel(k, canceler) ==
  /\ SignedBy(canceler)
  /\ proposals[k] # NoProposal
  /\ MayCancel(k, canceler)
  /\ proposals' = [proposals EXCEPT ![k] = NoProposal]
  /\ EraseApprovals(k)
  /\ Forget(k)
  /\ UNCHANGED <<invals, deferred, now>>

(***************************************************************************)
(* The levels whose approval exec counts: one given after the last         *)
(* invalidation of the account; in an old row, which has no times, one of  *)
(* an account that never invalidated.                                      *)
(***************************************************************************)
Outlives_SameBlock(time, a) == invals[a] = Never \/ invals[a] <= time

Outlives(time, a) == invals[a] = Never \/ invals[a] < time

Effective(k) ==
  IF approvals[k] # NoApprovals
  THEN {l \in Levels : \E i \in DOMAIN approvals[k].provided[l] :
                         Outlives(approvals[k].provided[l][i].time, ActorOf[l])}
  ELSE IF old[k] # NoApprovals
       THEN {l \in Levels : old[k].provided[l] # <<>> /\ invals[ActorOf[l]] = Never}
       ELSE {}

Exec(k, executer) ==
  /\ SignedBy(executer)
  /\ proposals[k] # NoProposal
  /\ Expiration[proposals[k]] >= Second
  /\ Authorizes(Effective(k), proposals[k])
  /\ EraseApprovals(k)
  /\ deferred[k] = NoProposal
  /\ deferred' = [deferred EXCEPT ![k] = proposals[k]]
  /\ proposals' = [proposals EXCEPT ![k] = NoProposal]
  /\ Forget(k)
  /\ UNCHANGED <<invals, now>>

Dated_Once(account) ==
  IF invals[account] = Never THEN [invals EXCEPT ![account] = now] ELSE invals

Dated(account) == [invals EXCEPT ![account] = now]

Invalidate(account) ==
  /\ SignedBy(account)
  /\ invals' = Dated(account)
  /\ consent' = [k \in Keys |-> {l \in consent[k] : ActorOf[l] # account}]
  /\ pledged' = [k \in Keys |-> {l \in pledged[k] : ActorOf[l] # account}]
  /\ UNCHANGED <<proposals, approvals, old, deferred, now>>

(***************************************************************************)
(* The chain runs a deferred transaction, or drops it; a block ends.       *)
(***************************************************************************)
RunDeferred(k) ==
  /\ deferred[k] # NoProposal
  /\ deferred' = [deferred EXCEPT ![k] = NoProposal]
  /\ UNCHANGED <<proposals, approvals, old, invals, now, signer, words>>

NextBlock ==
  /\ now < MaxTime
  /\ now' = now + 1
  /\ UNCHANGED <<proposals, approvals, old, invals, deferred, signer, words>>

Next ==
  \/ \E k \in Keys, requested \in Requests, t \in Trxs : Propose(k, requested, t)
  \/ \E k \in Keys, l \in Levels, hash \in Hashes : Approve(k, l, hash)
  \/ \E k \in Keys, l \in Levels : Unapprove(k, l)
  \/ \E k \in Keys, a \in Accounts : Cancel(k, a)
  \/ \E k \in Keys, a \in Accounts : Exec(k, a)
  \/ \E a \in Accounts : Invalidate(a)
  \/ \E k \in Keys : RunDeferred(k)
  \/ NextBlock

Spec == Init /\ [][Next]_vars

-----------------------------------------------------------------------------
(***************************************************************************)
(* The tables hold what their types say.                                   *)
(***************************************************************************)
TypeOK ==
  /\ proposals \in [Keys -> Trxs \cup {NoProposal}]
  /\ approvals \in [Keys -> Row \cup {NoApprovals}]
  /\ old \in [Keys -> Row \cup {NoApprovals}]
  /\ invals \in [Accounts -> Times \cup {Never}]
  /\ deferred \in [Keys -> Trxs \cup {NoProposal}]
  /\ now \in Times
  /\ signer \in Levels
  /\ consent \in [Keys -> SUBSET Levels] /\ pledged \in [Keys -> SUBSET Levels]

(***************************************************************************)
(* An open proposal has exactly one row of approvals, in one of the two    *)
(* tables, and there is no row without a proposal: otherwise approvals     *)
(* given to one transaction would be found by the next of the same name.   *)
(***************************************************************************)
OneApprovalsRow ==
  \A k \in Keys :
    /\ proposals[k] = NoProposal => approvals[k] = NoApprovals /\ old[k] = NoApprovals
    /\ proposals[k] # NoProposal => (approvals[k] = NoApprovals) # (old[k] = NoApprovals)

(***************************************************************************)
(* Whoever approved by hash approved the transaction that is now proposed, *)
(* and not another one that took its name.                                 *)
(***************************************************************************)
HashBinds ==
  \A k \in Keys : RowOf(k) # NoApprovals =>
    \A l \in Levels : \A i \in DOMAIN RowOf(k).provided[l] :
      RowOf(k).provided[l][i].hash \in {NoHash, proposals[k]}

(***************************************************************************)
(* Approving, taking back and invalidating in any order never lose or      *)
(* multiply a seat: as long as a proposal is open, every level has as many *)
(* entries, requested and provided, as the proposer gave it.               *)
(***************************************************************************)
Seats(row, l) == row.requested[l] + Len(row.provided[l])

SeatsAreKept ==
  [][\A k \in Keys, l \in Levels :
       RowOf(k) # NoApprovals /\ RowOf(k)' # NoApprovals
         => Seats(RowOf(k)', l) = Seats(RowOf(k), l)]_vars

(***************************************************************************)
(* "Only proposer can cancel not expired transaction" (README.md of the    *)
(* contract, line 36): a proposal that can still be executed goes away     *)
(* only with its proposer's signature or into a deferred transaction.      *)
(***************************************************************************)
OnlyProposerCancels ==
  [][\A k \in Keys :
       proposals[k] # NoProposal /\ proposals'[k] = NoProposal /\ Expiration[proposals[k]] >= Second
         => ActorOf[signer'] = k[1] \/ deferred'[k] = proposals[k]]_vars

(***************************************************************************)
(* The contract keeps what a multisignature service promises: a            *)
(* transaction is sent, once, only with the standing consent of enough     *)
(* levels.  An approval counts for nothing once its account has            *)
(* invalidated, in the same block as well, whichever table it stands in,   *)
(* and nothing but a new approval by the level itself makes it count again.*)
(* unapprove makes it count for nothing if the level was requested once.   *)
(* It erases the first entry of the level only: another that a level       *)
(* requested repeatedly has given goes on counting, though the last word   *)
(* of the level was no.                                                    *)
(* In the second a transaction expires in it is live: it can be sent, and  *)
(* nobody but its proposer can cancel it.                                  *)
(***************************************************************************)
Repeated == [k \in Keys |-> {l \in Levels : RowOf(k) # NoApprovals /\ Seats(RowOf(k), l) > 1}]

Live == [k \in Keys |-> proposals[k] # NoProposal /\ Expiration[proposals[k]] >= Second]

ConsentView ==
  INSTANCE Consent WITH
    Actor <- LAMBDA l : ActorOf[l],
    Owner <- LAMBDA k : k[1],
    Suffices <- LAMBDA t, S : Authorizes(S, t),
    None <- NoProposal,
    open <- proposals,
    assent <- consent,
    repeated <- Repeated,
    sent <- deferred,
    live <- Live

IsConsent == ConsentView!Spec
=============================================================================
