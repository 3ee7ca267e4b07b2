------------------------------- MODULE Consent -------------------------------
(***************************************************************************)
(* What a multisignature service promises.  Under a key somebody puts a    *)
(* transaction before its signatories; assent[k] are the signatories whose *)
(* consent stands.  Consent is given and taken back by the signatory       *)
(* alone, an account can take back all it ever gave, and a transaction is  *)
(* sent, once, only while those that consent suffice for it.  It is live   *)
(* until it expires, for good; only while it is can it be sent, and only   *)
(* who put it can withdraw it then.                                        *)
(*                                                                         *)
(* One thing is promised to a signatory only if it is named once: that it  *)
(* no longer counts when it takes its consent back.  Of one that is named  *)
(* repeatedly another consent may be left, and only its account can take   *)
(* them all back.                                                          *)
(***************************************************************************)
EXTENDS FiniteSets

CONSTANTS
  Keys,         \* what a proposal is known by
  Trxs,         \* the transactions
  Levels,       \* the signatories
  Accounts,     \* the accounts that act through them
  Actor(_),     \* the account of a signatory
  Owner(_),     \* Owner(k): the account that may propose under k
  Suffices(_, _), \* Suffices(t, S): the signatories S may send t
  None          \* no transaction

VARIABLES
  open,         \* open[k]: the transaction proposed under k
  assent,       \* assent[k]: the signatories that consent to it
  pledged,      \* pledged[k]: those that ever did, unless their account took all back
  repeated,     \* repeated[k]: the signatories that are named repeatedly
  sent,         \* sent[k]: the transaction sent under k that has not run yet
  live,         \* live[k]: what is proposed under k has not expired
  signer        \* the signatory of the last step

vars == <<open, assent, pledged, repeated, sent, live, signer>>

Init ==
  /\ open \in [Keys -> Trxs \cup {None}]
  /\ assent = [k \in Keys |-> {}] /\ pledged = [k \in Keys |-> {}]
  /\ repeated \in [Keys -> SUBSET Levels]
  /\ sent = [k \in Keys |-> None]
  /\ live = [k \in Keys |-> open[k] # None]
  /\ signer \in Levels

Put(k, t) ==
  /\ open[k] = None
  /\ open' = [open EXCEPT ![k] = t]
  /\ \E S \in SUBSET Levels : repeated' = [repeated EXCEPT ![k] = S]
  /\ live' = [live EXCEPT ![k] = TRUE]
  /\ signer' \in Levels /\ Actor(signer') = Owner(k)
  /\ UNCHANGED <<assent, pledged, sent>>

Assent(k, l) ==
  /\ open[k] # None
  /\ signer' = l
  /\ assent' = [assent EXCEPT ![k] = @ \cup {l}]
  /\ pledged' = [pledged EXCEPT ![k] = @ \cup {l}]
  /\ UNCHANGED <<open, repeated, sent, live>>

Retract(k, l) ==
  /\ open[k] # None
  /\ signer' = l
  /\ assent' = [assent EXCEPT ![k] = @ \ {l}]
  /\ UNCHANGED <<open, pledged, repeated, sent, live>>

RetractAll(a) ==
  /\ signer' \in {l \in Levels : Actor(l) = a}
  /\ assent' = [k \in Keys |-> {l \in assent[k] : Actor(l) # a}]
  /\ pledged' = [k \in Keys |-> {l \in pledged[k] : Actor(l) # a}]
  /\ UNCHANGED <<open, repeated, sent, live>>

Close(k) ==
  /\ open' = [open EXCEPT ![k] = None]
  /\ assent' = [assent EXCEPT ![k] = {}] /\ pledged' = [pledged EXCEPT ![k] = {}]
  /\ repeated' = [repeated EXCEPT ![k] = {}]

Drop(k) ==
  /\ open[k] # None
  /\ Close(k)
  /\ live' = [live EXCEPT ![k] = FALSE]
  /\ signer' \in Levels
  /\ live[k] => Actor(signer') = Owner(k)
  /\ UNCHANGED sent

Send(k) ==
  /\ open[k] # None
  /\ live[k]
  /\ Suffices(open[k], assent[k] \cup (pledged[k] \cap repeated[k]))
  /\ sent[k] = None
  /\ sent' = [sent EXCEPT ![k] = open[k]]
  /\ Close(k)
  /\ live' = [live EXCEPT ![k] = FALSE]
  /\ signer' \in Levels

Run(k) ==
  /\ sent[k] # None
  /\ sent' = [sent EXCEPT ![k] = None]
  /\ UNCHANGED <<open, assent, pledged, repeated, live, signer>>

Expire(S) ==
  /\ live' = [k \in Keys |-> live[k] /\ k \notin S]
  /\ UNCHANGED <<open, assent, pledged, repeated, sent, signer>>

Next ==
  \/ \E k \in Keys, t \in Trxs : Put(k, t)
  \/ \E k \in Keys, l \in Levels : Assent(k, l) \/ Retract(k, l)
  \/ \E a \in Accounts : RetractAll(a)
  \/ \E k \in Keys : Drop(k) \/ Send(k) \/ Run(k)
  \/ \E S \in SUBSET Keys : Expire(S)

Spec == Init /\ [][Next]_vars
=============================================================================
