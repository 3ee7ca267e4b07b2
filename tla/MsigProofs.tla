----------------------------- MODULE MsigProofs ------------------------------
(***************************************************************************)
(* Theorems about Msig: for all levels, accounts, proposals, transactions, *)
(* quorums and expirations, and any number of seats and blocks.            *)
(***************************************************************************)
EXTENDS Msig, SequenceTheorems, TLAPS

-----------------------------------------------------------------------------
(***************************************************************************)
(* What a row has of a level, without the order.                           *)
(***************************************************************************)
Given(row, l) == {row.provided[l][i] : i \in DOMAIN row.provided[l]}

Tables == [Keys -> Row \cup {NoApprovals}]

(***************************************************************************)
(* Table t becomes u: a level's seat at k is used for approval a, or freed *)
(* again.                                                                  *)
(***************************************************************************)
ChangesRow(t, u, k, l) ==
  /\ u \in Tables /\ u[k] # NoApprovals
  /\ \A j \in Keys \ {k} : u[j] = t[j]
  /\ \A m \in Levels : Seats(u[k], m) = Seats(t[k], m)
  /\ \A m \in Levels \ {l} : Given(u[k], m) = Given(t[k], m)

LEMMA RowType ==
  ASSUME NEW row \in Row, NEW l \in Levels
  PROVE  /\ row.requested \in [Levels -> Nat] /\ row.provided \in [Levels -> Seq(Approval)]
         /\ row.requested[l] \in Nat /\ row.provided[l] \in Seq(Approval)
         /\ Len(row.provided[l]) \in Nat
         /\ Given(row, l) \subseteq Approval
         /\ (row.provided[l] = <<>>) <=> (Given(row, l) = {})
<1>1. /\ row.requested \in [Levels -> Nat] /\ row.provided \in [Levels -> Seq(Approval)]
      /\ row.requested[l] \in Nat /\ row.provided[l] \in Seq(Approval)
  BY DEF Row
<1> DEFINE s == row.provided[l]
<1>2. s \in Seq(Approval) /\ Given(row, l) = {s[i] : i \in DOMAIN s}
  BY <1>1 DEF Given
<1> HIDE DEF s
<1>3. Len(s) \in Nat /\ DOMAIN s = 1..Len(s)
  BY <1>2
<1>4. Given(row, l) \subseteq Approval
  BY <1>2, <1>3, ElementOfSeq
<1>5. (s = <<>>) <=> (Given(row, l) = {})
  <2>1. CASE s = <<>>
    BY <1>2, <2>1
  <2>2. CASE s # <<>>
    <3>1. 1 \in DOMAIN s
      BY <1>2, <1>3, <2>2, EmptySeq
    <3> QED
      BY <1>2, <2>2, <3>1
  <2> QED
    BY <2>1, <2>2
<1> QED
  BY <1>1, <1>3, <1>4, <1>5 DEF s

(***************************************************************************)
(* What append and tail do to the members of a sequence.                   *)
(***************************************************************************)
LEMMA AppendMembers ==
  ASSUME NEW s \in Seq(Approval), NEW a \in Approval
  PROVE  /\ Append(s, a) \in Seq(Approval) /\ Len(Append(s, a)) = Len(s) + 1
         /\ {Append(s, a)[i] : i \in DOMAIN Append(s, a)} \subseteq {s[i] : i \in DOMAIN s} \cup {a}
<1>1. /\ Append(s, a) \in Seq(Approval) /\ Len(Append(s, a)) = Len(s) + 1
      /\ \A i \in 1..Len(s) : Append(s, a)[i] = s[i]
      /\ Append(s, a)[Len(s) + 1] = a
  BY AppendProperties
<1>2. DOMAIN s = 1..Len(s) /\ DOMAIN Append(s, a) = 1..(Len(s) + 1) /\ Len(s) \in Nat
  BY <1>1
<1> DEFINE b == Append(s, a)
           n == Len(s)
<1>3. /\ \A i \in 1..n : b[i] = s[i]
      /\ b[n + 1] = a /\ DOMAIN s = 1..n /\ DOMAIN b = 1..(n + 1) /\ n \in Nat
  BY <1>1, <1>2
<1> HIDE DEF b, n
<1>4. ASSUME NEW i \in DOMAIN b
      PROVE  b[i] \in {s[j] : j \in DOMAIN s} \cup {a}
  <2>1. i \in 1..n \/ i = n + 1
    BY <1>3, <1>4
  <2> QED
    BY <1>3, <2>1
<1>5. {b[i] : i \in DOMAIN b} \subseteq {s[i] : i \in DOMAIN s} \cup {a}
  BY <1>4
<1> QED
  BY <1>1, <1>5 DEF b

LEMMA TailMembers ==
  ASSUME NEW s \in Seq(Approval), s # <<>>
  PROVE  /\ Tail(s) \in Seq(Approval) /\ Len(Tail(s)) = Len(s) - 1
         /\ {Tail(s)[i] : i \in DOMAIN Tail(s)} \subseteq {s[i] : i \in DOMAIN s}
<1>1. /\ Tail(s) \in Seq(Approval) /\ Len(Tail(s)) = Len(s) - 1
      /\ \A i \in 1..Len(Tail(s)) : Tail(s)[i] = s[i + 1]
  BY HeadTailProperties
<1>2. DOMAIN s = 1..Len(s) /\ DOMAIN Tail(s) = 1..Len(Tail(s)) /\ Len(s) \in Nat
  BY <1>1
<1> DEFINE b == Tail(s)
           n == Len(s)
           m == Len(Tail(s))
<1>3. /\ \A i \in 1..m : b[i] = s[i + 1]
      /\ m = n - 1 /\ DOMAIN s = 1..n /\ DOMAIN b = 1..m /\ n \in Nat
  BY <1>1, <1>2
<1> HIDE DEF b, n, m
<1>4. ASSUME NEW i \in DOMAIN b
      PROVE  b[i] \in {s[j] : j \in DOMAIN s}
  <2>1. i + 1 \in DOMAIN s /\ b[i] = s[i + 1]
    BY <1>3, <1>4
  <2> QED
    BY <2>1
<1>5. {b[i] : i \in DOMAIN b} \subseteq {s[i] : i \in DOMAIN s}
  BY <1>4
<1> QED
  BY <1>1, <1>5 DEF b

(***************************************************************************)
(* An approval granted, and one revoked.                                   *)
(***************************************************************************)
WithGranted(t, k, l, a) == [t EXCEPT ![k] = Granted(t[k], l, a)]

WithRevoked(t, k, l) == [t EXCEPT ![k] = Revoked(t[k], l)]

LEMMA Grant ==
  ASSUME NEW t \in Tables, NEW k \in Keys, NEW l \in Levels, NEW a \in Approval,
         t[k] # NoApprovals, IsRequested(t[k], l)
  PROVE  /\ ChangesRow(t, WithGranted(t, k, l, a), k, l)
         /\ Given(WithGranted(t, k, l, a)[k], l) \subseteq Given(t[k], l) \cup {a}
<1> DEFINE u == WithGranted(t, k, l, a)
           row == t[k]
           used == [row.requested EXCEPT ![l] = row.requested[l] - 1]
           more == [row.provided EXCEPT ![l] = Append(row.provided[l], a)]
           new == Granted(row, l, a)
<1>1. row \in Row /\ row.requested[l] > 0
  BY DEF Tables, IsRequested
<1> HIDE DEF row
<1>2. /\ row.requested \in [Levels -> Nat] /\ row.provided \in [Levels -> Seq(Approval)]
      /\ \A m \in Levels : row.requested[m] \in Nat /\ Len(row.provided[m]) \in Nat
      /\ row.provided[l] \in Seq(Approval)
  BY <1>1, RowType
<1>3. /\ used \in [Levels -> Nat] /\ used[l] = row.requested[l] - 1
      /\ \A m \in Levels \ {l} : used[m] = row.requested[m]
  BY <1>1, <1>2
<1>4. /\ Append(row.provided[l], a) \in Seq(Approval)
      /\ Len(Append(row.provided[l], a)) = Len(row.provided[l]) + 1
      /\ {Append(row.provided[l], a)[i] : i \in DOMAIN Append(row.provided[l], a)}
           \subseteq {row.provided[l][i] : i \in DOMAIN row.provided[l]} \cup {a}
  BY <1>2, AppendMembers
<1>5. /\ more \in [Levels -> Seq(Approval)] /\ more[l] = Append(row.provided[l], a)
      /\ \A m \in Levels \ {l} : more[m] = row.provided[m]
  BY <1>2, <1>4
<1>6. new = [requested |-> used, provided |-> more]
  BY DEF Granted
<1> HIDE DEF used, more, new
<1>7. new \in Row /\ new.requested = used /\ new.provided = more
  BY <1>3, <1>5, <1>6 DEF Row
<1>8. ASSUME NEW m \in Levels
      PROVE  Seats(new, m) = Seats(row, m)
  <2>1. CASE m # l
    <3>1. used[m] = row.requested[m] /\ more[m] = row.provided[m]
      BY <1>3, <1>5, <2>1
    <3> QED
      BY <1>7, <3>1 DEF Seats
  <2>2. CASE m = l
    <3>1. used[l] = row.requested[l] - 1 /\ Len(more[l]) = Len(row.provided[l]) + 1
      BY <1>3, <1>4, <1>5
    <3>2. row.requested[l] \in Nat /\ Len(row.provided[l]) \in Nat
      BY <1>2
    <3>3. used[l] + Len(more[l]) = row.requested[l] + Len(row.provided[l])
      BY <3>1, <3>2
    <3> QED
      BY <1>7, <2>2, <3>3 DEF Seats
  <2> QED
    BY <2>1, <2>2
<1>9. /\ \A m \in Levels \ {l} : Given(new, m) = Given(row, m)
      /\ Given(new, l) \subseteq Given(row, l) \cup {a}
  BY <1>4, <1>5, <1>7 DEF Given
<1>10. /\ u \in Tables /\ u[k] = new /\ new # NoApprovals
       /\ \A j \in Keys \ {k} : u[j] = t[j]
  BY <1>7, RowAssumption DEF Tables, new, row, WithGranted
<1> QED
  BY <1>8, <1>9, <1>10 DEF ChangesRow, row

LEMMA Revoke ==
  ASSUME NEW t \in Tables, NEW k \in Keys, NEW l \in Levels,
         t[k] # NoApprovals, t[k].provided[l] # <<>>
  PROVE  /\ ChangesRow(t, WithRevoked(t, k, l), k, l)
         /\ Given(WithRevoked(t, k, l)[k], l) \subseteq Given(t[k], l)
         /\ Len(t[k].provided[l]) = 1 => Given(WithRevoked(t, k, l)[k], l) = {}
<1> DEFINE u == WithRevoked(t, k, l)
           row == t[k]
           rest == Tail(row.provided[l])
           freed == [row.requested EXCEPT ![l] = row.requested[l] + 1]
           fewer == [row.provided EXCEPT ![l] = rest]
           new == Revoked(row, l)
<1>1. row \in Row /\ row.provided[l] # <<>>
  BY DEF Tables
<1> HIDE DEF row
<1>2. /\ row.requested \in [Levels -> Nat] /\ row.provided \in [Levels -> Seq(Approval)]
      /\ \A m \in Levels : row.requested[m] \in Nat /\ Len(row.provided[m]) \in Nat
      /\ row.provided[l] \in Seq(Approval)
  BY <1>1, RowType
<1>3. /\ freed \in [Levels -> Nat] /\ freed[l] = row.requested[l] + 1
      /\ \A m \in Levels \ {l} : freed[m] = row.requested[m]
  BY <1>2
<1>4. /\ rest \in Seq(Approval) /\ Len(rest) = Len(row.provided[l]) - 1
      /\ {rest[i] : i \in DOMAIN rest} \subseteq {row.provided[l][i] : i \in DOMAIN row.provided[l]}
  BY <1>1, <1>2, TailMembers
<1>5. /\ fewer \in [Levels -> Seq(Approval)] /\ fewer[l] = rest
      /\ \A m \in Levels \ {l} : fewer[m] = row.provided[m]
  BY <1>2, <1>4
<1>6. new = [requested |-> freed, provided |-> fewer]
  BY DEF Revoked
<1> HIDE DEF rest, freed, fewer, new
<1>7. new \in Row /\ new.requested = freed /\ new.provided = fewer
  BY <1>3, <1>5, <1>6 DEF Row
<1>8. ASSUME NEW m \in Levels
      PROVE  Seats(new, m) = Seats(row, m)
  <2>1. CASE m # l
    <3>1. freed[m] = row.requested[m] /\ fewer[m] = row.provided[m]
      BY <1>3, <1>5, <2>1
    <3> QED
      BY <1>7, <3>1 DEF Seats
  <2>2. CASE m = l
    <3>1. freed[l] = row.requested[l] + 1
      BY <1>3
    <3>2. Len(fewer[l]) = Len(row.provided[l]) - 1
      BY <1>4, <1>5
    <3>3. row.requested[l] \in Nat /\ Len(row.provided[l]) \in Nat
      BY <1>2
    <3> DEFINE x == row.requested[l]
               y == Len(row.provided[l])
               v == freed[l]
               w == Len(fewer[l])
    <3> HIDE DEF x, y, v, w
    <3>4. v + w = x + y
      <4>1. x \in Nat /\ y \in Nat /\ v = x + 1 /\ w = y - 1
        BY <3>1, <3>2, <3>3 DEF x, y, v, w
      <4> QED
        BY <4>1
    <3> QED
      BY <1>7, <2>2, <3>4 DEF Seats, x, y, v, w
  <2> QED
    BY <2>1, <2>2
<1>9. /\ \A m \in Levels \ {l} : Given(new, m) = Given(row, m)
      /\ Given(new, l) \subseteq Given(row, l)
  BY <1>4, <1>5, <1>7 DEF Given
<1>10. Len(row.provided[l]) = 1 => Given(new, l) = {}
  <2> HAVE Len(row.provided[l]) = 1
  <2>1. Len(new.provided[l]) = 0 /\ new.provided[l] \in Seq(Approval)
    BY <1>4, <1>5, <1>7
  <2>2. new.provided[l] = <<>>
    BY <2>1, EmptySeq
  <2> QED
    BY <1>7, <2>2, RowType
<1>11. /\ u \in Tables /\ u[k] = new /\ new # NoApprovals
       /\ \A j \in Keys \ {k} : u[j] = t[j]
  BY <1>7, RowAssumption DEF Tables, new, row, WithRevoked
<1> QED
  BY <1>8, <1>9, <1>10, <1>11 DEF ChangesRow, row

-----------------------------------------------------------------------------
(***************************************************************************)
(* No approval is from the future.                                         *)
(***************************************************************************)
Dates ==
  \A k \in Keys : approvals[k] # NoApprovals =>
    \A l \in Levels : \A a \in Given(approvals[k], l) : a.time <= now

(***************************************************************************)
(* What stands in the tables for a level that has not approved since its   *)
(* account last invalidated counts for nothing.                            *)
(***************************************************************************)
Covered ==
  \A k \in Keys, l \in Levels : l \notin pledged[k] =>
    /\ approvals[k] # NoApprovals =>
         \A a \in Given(approvals[k], l) : ~Outlives(a.time, ActorOf[l])
    /\ old[k] # NoApprovals => Given(old[k], l) = {} \/ invals[ActorOf[l]] # Never

Inv == TypeOK /\ OneApprovalsRow /\ HashBinds /\ Dates /\ Covered

(***************************************************************************)
(* HashBinds, without the order of the approvals.                          *)
(***************************************************************************)
Binds ==
  \A k \in Keys : RowOf(k) # NoApprovals =>
    \A l \in Levels : \A a \in Given(RowOf(k), l) : a.hash \in {NoHash, proposals[k]}

LEMMA HashesAreGiven == HashBinds <=> Binds
<1> DEFINE Held(k, l, a) == a.hash \in {NoHash, proposals[k]}
<1>1. ASSUME NEW k \in Keys, NEW l \in Levels
      PROVE  (\A i \in DOMAIN RowOf(k).provided[l] : Held(k, l, RowOf(k).provided[l][i]))
               <=> (\A a \in Given(RowOf(k), l) : Held(k, l, a))
  <2> HIDE DEF Held
  <2> QED
    BY DEF Given
<1> QED
  BY <1>1 DEF HashBinds, Binds

LEMMA NothingGiven ==
  ASSUME NEW requested \in Requests
  PROVE  /\ Unapproved(requested) \in Row
         /\ \A l \in Levels : Given(Unapproved(requested), l) = {}
<1> DEFINE none == [l \in Levels |-> <<>>]
<1>1. requested \in [Levels -> Nat]
  BY BoundsAssumption DEF Requests
<1>2. none \in [Levels -> Seq(Approval)] /\ \A l \in Levels : none[l] = <<>>
  OBVIOUS
<1>3. Unapproved(requested) = [requested |-> requested, provided |-> none]
  BY DEF Unapproved
<1> HIDE DEF none
<1>4. Unapproved(requested) \in Row /\ Unapproved(requested).provided = none
  BY <1>1, <1>2, <1>3 DEF Row
<1> QED
  BY <1>2, <1>4, RowType

LEMMA InitInv == Init => Inv
<1> SUFFICES ASSUME Init PROVE Inv
  OBVIOUS
<1>1. PICK requested \in [Keys -> Requests] :
        old = [k \in Keys |-> IF proposals[k] = NoProposal THEN NoApprovals
                              ELSE Unapproved(requested[k])]
  BY DEF Init
<1>2. \A k \in Keys : proposals[k] # NoProposal =>
        /\ old[k] = Unapproved(requested[k])
        /\ old[k] \in Row /\ \A l \in Levels : Given(old[k], l) = {}
  BY <1>1, NothingGiven
<1>3. \A k \in Keys : proposals[k] = NoProposal => old[k] = NoApprovals
  BY <1>1
<1>4. \A k \in Keys : approvals[k] = NoApprovals /\ RowOf(k) = old[k]
  BY DEF Init, RowOf
<1>5. TypeOK
  <2>1. old \in [Keys -> Row \cup {NoApprovals}]
    <3>1. old = [k \in Keys |-> old[k]]
      BY <1>1
    <3> QED
      BY <1>2, <1>3, <3>1
  <2>2. now \in Times
    BY BoundsAssumption DEF Init, Times
  <2> QED
    BY <2>1, <2>2 DEF Init, TypeOK
<1>6. OneApprovalsRow
  BY <1>2, <1>3, <1>4, RowAssumption DEF OneApprovalsRow
<1>7. HashBinds
  <2>1. Binds
    BY <1>2, <1>3, <1>4 DEF Binds
  <2> QED
    BY <2>1, HashesAreGiven
<1>8. Dates
  BY <1>4 DEF Dates
<1>9. Covered
  BY <1>2, <1>3, <1>4 DEF Covered
<1> QED
  BY <1>5, <1>6, <1>7, <1>8, <1>9 DEF Inv

-----------------------------------------------------------------------------
(***************************************************************************)
(* What a level has given in a table after a step that grants nothing, it  *)
(* had given before.                                                       *)
(***************************************************************************)
Inherited ==
  \A k \in Keys, l \in Levels :
    /\ approvals'[k] # NoApprovals =>
         \A a \in Given(approvals'[k], l) : approvals[k] # NoApprovals /\ a \in Given(approvals[k], l)
    /\ old'[k] # NoApprovals =>
         \A a \in Given(old'[k], l) : old[k] # NoApprovals /\ a \in Given(old[k], l)

(***************************************************************************)
(* Such a step keeps the invariant if time does not go back, an approval   *)
(* that counts for nothing does not count again, nobody's approval is      *)
(* forgotten while it counts, and no proposal takes another's row.         *)
(***************************************************************************)
LEMMA InheritedInv ==
  ASSUME Inv, TypeOK', OneApprovalsRow', Inherited, now' >= now,
         \A k \in Keys : proposals'[k] # NoProposal /\ proposals[k] # NoProposal
                           => proposals'[k] = proposals[k],
         \A a \in Accounts : invals'[a] = invals[a] \/ invals'[a] = now,
         \A k \in Keys, l \in Levels : l \notin pledged'[k] =>
           \/ l \notin pledged[k]
           \/ invals'[ActorOf[l]] = now
           \/ /\ approvals'[k] # NoApprovals => Given(approvals'[k], l) = {}
              /\ old'[k] # NoApprovals => Given(old'[k], l) = {}
  PROVE  Inv'
<1>1. now \in Int /\ now' \in Int /\ now # Never
  BY SentinelAssumption DEF Inv, TypeOK, Times
<1>2. \A k \in Keys, l \in Levels : approvals[k] # NoApprovals =>
        \A a \in Given(approvals[k], l) : a.time \in Int /\ a.time <= now
  <2> SUFFICES ASSUME NEW k \in Keys, NEW l \in Levels, approvals[k] # NoApprovals,
                      NEW a \in Given(approvals[k], l)
               PROVE  a.time \in Int /\ a.time <= now
    OBVIOUS
  <2>1. approvals[k] \in Row
    BY DEF Inv, TypeOK
  <2>2. a \in Approval
    BY <2>1, RowType
  <2>3. a.time \in Int
    BY <2>2 DEF Approval, Times
  <2> QED
    BY <2>3 DEF Inv, Dates
<1>3. Dates'
  BY <1>1, <1>2 DEF Dates, Inherited
<1>4. ASSUME NEW k \in Keys, NEW l \in Levels, l \notin pledged'[k]
      PROVE  /\ approvals'[k] # NoApprovals =>
                  \A a \in Given(approvals'[k], l) : ~Outlives(a.time, ActorOf[l])'
             /\ old'[k] # NoApprovals => Given(old'[k], l) = {} \/ invals'[ActorOf[l]] # Never
  <2>1. ActorOf[l] \in Accounts
    BY LevelsAssumption
  <2>2. CASE invals'[ActorOf[l]] = now
    <3>1. approvals'[k] # NoApprovals =>
            \A a \in Given(approvals'[k], l) : a.time \in Int /\ a.time <= now
      BY <1>2 DEF Inherited
    <3> QED
      BY <1>1, <2>2, <3>1 DEF Outlives
  <2>3. CASE invals'[ActorOf[l]] = invals[ActorOf[l]] /\ l \notin pledged[k]
    <3>1. /\ approvals[k] # NoApprovals =>
               \A a \in Given(approvals[k], l) : ~Outlives(a.time, ActorOf[l])
          /\ old[k] # NoApprovals => Given(old[k], l) = {} \/ invals[ActorOf[l]] # Never
      BY <2>3 DEF Inv, Covered
    <3>2. approvals'[k] # NoApprovals =>
            \A a \in Given(approvals'[k], l) : ~Outlives(a.time, ActorOf[l])
      BY <3>1 DEF Inherited
    <3>3. old'[k] # NoApprovals => Given(old'[k], l) = {} \/ invals[ActorOf[l]] # Never
      BY <3>1 DEF Inherited
    <3> QED
      BY <2>3, <3>2, <3>3 DEF Outlives
  <2>4. CASE /\ approvals'[k] # NoApprovals => Given(approvals'[k], l) = {}
             /\ old'[k] # NoApprovals => Given(old'[k], l) = {}
    BY <2>4
  <2> QED
    BY <1>4, <2>1, <2>2, <2>3, <2>4
<1>5. Covered'
  BY <1>4 DEF Covered
<1>6. Binds'
  <2> SUFFICES ASSUME NEW k \in Keys, RowOf(k)' # NoApprovals, NEW l \in Levels,
                      NEW a \in Given(RowOf(k)', l)
               PROVE  a.hash \in {NoHash, proposals'[k]}
    BY DEF Binds
  <2>1. proposals'[k] # NoProposal
    BY DEF OneApprovalsRow, RowOf
  <2>2. RowOf(k) # NoApprovals /\ a \in Given(RowOf(k), l) /\ proposals[k] # NoProposal
    <3>1. CASE approvals'[k] # NoApprovals
      <4>1. approvals[k] # NoApprovals /\ a \in Given(approvals[k], l)
        BY <3>1 DEF Inherited, RowOf
      <4> QED
        BY <4>1 DEF RowOf, Inv, OneApprovalsRow
    <3>2. CASE approvals'[k] = NoApprovals
      <4>1. old[k] # NoApprovals /\ a \in Given(old[k], l)
        BY <3>2 DEF Inherited, RowOf
      <4>2. proposals[k] # NoProposal /\ approvals[k] = NoApprovals
        BY <4>1 DEF Inv, OneApprovalsRow
      <4> QED
        BY <4>1, <4>2 DEF RowOf
    <3> QED
      BY <3>1, <3>2
  <2>3. proposals'[k] = proposals[k]
    BY <2>1, <2>2
  <2> QED
    BY <2>2, <2>3, HashesAreGiven DEF Inv, Binds
<1>7. HashBinds'
  BY <1>6, HashesAreGiven, PTL
<1> QED
  BY <1>3, <1>5, <1>7 DEF Inv

-----------------------------------------------------------------------------
(***************************************************************************)
(* The actions.  Proposing opens an empty row.                             *)
(***************************************************************************)
LEMMA ProposeInv ==
  ASSUME Inv, NEW k \in Keys, NEW requested \in Requests, NEW t \in Trxs,
         Propose(k, requested, t)
  PROVE  Inv'
<1> DEFINE row == Unapproved(requested)
<1>1. /\ proposals[k] = NoProposal /\ approvals[k] = NoApprovals
      /\ proposals' = [proposals EXCEPT ![k] = t]
      /\ approvals' = [approvals EXCEPT ![k] = row]
      /\ signer' \in Levels
      /\ old' = old /\ invals' = invals /\ deferred' = deferred /\ now' = now
      /\ consent' = consent /\ pledged' = pledged
  BY DEF Propose, SignedBy, words
<1>2. row \in Row /\ row # NoApprovals /\ \A l \in Levels : Given(row, l) = {}
  BY NothingGiven, RowAssumption
<1> HIDE DEF row
<1>3. TypeOK /\ TypeOK'
  BY <1>1, <1>2 DEF Inv, TypeOK
<1>4. /\ approvals'[k] = row /\ \A j \in Keys \ {k} : approvals'[j] = approvals[j]
      /\ proposals'[k] = t /\ \A j \in Keys \ {k} : proposals'[j] = proposals[j]
  BY <1>1, <1>3 DEF TypeOK
<1>5. old[k] = NoApprovals
  BY <1>1 DEF Inv, OneApprovalsRow
<1>6. OneApprovalsRow'
  <2> SUFFICES ASSUME NEW j \in Keys
               PROVE  /\ proposals'[j] = NoProposal => approvals'[j] = NoApprovals /\ old'[j] = NoApprovals
                      /\ proposals'[j] # NoProposal =>
                           (approvals'[j] = NoApprovals) # (old'[j] = NoApprovals)
    BY DEF OneApprovalsRow
  <2>1. CASE j = k
    BY <1>1, <1>2, <1>4, <1>5, <2>1, SentinelAssumption
  <2>2. CASE j # k
    BY <1>1, <1>4, <2>2 DEF Inv, OneApprovalsRow
  <2> QED
    BY <2>1, <2>2
<1>7. Inherited
  <2> SUFFICES ASSUME NEW j \in Keys, NEW l \in Levels
               PROVE  /\ approvals'[j] # NoApprovals => \A a \in Given(approvals'[j], l) :
                           approvals[j] # NoApprovals /\ a \in Given(approvals[j], l)
                      /\ old'[j] # NoApprovals => \A a \in Given(old'[j], l) :
                           old[j] # NoApprovals /\ a \in Given(old[j], l)
    BY DEF Inherited
  <2>1. CASE j = k
    BY <1>1, <1>2, <1>4, <1>5, <2>1
  <2>2. CASE j # k
    BY <1>1, <1>4, <2>2
  <2> QED
    BY <2>1, <2>2
<1>8. now' >= now
  BY <1>1, <1>3 DEF TypeOK, Times
<1>9. \A j \in Keys : proposals'[j] # NoProposal /\ proposals[j] # NoProposal
                        => proposals'[j] = proposals[j]
  BY <1>1, <1>4
<1>10. \A a \in Accounts : invals'[a] = invals[a] \/ invals'[a] = now
  BY <1>1
<1>11. \A j \in Keys, l \in Levels : l \notin pledged'[j] => l \notin pledged[j]
  BY <1>1
<1> QED
  BY <1>3, <1>6, <1>7, <1>8, <1>9, <1>10, <1>11, InheritedInv

(***************************************************************************)
(* The tables after approve and unapprove.                                 *)
(***************************************************************************)
LEMMA ApproveEffect ==
  ASSUME Inv, NEW k \in Keys, NEW l \in Levels, NEW hash \in Hashes, Approve(k, l, hash)
  PROVE  \E a \in Approval :
           /\ a.hash = hash /\ a.time <= now
           /\ \/ /\ approvals[k] # NoApprovals /\ ChangesRow(approvals, approvals', k, l)
                 /\ Given(approvals'[k], l) \subseteq Given(approvals[k], l) \cup {a}
                 /\ old' = old
              \/ /\ approvals[k] = NoApprovals /\ old[k] # NoApprovals
                 /\ ChangesRow(old, old', k, l)
                 /\ Given(old'[k], l) \subseteq Given(old[k], l) \cup {a}
                 /\ approvals' = approvals
<1>1. approvals \in Tables /\ old \in Tables /\ now \in Times /\ now \in Nat /\ 0 \in Times
  BY BoundsAssumption DEF Inv, TypeOK, Tables, Times
<1>2. CASE approvals[k] # NoApprovals
  <2> DEFINE a == [time |-> now, hash |-> hash]
  <2>1. a \in Approval /\ a.hash = hash /\ a.time <= now
    BY <1>1 DEF Approval, Hashes
  <2>2. /\ IsRequested(approvals[k], l) /\ old' = old
        /\ approvals' = [approvals EXCEPT ![k] = Granted(approvals[k], l, a)]
    BY <1>2 DEF Approve
  <2> HIDE DEF a
  <2>3. /\ ChangesRow(approvals, approvals', k, l)
        /\ Given(approvals'[k], l) \subseteq Given(approvals[k], l) \cup {a}
    <3>1. approvals \in Tables
      BY <1>1
    <3>2. a \in Approval
      BY <2>1
    <3>3. IsRequested(approvals[k], l)
      BY <2>2
    <3>4. approvals' = WithGranted(approvals, k, l, a)
      BY <2>2 DEF WithGranted
    <3> QED
      BY <1>2, <3>1, <3>2, <3>3, <3>4, Grant, Zenon
  <2> QED
    BY <1>2, <2>1, <2>2, <2>3
<1>3. CASE approvals[k] = NoApprovals
  <2> DEFINE a == [time |-> 0, hash |-> hash]
  <2>1. a \in Approval /\ a.hash = hash /\ a.time <= now
    BY <1>1 DEF Approval, Hashes
  <2>2. /\ old[k] # NoApprovals /\ IsRequested(old[k], l) /\ approvals' = approvals
        /\ old' = [old EXCEPT ![k] = Granted(old[k], l, a)]
    BY <1>3 DEF Approve
  <2> HIDE DEF a
  <2>3. /\ ChangesRow(old, old', k, l)
        /\ Given(old'[k], l) \subseteq Given(old[k], l) \cup {a}
    <3>1. old \in Tables
      BY <1>1
    <3>2. a \in Approval
      BY <2>1
    <3>3. old[k] # NoApprovals /\ IsRequested(old[k], l)
      BY <2>2
    <3>4. old' = WithGranted(old, k, l, a)
      BY <2>2 DEF WithGranted
    <3> QED
      BY <3>1, <3>2, <3>3, <3>4, Grant, Zenon
  <2> QED
    BY <1>3, <2>1, <2>2, <2>3
<1> QED
  BY <1>2, <1>3

LEMMA UnapproveEffect ==
  ASSUME Inv, NEW k \in Keys, NEW l \in Levels, Unapprove(k, l)
  PROVE  \/ /\ approvals[k] # NoApprovals /\ ChangesRow(approvals, approvals', k, l)
            /\ Given(approvals'[k], l) \subseteq Given(approvals[k], l)
            /\ Len(RowOf(k).provided[l]) = 1 => Given(approvals'[k], l) = {}
            /\ old' = old
         \/ /\ approvals[k] = NoApprovals /\ old[k] # NoApprovals
            /\ ChangesRow(old, old', k, l)
            /\ Given(old'[k], l) \subseteq Given(old[k], l)
            /\ Len(RowOf(k).provided[l]) = 1 => Given(old'[k], l) = {}
            /\ approvals' = approvals
<1>1. approvals \in Tables /\ old \in Tables
  BY DEF Inv, TypeOK, Tables
<1>2. CASE approvals[k] # NoApprovals
  <2>1. /\ approvals[k].provided[l] # <<>> /\ old' = old
        /\ approvals' = [approvals EXCEPT ![k] = Revoked(approvals[k], l)]
    BY <1>2 DEF Unapprove
  <2>2. /\ ChangesRow(approvals, approvals', k, l)
        /\ Given(approvals'[k], l) \subseteq Given(approvals[k], l)
        /\ Len(approvals[k].provided[l]) = 1 => Given(approvals'[k], l) = {}
    <3>1. approvals \in Tables
      BY <1>1
    <3>2. approvals[k].provided[l] # <<>>
      BY <2>1
    <3>3. approvals' = WithRevoked(approvals, k, l)
      BY <2>1 DEF WithRevoked
    <3> QED
      BY <1>2, <3>1, <3>2, <3>3, Revoke, Zenon
  <2> QED
    BY <1>2, <2>1, <2>2 DEF RowOf
<1>3. CASE approvals[k] = NoApprovals
  <2>1. /\ old[k] # NoApprovals /\ old[k].provided[l] # <<>> /\ approvals' = approvals
        /\ old' = [old EXCEPT ![k] = Revoked(old[k], l)]
    BY <1>3 DEF Unapprove
  <2>2. /\ ChangesRow(old, old', k, l)
        /\ Given(old'[k], l) \subseteq Given(old[k], l)
        /\ Len(old[k].provided[l]) = 1 => Given(old'[k], l) = {}
    <3>1. old \in Tables
      BY <1>1
    <3>2. old[k] # NoApprovals /\ old[k].provided[l] # <<>>
      BY <2>1
    <3>3. old' = WithRevoked(old, k, l)
      BY <2>1 DEF WithRevoked
    <3> QED
      BY <3>1, <3>2, <3>3, Revoke, Zenon
  <2> QED
    BY <1>3, <2>1, <2>2 DEF RowOf
<1> QED
  BY <1>2, <1>3

(***************************************************************************)
(* A changed row is still a row, and only one level's approvals change.    *)
(***************************************************************************)
KeepsRows(t, u, k, l) ==
  /\ u \in Tables
  /\ \A j \in Keys : (u[j] = NoApprovals) <=> (t[j] = NoApprovals)
  /\ \A j \in Keys, m \in Levels : j # k \/ m # l => Given(u[j], m) = Given(t[j], m)

LEMMA RowStays ==
  ASSUME NEW t, NEW u, NEW k \in Keys, NEW l \in Levels,
         t[k] # NoApprovals, ChangesRow(t, u, k, l)
  PROVE  KeepsRows(t, u, k, l)
<1>1. u \in Tables /\ u[k] # NoApprovals /\ \A j \in Keys \ {k} : u[j] = t[j]
  BY DEF ChangesRow
<1>2. ASSUME NEW j \in Keys
      PROVE  (u[j] = NoApprovals) <=> (t[j] = NoApprovals)
  BY <1>1
<1>3. ASSUME NEW j \in Keys, NEW m \in Levels, j # k \/ m # l
      PROVE  Given(u[j], m) = Given(t[j], m)
  <2>1. CASE j # k
    BY <1>1, <2>1
  <2>2. CASE j = k
    BY <1>3, <2>2 DEF ChangesRow
  <2> QED
    BY <2>1, <2>2
<1> QED
  BY <1>1, <1>2, <1>3 DEF KeepsRows

(***************************************************************************)
(* The tables keep their rows, and all that other levels have given.       *)
(***************************************************************************)
SameRows(k, l) ==
  /\ approvals' \in Tables /\ old' \in Tables
  /\ \A j \in Keys : /\ (approvals'[j] = NoApprovals) <=> (approvals[j] = NoApprovals)
                     /\ (old'[j] = NoApprovals) <=> (old[j] = NoApprovals)
  /\ \A j \in Keys, m \in Levels : j # k \/ m # l =>
       /\ Given(approvals'[j], m) = Given(approvals[j], m)
       /\ Given(old'[j], m) = Given(old[j], m)

LEMMA ApproveRows ==
  ASSUME Inv, NEW k \in Keys, NEW l \in Levels, NEW hash \in Hashes, Approve(k, l, hash)
  PROVE  /\ SameRows(k, l)
         /\ \E a \in Approval :
              /\ a.hash = hash /\ a.time <= now
              /\ approvals[k] # NoApprovals =>
                   Given(approvals'[k], l) \subseteq Given(approvals[k], l) \cup {a}
              /\ old[k] # NoApprovals => Given(old'[k], l) \subseteq Given(old[k], l) \cup {a}
<1>1. PICK a \in Approval :
        /\ a.hash = hash /\ a.time <= now
        /\ \/ /\ approvals[k] # NoApprovals /\ ChangesRow(approvals, approvals', k, l)
              /\ Given(approvals'[k], l) \subseteq Given(approvals[k], l) \cup {a}
              /\ old' = old
           \/ /\ approvals[k] = NoApprovals /\ old[k] # NoApprovals
              /\ ChangesRow(old, old', k, l)
              /\ Given(old'[k], l) \subseteq Given(old[k], l) \cup {a}
              /\ approvals' = approvals
  BY ApproveEffect
<1>2. approvals \in Tables /\ old \in Tables
  BY DEF Inv, TypeOK, Tables
<1>3. CASE approvals[k] # NoApprovals
  <2>1. /\ ChangesRow(approvals, approvals', k, l)
        /\ Given(approvals'[k], l) \subseteq Given(approvals[k], l) \cup {a}
        /\ old' = old
    BY <1>1, <1>3
  <2>2. KeepsRows(approvals, approvals', k, l)
    <3>1. ChangesRow(approvals, approvals', k, l)
      BY <2>1
    <3> QED
      BY <1>3, <3>1, RowStays
  <2>3. SameRows(k, l)
    BY <1>2, <2>1, <2>2 DEF SameRows, KeepsRows
  <2> QED
    BY <1>1, <2>1, <2>3
<1>4. CASE approvals[k] = NoApprovals
  <2>1. /\ old[k] # NoApprovals /\ ChangesRow(old, old', k, l)
        /\ Given(old'[k], l) \subseteq Given(old[k], l) \cup {a}
        /\ approvals' = approvals
    BY <1>1, <1>4
  <2>2. KeepsRows(old, old', k, l)
    <3>1. old[k] # NoApprovals
      BY <2>1
    <3>2. ChangesRow(old, old', k, l)
      BY <2>1
    <3> QED
      BY <3>1, <3>2, RowStays
  <2>3. SameRows(k, l)
    BY <1>2, <2>1, <2>2 DEF SameRows, KeepsRows
  <2> QED
    BY <1>1, <1>4, <2>1, <2>3
<1> QED
  BY <1>3, <1>4

LEMMA UnapproveRows ==
  ASSUME Inv, NEW k \in Keys, NEW l \in Levels, Unapprove(k, l)
  PROVE  /\ SameRows(k, l)
         /\ Given(approvals'[k], l) \subseteq Given(approvals[k], l)
         /\ Given(old'[k], l) \subseteq Given(old[k], l)
         /\ Len(RowOf(k).provided[l]) = 1 =>
              /\ approvals'[k] # NoApprovals => Given(approvals'[k], l) = {}
              /\ old'[k] # NoApprovals => Given(old'[k], l) = {}
<1>1. \/ /\ approvals[k] # NoApprovals /\ ChangesRow(approvals, approvals', k, l)
         /\ Given(approvals'[k], l) \subseteq Given(approvals[k], l)
         /\ Len(RowOf(k).provided[l]) = 1 => Given(approvals'[k], l) = {}
         /\ old' = old
      \/ /\ approvals[k] = NoApprovals /\ old[k] # NoApprovals
         /\ ChangesRow(old, old', k, l)
         /\ Given(old'[k], l) \subseteq Given(old[k], l)
         /\ Len(RowOf(k).provided[l]) = 1 => Given(old'[k], l) = {}
         /\ approvals' = approvals
  BY UnapproveEffect
<1>2. approvals \in Tables /\ old \in Tables
  BY DEF Inv, TypeOK, Tables
<1>3. CASE approvals[k] # NoApprovals
  <2>1. /\ ChangesRow(approvals, approvals', k, l)
        /\ Given(approvals'[k], l) \subseteq Given(approvals[k], l)
        /\ Len(RowOf(k).provided[l]) = 1 => Given(approvals'[k], l) = {}
        /\ old' = old
    BY <1>1, <1>3
  <2>2. KeepsRows(approvals, approvals', k, l)
    <3>1. ChangesRow(approvals, approvals', k, l)
      BY <2>1
    <3> QED
      BY <1>3, <3>1, RowStays
  <2>3. SameRows(k, l)
    BY <1>2, <2>1, <2>2 DEF SameRows, KeepsRows
  <2>4. old[k] = NoApprovals
    BY <1>3 DEF Inv, OneApprovalsRow
  <2> QED
    BY <2>1, <2>3, <2>4
<1>4. CASE approvals[k] = NoApprovals
  <2>1. /\ old[k] # NoApprovals /\ ChangesRow(old, old', k, l)
        /\ Given(old'[k], l) \subseteq Given(old[k], l)
        /\ Len(RowOf(k).provided[l]) = 1 => Given(old'[k], l) = {}
        /\ approvals' = approvals
    BY <1>1, <1>4
  <2>2. KeepsRows(old, old', k, l)
    <3>1. old[k] # NoApprovals
      BY <2>1
    <3>2. ChangesRow(old, old', k, l)
      BY <2>1
    <3> QED
      BY <3>1, <3>2, RowStays
  <2>3. SameRows(k, l)
    BY <1>2, <2>1, <2>2 DEF SameRows, KeepsRows
  <2> QED
    BY <1>4, <2>1, <2>3
<1> QED
  BY <1>3, <1>4

LEMMA ApproveInv ==
  ASSUME Inv, NEW k \in Keys, NEW l \in Levels, NEW hash \in Hashes, Approve(k, l, hash)
  PROVE  Inv'
<1>1. PICK a \in Approval :
        /\ a.hash = hash /\ a.time <= now
        /\ approvals[k] # NoApprovals =>
             Given(approvals'[k], l) \subseteq Given(approvals[k], l) \cup {a}
        /\ old[k] # NoApprovals => Given(old'[k], l) \subseteq Given(old[k], l) \cup {a}
  BY ApproveRows
<1>2. SameRows(k, l)
  BY ApproveRows
<1>3. /\ signer' = l /\ HashFits(k, hash)
      /\ consent' = [consent EXCEPT ![k] = consent[k] \cup {l}]
      /\ pledged' = [pledged EXCEPT ![k] = pledged[k] \cup {l}]
      /\ proposals' = proposals /\ invals' = invals /\ deferred' = deferred /\ now' = now
  BY DEF Approve
<1>4. TypeOK'
  BY <1>2, <1>3 DEF Inv, TypeOK, SameRows, Tables
<1>5. OneApprovalsRow'
  BY <1>2, <1>3 DEF Inv, OneApprovalsRow, SameRows
<1>6. Dates'
  <2> SUFFICES ASSUME NEW j \in Keys, approvals'[j] # NoApprovals, NEW m \in Levels,
                      NEW b \in Given(approvals'[j], m)
               PROVE  b.time <= now
    BY <1>3 DEF Dates
  <2>1. approvals[j] # NoApprovals
    BY <1>2 DEF SameRows
  <2>2. b \in Given(approvals[j], m) \/ b = a
    BY <1>1, <1>2, <2>1 DEF SameRows
  <2> QED
    BY <1>1, <2>1, <2>2 DEF Inv, Dates
<1>7. Covered'
  <2> SUFFICES ASSUME NEW j \in Keys, NEW m \in Levels, m \notin pledged'[j]
               PROVE  /\ approvals'[j] # NoApprovals =>
                           \A b \in Given(approvals'[j], m) : ~Outlives(b.time, ActorOf[m])
                      /\ old'[j] # NoApprovals =>
                           Given(old'[j], m) = {} \/ invals[ActorOf[m]] # Never
    BY <1>3 DEF Covered, Outlives
  <2>1. m \notin pledged[j] /\ (j # k \/ m # l)
    BY <1>3 DEF Inv, TypeOK
  <2>2. Given(approvals'[j], m) = Given(approvals[j], m) /\ Given(old'[j], m) = Given(old[j], m)
    BY <1>2, <2>1 DEF SameRows
  <2>3. /\ approvals'[j] # NoApprovals => approvals[j] # NoApprovals
        /\ old'[j] # NoApprovals => old[j] # NoApprovals
    BY <1>2 DEF SameRows
  <2> QED
    BY <2>1, <2>2, <2>3 DEF Inv, Covered
<1>8. Binds'
  <2> SUFFICES ASSUME NEW j \in Keys, RowOf(j)' # NoApprovals, NEW m \in Levels,
                      NEW b \in Given(RowOf(j)', m)
               PROVE  b.hash \in {NoHash, proposals[j]}
    BY <1>3 DEF Binds
  <2>1. RowOf(j) # NoApprovals
    BY <1>2 DEF SameRows, RowOf
  <2>2. b \in Given(RowOf(j), m) \/ (j = k /\ b = a)
    <3>1. CASE approvals[j] # NoApprovals
      <4>1. RowOf(j) = approvals[j] /\ b \in Given(approvals'[j], m)
        BY <1>2, <3>1 DEF SameRows, RowOf
      <4>2. CASE j # k \/ m # l
        BY <1>2, <4>1, <4>2 DEF SameRows
      <4>3. CASE j = k /\ m = l
        BY <1>1, <3>1, <4>1, <4>3
      <4> QED
        BY <4>2, <4>3
    <3>2. CASE approvals[j] = NoApprovals
      <4>1. RowOf(j) = old[j] /\ old[j] # NoApprovals /\ b \in Given(old'[j], m)
        BY <1>2, <2>1, <3>2 DEF SameRows, RowOf
      <4>2. CASE j # k \/ m # l
        BY <1>2, <4>1, <4>2 DEF SameRows
      <4>3. CASE j = k /\ m = l
        BY <1>1, <4>1, <4>3
      <4> QED
        BY <4>2, <4>3
    <3> QED
      BY <3>1, <3>2
  <2>3. CASE b \in Given(RowOf(j), m)
    BY <2>1, <2>3, HashesAreGiven DEF Inv, Binds
  <2>4. CASE j = k /\ b = a
    BY <1>1, <1>3, <2>4 DEF HashFits
  <2> QED
    BY <2>2, <2>3, <2>4
<1>9. HashBinds'
  BY <1>8, HashesAreGiven, PTL
<1> QED
  BY <1>4, <1>5, <1>6, <1>7, <1>9 DEF Inv

LEMMA UnapproveInv ==
  ASSUME Inv, NEW k \in Keys, NEW l \in Levels, Unapprove(k, l)
  PROVE  Inv'
<1>1. /\ SameRows(k, l)
      /\ Given(approvals'[k], l) \subseteq Given(approvals[k], l)
      /\ Given(old'[k], l) \subseteq Given(old[k], l)
  BY UnapproveRows
<1>2. /\ signer' = l
      /\ consent' = [consent EXCEPT ![k] = consent[k] \ {l}] /\ pledged' = pledged
      /\ proposals' = proposals /\ invals' = invals /\ deferred' = deferred /\ now' = now
  BY DEF Unapprove
<1>3. TypeOK /\ TypeOK'
  BY <1>1, <1>2 DEF Inv, TypeOK, SameRows, Tables
<1>4. OneApprovalsRow'
  BY <1>1, <1>2 DEF Inv, OneApprovalsRow, SameRows
<1>5. Inherited
  <2> SUFFICES ASSUME NEW j \in Keys, NEW m \in Levels
               PROVE  /\ Given(approvals'[j], m) \subseteq Given(approvals[j], m)
                      /\ Given(old'[j], m) \subseteq Given(old[j], m)
    BY <1>1 DEF Inherited, SameRows
  <2>1. CASE j # k \/ m # l
    BY <1>1, <2>1 DEF SameRows
  <2>2. CASE j = k /\ m = l
    BY <1>1, <2>2
  <2> QED
    BY <2>1, <2>2
<1>6. now' >= now
  BY <1>2, <1>3 DEF TypeOK, Times
<1>7. \A j \in Keys : proposals'[j] # NoProposal /\ proposals[j] # NoProposal
                        => proposals'[j] = proposals[j]
  BY <1>2
<1>8. \A a \in Accounts : invals'[a] = invals[a] \/ invals'[a] = now
  BY <1>2
<1>9. \A j \in Keys, m \in Levels : m \notin pledged'[j] => m \notin pledged[j]
  BY <1>2
<1> QED
  BY <1>3, <1>4, <1>5, <1>6, <1>7, <1>8, <1>9, InheritedInv

(***************************************************************************)
(* cancel and exec: the proposal and its row go, whichever table has it.   *)
(***************************************************************************)
LEMMA CloseInv ==
  ASSUME Inv, NEW k \in Keys, EraseApprovals(k), signer' \in Levels,
         proposals' = [proposals EXCEPT ![k] = NoProposal],
         deferred' \in [Keys -> Trxs \cup {NoProposal}],
         Forget(k), invals' = invals, now' = now
  PROVE  Inv'
<1>1. /\ approvals' \in Tables /\ old' \in Tables
      /\ approvals'[k] = NoApprovals /\ old'[k] = NoApprovals
      /\ \A j \in Keys \ {k} : approvals'[j] = approvals[j] /\ old'[j] = old[j]
  <2>1. CASE approvals[k] # NoApprovals
    <3>1. old[k] = NoApprovals
      BY <2>1 DEF Inv, OneApprovalsRow
    <3> QED
      BY <2>1, <3>1 DEF EraseApprovals, Inv, TypeOK, Tables
  <2>2. CASE approvals[k] = NoApprovals
    BY <2>2 DEF EraseApprovals, Inv, TypeOK, Tables
  <2> QED
    BY <2>1, <2>2
<1>2. /\ TypeOK /\ TypeOK'
      /\ \A j \in Keys \ {k} : pledged'[j] = pledged[j]
  BY <1>1 DEF Inv, TypeOK, Tables, Forget
<1>3. proposals'[k] = NoProposal /\ \A j \in Keys \ {k} : proposals'[j] = proposals[j]
  BY <1>2 DEF TypeOK
<1>4. OneApprovalsRow'
  <2> SUFFICES ASSUME NEW j \in Keys
               PROVE  /\ proposals'[j] = NoProposal => approvals'[j] = NoApprovals /\ old'[j] = NoApprovals
                      /\ proposals'[j] # NoProposal =>
                           (approvals'[j] = NoApprovals) # (old'[j] = NoApprovals)
    BY DEF OneApprovalsRow
  <2>1. CASE j = k
    BY <1>1, <1>3, <2>1
  <2>2. CASE j # k
    BY <1>1, <1>3, <2>2 DEF Inv, OneApprovalsRow
  <2> QED
    BY <2>1, <2>2
<1>5. Inherited
  <2> SUFFICES ASSUME NEW j \in Keys
               PROVE  /\ approvals'[j] # NoApprovals => approvals'[j] = approvals[j]
                      /\ old'[j] # NoApprovals => old'[j] = old[j]
    BY DEF Inherited
  <2> QED
    BY <1>1
<1>6. now' >= now
  BY <1>2 DEF TypeOK, Times
<1>7. \A j \in Keys : proposals'[j] # NoProposal /\ proposals[j] # NoProposal
                        => proposals'[j] = proposals[j]
  BY <1>3
<1>8. \A a \in Accounts : invals'[a] = invals[a] \/ invals'[a] = now
  OBVIOUS
<1>9. ASSUME NEW j \in Keys, NEW m \in Levels, m \notin pledged'[j]
      PROVE  \/ m \notin pledged[j]
             \/ invals'[ActorOf[m]] = now
             \/ /\ approvals'[j] # NoApprovals => Given(approvals'[j], m) = {}
                /\ old'[j] # NoApprovals => Given(old'[j], m) = {}
  <2>1. CASE j = k
    BY <1>1, <2>1
  <2>2. CASE j # k
    BY <1>2, <1>9, <2>2 DEF TypeOK
  <2> QED
    BY <2>1, <2>2
<1> QED
  BY <1>2, <1>4, <1>5, <1>6, <1>7, <1>8, <1>9, InheritedInv

LEMMA CancelInv ==
  ASSUME Inv, NEW k \in Keys, NEW a \in Accounts, Cancel(k, a)
  PROVE  Inv'
<1>1. /\ EraseApprovals(k) /\ signer' \in Levels
      /\ proposals' = [proposals EXCEPT ![k] = NoProposal]
      /\ Forget(k) /\ invals' = invals /\ now' = now
  BY DEF Cancel, SignedBy
<1>2. deferred' \in [Keys -> Trxs \cup {NoProposal}]
  BY DEF Cancel, Inv, TypeOK
<1> QED
  BY <1>1, <1>2, CloseInv

LEMMA ExecInv ==
  ASSUME Inv, NEW k \in Keys, NEW a \in Accounts, Exec(k, a)
  PROVE  Inv'
<1>1. /\ EraseApprovals(k) /\ signer' \in Levels
      /\ proposals' = [proposals EXCEPT ![k] = NoProposal]
      /\ Forget(k) /\ invals' = invals /\ now' = now
  BY DEF Exec, SignedBy
<1>2. deferred' \in [Keys -> Trxs \cup {NoProposal}]
  BY DEF Exec, Inv, TypeOK
<1> QED
  BY <1>1, <1>2, CloseInv

(***************************************************************************)
(* The other actions leave the rows alone.                                 *)
(***************************************************************************)
LEMMA RowsLeft ==
  ASSUME Inv, UNCHANGED <<proposals, approvals, old>>, TypeOK', now' >= now,
         \A a \in Accounts : invals'[a] = invals[a] \/ invals'[a] = now,
         \A k \in Keys, l \in Levels : l \notin pledged'[k] =>
           l \notin pledged[k] \/ invals'[ActorOf[l]] = now
  PROVE  Inv'
<1>1. OneApprovalsRow'
  BY DEF Inv, OneApprovalsRow
<1>2. Inherited
  BY DEF Inherited
<1>3. \A k \in Keys : proposals'[k] # NoProposal /\ proposals[k] # NoProposal
                        => proposals'[k] = proposals[k]
  OBVIOUS
<1>4. \A k \in Keys, l \in Levels : l \notin pledged'[k] =>
        \/ l \notin pledged[k]
        \/ invals'[ActorOf[l]] = now
        \/ /\ approvals'[k] # NoApprovals => Given(approvals'[k], l) = {}
           /\ old'[k] # NoApprovals => Given(old'[k], l) = {}
  OBVIOUS
<1> QED
  BY <1>1, <1>2, <1>3, <1>4, InheritedInv

LEMMA InvalidateInv ==
  ASSUME Inv, NEW a \in Accounts, Invalidate(a)
  PROVE  Inv'
<1>1. /\ UNCHANGED <<proposals, approvals, old>> /\ deferred' = deferred /\ now' = now
      /\ invals' = [invals EXCEPT ![a] = now] /\ signer' \in Levels
      /\ consent' = [k \in Keys |-> {l \in consent[k] : ActorOf[l] # a}]
      /\ pledged' = [k \in Keys |-> {l \in pledged[k] : ActorOf[l] # a}]
  BY DEF Invalidate, Dated, SignedBy
<1>2. TypeOK /\ TypeOK'
  BY <1>1 DEF Inv, TypeOK
<1>3. now' >= now
  BY <1>1, <1>2 DEF TypeOK, Times
<1>4. \A b \in Accounts : invals'[b] = IF b = a THEN now ELSE invals[b]
  BY <1>1, <1>2 DEF TypeOK
<1>5. \A k \in Keys, l \in Levels : l \notin pledged'[k] =>
        l \notin pledged[k] \/ invals'[ActorOf[l]] = now
  BY <1>1, <1>4
<1>6. \A b \in Accounts : invals'[b] = invals[b] \/ invals'[b] = now
  BY <1>4
<1>7. UNCHANGED <<proposals, approvals, old>>
  BY <1>1
<1> QED
  BY <1>2, <1>3, <1>5, <1>6, <1>7, RowsLeft

LEMMA RunDeferredInv ==
  ASSUME Inv, NEW k \in Keys, RunDeferred(k)
  PROVE  Inv'
<1>1. UNCHANGED <<proposals, approvals, old, invals, now, signer, words>>
  BY DEF RunDeferred
<1>2. TypeOK /\ TypeOK'
  BY <1>1 DEF Inv, TypeOK, RunDeferred, words
<1>3. now' >= now
  BY <1>1, <1>2 DEF TypeOK, Times
<1> QED
  BY <1>1, <1>2, <1>3, RowsLeft DEF words

LEMMA NextBlockInv ==
  ASSUME Inv, NextBlock
  PROVE  Inv'
<1>1. UNCHANGED <<proposals, approvals, old, invals, deferred, signer, words>>
  BY DEF NextBlock
<1>2. TypeOK /\ TypeOK' /\ now' >= now
  BY <1>1, BoundsAssumption DEF Inv, TypeOK, NextBlock, Times, words
<1> QED
  BY <1>1, <1>2, RowsLeft DEF words

(***************************************************************************)
(* The invariant: the three of the module, and that what stands in the     *)
(* tables for a level that is not pledged has been invalidated.            *)
(***************************************************************************)
THEOREM Invariance == Spec => []Inv
<1>1. ASSUME Inv, [Next]_vars
      PROVE  Inv'
  <2>1. CASE \E k \in Keys, requested \in Requests, t \in Trxs : Propose(k, requested, t)
    BY <1>1, <2>1, ProposeInv
  <2>2. CASE \E k \in Keys, l \in Levels, hash \in Hashes : Approve(k, l, hash)
    BY <1>1, <2>2, ApproveInv
  <2>3. CASE \E k \in Keys, l \in Levels : Unapprove(k, l)
    BY <1>1, <2>3, UnapproveInv
  <2>4. CASE \E k \in Keys, a \in Accounts : Cancel(k, a)
    BY <1>1, <2>4, CancelInv
  <2>5. CASE \E k \in Keys, a \in Accounts : Exec(k, a)
    BY <1>1, <2>5, ExecInv
  <2>6. CASE \E a \in Accounts : Invalidate(a)
    BY <1>1, <2>6, InvalidateInv
  <2>7. CASE \E k \in Keys : RunDeferred(k)
    BY <1>1, <2>7, RunDeferredInv
  <2>8. CASE NextBlock
    BY <1>1, <2>8, NextBlockInv
  <2>9. CASE UNCHANGED vars
    <3>1. UNCHANGED <<proposals, approvals, old>> /\ UNCHANGED <<invals, deferred, now, signer, words>>
      BY <2>9 DEF vars
    <3>2. TypeOK /\ TypeOK'
      BY <1>1, <3>1 DEF Inv, TypeOK, words
    <3>3. now' >= now
      BY <3>1, <3>2 DEF TypeOK, Times
    <3> QED
      BY <1>1, <3>1, <3>2, <3>3, RowsLeft DEF words
  <2> QED
    BY <1>1, <2>1, <2>2, <2>3, <2>4, <2>5, <2>6, <2>7, <2>8, <2>9 DEF Next
<1> QED
  BY <1>1, InitInv, PTL DEF Spec

(***************************************************************************)
(* The tables hold what their types say.                                   *)
(***************************************************************************)
THEOREM TypeCorrect == Spec => []TypeOK
<1>1. Inv => TypeOK
  BY DEF Inv
<1> QED
  BY <1>1, Invariance, PTL

(***************************************************************************)
(* An open proposal has one row of approvals, in one of the tables, and a  *)
(* name that is free has none: propose, approve, unapprove, cancel and     *)
(* exec never leave approvals for the next transaction of that name.       *)
(***************************************************************************)
THEOREM RowsMatchProposals == Spec => []OneApprovalsRow
<1>1. Inv => OneApprovalsRow
  BY DEF Inv
<1> QED
  BY <1>1, Invariance, PTL

(***************************************************************************)
(* An approval given with proposal_hash stands only for that transaction.  *)
(***************************************************************************)
THEOREM HashesBind == Spec => []HashBinds
<1>1. Inv => HashBinds
  BY DEF Inv
<1> QED
  BY <1>1, Invariance, PTL

-----------------------------------------------------------------------------
(***************************************************************************)
(* A row's seats after a step that keeps the row.                          *)
(***************************************************************************)
KeepsSeats ==
  \A k \in Keys, l \in Levels :
    RowOf(k) # NoApprovals /\ RowOf(k)' # NoApprovals => Seats(RowOf(k)', l) = Seats(RowOf(k), l)

LEMMA ApproveSeats ==
  ASSUME Inv, NEW k \in Keys, NEW l \in Levels, NEW hash \in Hashes, Approve(k, l, hash)
  PROVE  KeepsSeats
<1>1. \/ approvals[k] # NoApprovals /\ ChangesRow(approvals, approvals', k, l) /\ old' = old
      \/ /\ approvals[k] = NoApprovals /\ old[k] # NoApprovals
         /\ ChangesRow(old, old', k, l) /\ approvals' = approvals
  BY ApproveEffect
<1>2. CASE approvals[k] # NoApprovals /\ ChangesRow(approvals, approvals', k, l) /\ old' = old
  BY <1>2 DEF KeepsSeats, ChangesRow, RowOf
<1>3. CASE /\ approvals[k] = NoApprovals /\ old[k] # NoApprovals
           /\ ChangesRow(old, old', k, l) /\ approvals' = approvals
  BY <1>3 DEF KeepsSeats, ChangesRow, RowOf
<1> QED
  BY <1>1, <1>2, <1>3

LEMMA UnapproveSeats ==
  ASSUME Inv, NEW k \in Keys, NEW l \in Levels, Unapprove(k, l)
  PROVE  KeepsSeats
<1>1. \/ approvals[k] # NoApprovals /\ ChangesRow(approvals, approvals', k, l) /\ old' = old
      \/ /\ approvals[k] = NoApprovals /\ old[k] # NoApprovals
         /\ ChangesRow(old, old', k, l) /\ approvals' = approvals
  BY UnapproveEffect
<1>2. CASE approvals[k] # NoApprovals /\ ChangesRow(approvals, approvals', k, l) /\ old' = old
  BY <1>2 DEF KeepsSeats, ChangesRow, RowOf
<1>3. CASE /\ approvals[k] = NoApprovals /\ old[k] # NoApprovals
           /\ ChangesRow(old, old', k, l) /\ approvals' = approvals
  BY <1>3 DEF KeepsSeats, ChangesRow, RowOf
<1> QED
  BY <1>1, <1>2, <1>3

LEMMA ProposeSeats ==
  ASSUME Inv, NEW k \in Keys, NEW requested \in Requests, NEW t \in Trxs,
         Propose(k, requested, t)
  PROVE  KeepsSeats
<1>1. /\ approvals[k] = NoApprovals /\ old[k] = NoApprovals /\ old' = old
      /\ approvals' = [approvals EXCEPT ![k] = Unapproved(requested)]
  BY DEF Propose, Inv, OneApprovalsRow
<1>2. \A j \in Keys \ {k} : approvals'[j] = approvals[j]
  BY <1>1 DEF Inv, TypeOK
<1>3. RowOf(k) = NoApprovals /\ \A j \in Keys \ {k} : RowOf(j)' = RowOf(j)
  BY <1>1, <1>2 DEF RowOf
<1> QED
  BY <1>3 DEF KeepsSeats

LEMMA EraseSeats ==
  ASSUME Inv, NEW k \in Keys, EraseApprovals(k)
  PROVE  KeepsSeats
<1>1. approvals[k] = NoApprovals \/ old[k] = NoApprovals
  BY DEF Inv, OneApprovalsRow
<1>2. /\ approvals'[k] = NoApprovals /\ old'[k] = NoApprovals
      /\ \A j \in Keys \ {k} : approvals'[j] = approvals[j] /\ old'[j] = old[j]
  <2>1. CASE approvals[k] # NoApprovals
    BY <1>1, <2>1 DEF EraseApprovals, Inv, TypeOK
  <2>2. CASE approvals[k] = NoApprovals
    BY <2>2 DEF EraseApprovals, Inv, TypeOK
  <2> QED
    BY <2>1, <2>2
<1>3. RowOf(k)' = NoApprovals /\ \A j \in Keys \ {k} : RowOf(j)' = RowOf(j)
  BY <1>2 DEF RowOf
<1> QED
  BY <1>3 DEF KeepsSeats

(***************************************************************************)
(* Approving, taking back and invalidating lose or multiply no seat, in    *)
(* either table, however often a level was requested.                      *)
(***************************************************************************)
THEOREM SeatsStay == Spec => SeatsAreKept
<1>1. ASSUME Inv, [Next]_vars
      PROVE  KeepsSeats
  <2>1. CASE \E k \in Keys, requested \in Requests, t \in Trxs : Propose(k, requested, t)
    BY <1>1, <2>1, ProposeSeats
  <2>2. CASE \E k \in Keys, l \in Levels, hash \in Hashes : Approve(k, l, hash)
    BY <1>1, <2>2, ApproveSeats
  <2>3. CASE \E k \in Keys, l \in Levels : Unapprove(k, l)
    BY <1>1, <2>3, UnapproveSeats
  <2>4. CASE \E k \in Keys, a \in Accounts : Cancel(k, a) \/ Exec(k, a)
    <3>1. PICK k \in Keys : EraseApprovals(k)
      BY <2>4 DEF Cancel, Exec
    <3> QED
      BY <1>1, <3>1, EraseSeats
  <2>5. CASE UNCHANGED <<approvals, old>>
    BY <2>5 DEF KeepsSeats, RowOf
  <2> QED
    BY <1>1, <2>1, <2>2, <2>3, <2>4, <2>5
       DEF Next, vars, Invalidate, RunDeferred, NextBlock
<1>2. SeatsAreKept <=> [][KeepsSeats]_vars
  BY PTL DEF SeatsAreKept, KeepsSeats
<1> HIDE DEF KeepsSeats
<1> QED
  BY <1>1, <1>2, Invariance, PTL DEF Spec

-----------------------------------------------------------------------------
(***************************************************************************)
(* A proposal that goes while it has not expired.                          *)
(***************************************************************************)
GoesRightly ==
  \A k \in Keys :
    proposals[k] # NoProposal /\ proposals'[k] = NoProposal /\ Expiration[proposals[k]] >= Second
      => ActorOf[signer'] = k[1] \/ deferred'[k] = proposals[k]

(***************************************************************************)
(* A proposal that has not expired goes only with its proposer's signature *)
(* or into the deferred transaction of exec.                               *)
(***************************************************************************)
THEOREM ProposersCancel == Spec => OnlyProposerCancels
<1>1. ASSUME Inv, [Next]_vars
      PROVE  GoesRightly
  <2> SUFFICES ASSUME NEW k \in Keys, proposals[k] # NoProposal, proposals'[k] = NoProposal,
                      Expiration[proposals[k]] >= Second
               PROVE  ActorOf[signer'] = k[1] \/ deferred'[k] = proposals[k]
    BY DEF GoesRightly
  <2>1. TypeOK /\ proposals' # proposals
    BY <1>1 DEF Inv
  <2>2. CASE \E j \in Keys, requested \in Requests, t \in Trxs : Propose(j, requested, t)
    BY <2>1, <2>2, SentinelAssumption DEF Propose, TypeOK
  <2>3. ASSUME NEW j \in Keys, NEW a \in Accounts, Cancel(j, a)
        PROVE  ActorOf[signer'] = k[1] \/ deferred'[k] = proposals[k]
    <3>1. j = k
      BY <2>1, <2>3 DEF Cancel, TypeOK
    <3>2. Expiration[proposals[k]] \in Int /\ Second \in Int
      BY <2>1, TrxsAssumption, BoundsAssumption DEF TypeOK, Second, Times
    <3>3. a = k[1]
      BY <2>3, <3>1, <3>2 DEF Cancel, MayCancel
    <3> QED
      BY <2>3, <3>3 DEF Cancel, SignedBy
  <2>4. ASSUME NEW j \in Keys, NEW a \in Accounts, Exec(j, a)
        PROVE  ActorOf[signer'] = k[1] \/ deferred'[k] = proposals[k]
    <3>1. j = k
      BY <2>1, <2>4 DEF Exec, TypeOK
    <3> QED
      BY <2>1, <2>4, <3>1 DEF Exec, TypeOK
  <2> QED
    BY <1>1, <2>1, <2>2, <2>3, <2>4
       DEF Next, vars, Approve, Unapprove, Invalidate, RunDeferred, NextBlock
<1>2. OnlyProposerCancels <=> [][GoesRightly]_vars
  BY PTL DEF OnlyProposerCancels, GoesRightly
<1> HIDE DEF GoesRightly
<1> QED
  BY <1>1, <1>2, Invariance, PTL DEF Spec

-----------------------------------------------------------------------------
(***************************************************************************)
(* The rows, of whichever table, while a level approves or unapproves.     *)
(***************************************************************************)
LEMMA SameRowOf ==
  ASSUME NEW k \in Keys, NEW l \in Levels, SameRows(k, l)
  PROVE  /\ \A j \in Keys : (RowOf(j)' = NoApprovals) <=> (RowOf(j) = NoApprovals)
         /\ \A j \in Keys, m \in Levels : j # k \/ m # l => Given(RowOf(j)', m) = Given(RowOf(j), m)
BY DEF SameRows, RowOf

\* cancel and exec take one row away.
LEMMA ErasedRow ==
  ASSUME Inv, NEW k \in Keys, EraseApprovals(k)
  PROVE  RowOf(k)' = NoApprovals /\ \A j \in Keys \ {k} : RowOf(j)' = RowOf(j)
<1>1. approvals[k] = NoApprovals \/ old[k] = NoApprovals
  BY DEF Inv, OneApprovalsRow
<1>2. /\ approvals'[k] = NoApprovals /\ old'[k] = NoApprovals
      /\ \A j \in Keys \ {k} : approvals'[j] = approvals[j] /\ old'[j] = old[j]
  <2>1. CASE approvals[k] # NoApprovals
    BY <1>1, <2>1 DEF EraseApprovals, Inv, TypeOK
  <2>2. CASE approvals[k] = NoApprovals
    BY <2>2 DEF EraseApprovals, Inv, TypeOK
  <2> QED
    BY <2>1, <2>2
<1> QED
  BY <1>2 DEF RowOf

\* propose adds an empty one.
LEMMA ProposedRow ==
  ASSUME Inv, NEW k \in Keys, NEW requested \in Requests, NEW t \in Trxs,
         Propose(k, requested, t)
  PROVE  /\ RowOf(k) = NoApprovals /\ \A j \in Keys \ {k} : RowOf(j)' = RowOf(j)
         /\ \A l \in Levels : Given(RowOf(k)', l) = {}
<1>1. /\ approvals[k] = NoApprovals /\ old[k] = NoApprovals /\ old' = old
      /\ approvals' = [approvals EXCEPT ![k] = Unapproved(requested)]
  BY DEF Propose, Inv, OneApprovalsRow
<1>2. /\ approvals'[k] = Unapproved(requested) /\ Unapproved(requested) # NoApprovals
      /\ \A j \in Keys \ {k} : approvals'[j] = approvals[j]
  BY <1>1, NothingGiven, RowAssumption DEF Inv, TypeOK
<1>3. RowOf(k)' = Unapproved(requested)
  BY <1>2 DEF RowOf
<1> QED
  BY <1>1, <1>2, <1>3, NothingGiven DEF RowOf

-----------------------------------------------------------------------------
(***************************************************************************)
(* Nothing is left in the tables of a level that was requested once and    *)
(* took its approval back.                                                 *)
(***************************************************************************)
Standing ==
  \A k \in Keys, l \in Levels :
    RowOf(k) # NoApprovals /\ Seats(RowOf(k), l) <= 1 /\ l \in pledged[k] /\ l \notin consent[k]
      => Given(RowOf(k), l) = {}

LEMMA ProposeStanding ==
  ASSUME Inv, Standing, NEW k \in Keys, NEW requested \in Requests, NEW t \in Trxs,
         Propose(k, requested, t)
  PROVE  Standing'
BY ProposedRow DEF Propose, words, Standing

LEMMA ApproveStanding ==
  ASSUME Inv, Standing, NEW k \in Keys, NEW l \in Levels, NEW hash \in Hashes,
         Approve(k, l, hash)
  PROVE  Standing'
<1>1. /\ consent' = [consent EXCEPT ![k] = consent[k] \cup {l}]
      /\ pledged' = [pledged EXCEPT ![k] = pledged[k] \cup {l}]
  BY DEF Approve
<1>2. SameRows(k, l) /\ KeepsSeats
  BY ApproveRows, ApproveSeats
<1> SUFFICES ASSUME NEW j \in Keys, NEW m \in Levels, RowOf(j)' # NoApprovals,
                    Seats(RowOf(j)', m) <= 1, m \in pledged'[j], m \notin consent'[j]
             PROVE  Given(RowOf(j)', m) = {}
  BY DEF Standing
<1>3. (j # k \/ m # l) /\ m \in pledged[j] /\ m \notin consent[j]
  BY <1>1 DEF Inv, TypeOK
<1>4. RowOf(j) # NoApprovals /\ Given(RowOf(j)', m) = Given(RowOf(j), m)
  BY <1>2, <1>3, SameRowOf
<1>5. Seats(RowOf(j)', m) = Seats(RowOf(j), m)
  BY <1>2, <1>4 DEF KeepsSeats
<1> QED
  BY <1>3, <1>4, <1>5 DEF Standing

LEMMA UnapproveStanding ==
  ASSUME Inv, Standing, NEW k \in Keys, NEW l \in Levels, Unapprove(k, l)
  PROVE  Standing'
<1>1. consent' = [consent EXCEPT ![k] = consent[k] \ {l}] /\ pledged' = pledged
  BY DEF Unapprove
<1>2. SameRows(k, l) /\ KeepsSeats
  BY UnapproveRows, UnapproveSeats
<1> SUFFICES ASSUME NEW j \in Keys, NEW m \in Levels, RowOf(j)' # NoApprovals,
                    Seats(RowOf(j)', m) <= 1, m \in pledged'[j], m \notin consent'[j]
             PROVE  Given(RowOf(j)', m) = {}
  BY DEF Standing
<1>3. RowOf(j) # NoApprovals /\ Seats(RowOf(j), m) <= 1
  BY <1>2, SameRowOf DEF KeepsSeats
<1>4. CASE j = k /\ m = l
  <2>1. RowOf(k) \in Row /\ RowOf(k).provided[l] # <<>>
    BY <1>3, <1>4 DEF Unapprove, RowOf, Inv, TypeOK
  <2>2. /\ RowOf(k).requested[l] \in Nat /\ RowOf(k).provided[l] \in Seq(Approval)
        /\ Len(RowOf(k).provided[l]) \in Nat
    BY <2>1, RowType
  <2>3. Len(RowOf(k).provided[l]) # 0
    BY <2>1, <2>2, EmptySeq
  <2>4. RowOf(k).requested[l] + Len(RowOf(k).provided[l]) <= 1
    BY <1>3, <1>4 DEF Seats
  <2> DEFINE free == RowOf(k).requested[l]
             used == Len(RowOf(k).provided[l])
  <2>5. used = 1
    <3>1. free \in Nat /\ used \in Nat /\ used # 0 /\ free + used <= 1
      BY <2>2, <2>3, <2>4
    <3> HIDE DEF free, used
    <3> QED
      BY <3>1
  <2> QED
    BY <1>4, <2>5, UnapproveRows DEF RowOf
<1>5. CASE j # k \/ m # l
  <2>1. m \in pledged[j] /\ m \notin consent[j]
    BY <1>1, <1>5 DEF Inv, TypeOK
  <2>2. Given(RowOf(j)', m) = Given(RowOf(j), m)
    BY <1>2, <1>5, SameRowOf
  <2> QED
    BY <1>3, <2>1, <2>2 DEF Standing
<1> QED
  BY <1>4, <1>5

LEMMA CloseStanding ==
  ASSUME Inv, Standing, NEW k \in Keys, EraseApprovals(k), Forget(k)
  PROVE  Standing'
<1>1. \A j \in Keys \ {k} : consent'[j] = consent[j] /\ pledged'[j] = pledged[j]
  BY DEF Forget, Inv, TypeOK
<1> QED
  BY <1>1, ErasedRow DEF Standing

LEMMA InvalidateStanding ==
  ASSUME Standing, NEW a \in Accounts, Invalidate(a)
  PROVE  Standing'
<1>1. \A j \in Keys, m \in Levels :
        m \in pledged'[j] /\ m \notin consent'[j] => m \in pledged[j] /\ m \notin consent[j]
  BY DEF Invalidate
<1>2. \A j \in Keys : RowOf(j)' = RowOf(j)
  BY DEF Invalidate, RowOf
<1> QED
  BY <1>1, <1>2 DEF Standing

LEMMA AlwaysStanding == Spec => []Standing
<1>1. Init => Standing
  BY DEF Init, Standing
<1>2. ASSUME Inv, Standing, [Next]_vars
      PROVE  Standing'
  <2>1. CASE \E k \in Keys, requested \in Requests, t \in Trxs : Propose(k, requested, t)
    BY <1>2, <2>1, ProposeStanding
  <2>2. CASE \E k \in Keys, l \in Levels, hash \in Hashes : Approve(k, l, hash)
    BY <1>2, <2>2, ApproveStanding
  <2>3. CASE \E k \in Keys, l \in Levels : Unapprove(k, l)
    BY <1>2, <2>3, UnapproveStanding
  <2>4. CASE \E k \in Keys, a \in Accounts : Cancel(k, a) \/ Exec(k, a)
    <3>1. PICK k \in Keys : EraseApprovals(k) /\ Forget(k)
      BY <2>4 DEF Cancel, Exec
    <3> QED
      BY <1>2, <3>1, CloseStanding
  <2>5. CASE \E a \in Accounts : Invalidate(a)
    BY <1>2, <2>5, InvalidateStanding
  <2>6. CASE UNCHANGED <<approvals, old, words>>
    BY <1>2, <2>6 DEF Standing, RowOf, words
  <2> QED
    BY <1>2, <2>1, <2>2, <2>3, <2>4, <2>5, <2>6 DEF Next, vars, RunDeferred, NextBlock
<1> QED
  BY <1>1, <1>2, Invariance, PTL DEF Spec

(***************************************************************************)
(* The levels exec counts have approved, and still consent unless they     *)
(* were requested repeatedly.                                              *)
(***************************************************************************)
LEMMA EffectivePledged ==
  ASSUME Inv, NEW k \in Keys
  PROVE  Effective(k) \subseteq pledged[k]
<1>1. CASE approvals[k] # NoApprovals
  <2> SUFFICES ASSUME NEW l \in Levels, NEW i \in DOMAIN approvals[k].provided[l],
                      Outlives(approvals[k].provided[l][i].time, ActorOf[l])
               PROVE  l \in pledged[k]
    BY <1>1 DEF Effective
  <2>1. approvals[k].provided[l][i] \in Given(approvals[k], l)
    BY DEF Given
  <2> QED
    BY <1>1, <2>1 DEF Inv, Covered
<1>2. CASE approvals[k] = NoApprovals /\ old[k] # NoApprovals
  <2> SUFFICES ASSUME NEW l \in Levels, old[k].provided[l] # <<>>, invals[ActorOf[l]] = Never
               PROVE  l \in pledged[k]
    BY <1>2 DEF Effective
  <2>1. Given(old[k], l) # {}
    <3>1. old[k] \in Row
      BY <1>2 DEF Inv, TypeOK
    <3> QED
      BY <3>1, RowType
  <2> QED
    BY <1>2, <2>1 DEF Inv, Covered
<1>3. CASE approvals[k] = NoApprovals /\ old[k] = NoApprovals
  BY <1>3 DEF Effective
<1> QED
  BY <1>1, <1>2, <1>3

LEMMA EffectiveConsents ==
  ASSUME Inv, Standing, NEW k \in Keys
  PROVE  Effective(k) \subseteq consent[k] \cup (pledged[k] \cap Repeated[k])
<1> SUFFICES ASSUME NEW l \in Effective(k), l \notin consent[k]
             PROVE  l \in pledged[k] /\ l \in Repeated[k]
  OBVIOUS
<1>1. l \in Levels /\ l \in pledged[k]
  BY EffectivePledged DEF Inv, TypeOK
<1>2. RowOf(k) # NoApprovals /\ RowOf(k) \in Row
  BY DEF Effective, RowOf, Inv, TypeOK
<1>3. Given(RowOf(k), l) # {}
  <2>1. CASE approvals[k] # NoApprovals
    BY <2>1 DEF Effective, Given, RowOf
  <2>2. CASE approvals[k] = NoApprovals
    <3>1. RowOf(k).provided[l] # <<>>
      BY <1>2, <2>2 DEF Effective, RowOf
    <3> QED
      BY <1>1, <1>2, <3>1, RowType
  <2> QED
    BY <2>1, <2>2
<1>4. ~(Seats(RowOf(k), l) <= 1)
  BY <1>1, <1>2, <1>3 DEF Standing
<1>5. Seats(RowOf(k), l) \in Nat
  BY <1>1, <1>2, RowType DEF Seats
<1> QED
  BY <1>1, <1>2, <1>4, <1>5 DEF Repeated

(***************************************************************************)
(* The levels requested repeatedly, after a step that keeps the rows, and  *)
(* after one that makes or removes a row.                                  *)
(***************************************************************************)
LEMMA RepeatedStays ==
  ASSUME KeepsSeats, \A j \in Keys : (RowOf(j)' = NoApprovals) <=> (RowOf(j) = NoApprovals)
  PROVE  Repeated' = Repeated
BY DEF KeepsSeats, Repeated

LEMMA RepeatedMoves ==
  ASSUME NEW k \in Keys, \A j \in Keys \ {k} : RowOf(j)' = RowOf(j)
  PROVE  Repeated' = [Repeated EXCEPT ![k] =
                        {l \in Levels : RowOf(k)' # NoApprovals /\ Seats(RowOf(k)', l) > 1}]
<1> DEFINE before == [j \in Keys |-> {l \in Levels : RowOf(j) # NoApprovals /\ Seats(RowOf(j), l) > 1}]
           after == [j \in Keys |-> {l \in Levels : RowOf(j)' # NoApprovals /\ Seats(RowOf(j)', l) > 1}]
           S == {l \in Levels : RowOf(k)' # NoApprovals /\ Seats(RowOf(k)', l) > 1}
<1>1. Repeated = before /\ Repeated' = after
  BY DEF Repeated
<1>2. \A j \in Keys : after[j] = IF j = k THEN S ELSE before[j]
  OBVIOUS
<1>3. DOMAIN after = Keys /\ DOMAIN before = Keys /\ after = [j \in Keys |-> after[j]]
  OBVIOUS
<1> HIDE DEF before, after, S
<1>4. after = [before EXCEPT ![k] = S]
  BY <1>2, <1>3
<1> QED
  BY <1>1, <1>4 DEF S

LEMMA RowsRest ==
  ASSUME UNCHANGED <<approvals, old>>
  PROVE  Repeated' = Repeated
BY DEF Repeated, RowOf

LEMMA ClosesRepeated ==
  ASSUME Inv, NEW k \in Keys, EraseApprovals(k)
  PROVE  Repeated' = [Repeated EXCEPT ![k] = {}]
<1>1. RowOf(k)' = NoApprovals /\ \A j \in Keys \ {k} : RowOf(j)' = RowOf(j)
  BY ErasedRow
<1>2. {l \in Levels : RowOf(k)' # NoApprovals /\ Seats(RowOf(k)', l) > 1} = {}
  BY <1>1
<1> QED
  BY <1>1, <1>2, RepeatedMoves

LEMMA InitConsent == Init => ConsentView!Init
<1> SUFFICES ASSUME Init
             PROVE  ConsentView!Init
  OBVIOUS
<1>1. Second = 0
  BY BoundsAssumption DEF Init, Second
<1>2. ASSUME NEW k \in Keys
      PROVE  (proposals[k] # NoProposal /\ Expiration[proposals[k]] >= Second) <=> proposals[k] # NoProposal
  BY <1>1, TrxsAssumption DEF Init
<1>3. Live = [k \in Keys |-> proposals[k] # NoProposal]
  BY <1>2, Zenon DEF Live
<1>4. Repeated \in [Keys -> SUBSET Levels]
  BY DEF Repeated
<1> QED
  BY <1>3, <1>4 DEF Init, ConsentView!Init

(***************************************************************************)
(* What is live after the step: nothing changes while the tables of        *)
(* proposals and the time do not, a proposal made is live, one that is     *)
(* gone is not.                                                            *)
(***************************************************************************)
LEMMA LiveStays ==
  ASSUME UNCHANGED <<proposals, now>>
  PROVE  Live' = Live
BY DEF Live, Second

\* What is live under a key, before and after a step.
LEMMA IsLive ==
  ASSUME NEW k \in Keys
  PROVE  /\ Live[k] <=> proposals[k] # NoProposal /\ Expiration[proposals[k]] >= Second
         /\ Live'[k] <=> proposals'[k] # NoProposal /\ Expiration[proposals'[k]] >= Second'
BY DEF Live

\* A step that changes the proposal of one key at most, with the clock at rest.
LEMMA LiveMoves ==
  ASSUME TypeOK, NEW k \in Keys, NEW t \in Trxs \cup {NoProposal}, NEW b \in BOOLEAN,
         proposals' = [proposals EXCEPT ![k] = t], now' = now,
         b <=> t # NoProposal /\ Expiration[t] >= Second
  PROVE  Live' = [Live EXCEPT ![k] = b]
<1>1. ASSUME NEW j \in Keys
      PROVE  Live'[j] <=> [Live EXCEPT ![k] = b][j]
  <2>1. Second' = Second
    BY DEF Second
  <2>2. CASE j = k
    <3>1. proposals'[j] = t
      BY <2>2 DEF TypeOK
    <3>2. Live'[j] <=> b
      BY <2>1, <2>2, <3>1, IsLive
    <3> QED
      BY <2>2, <3>2 DEF Live
  <2>3. CASE j # k
    <3>1. proposals'[j] = proposals[j]
      BY <2>3 DEF TypeOK
    <3>2. Live'[j] <=> Live[j]
      BY <2>1, <3>1, IsLive
    <3> QED
      BY <2>3, <3>2 DEF Live
  <2> QED
    BY <2>2, <2>3
<1>2. /\ Live' = [j \in Keys |-> Live'[j]] /\ Live = [j \in Keys |-> Live[j]]
      /\ \A j \in Keys : Live'[j] \in BOOLEAN /\ Live[j] \in BOOLEAN
  BY DEF Live
<1> DEFINE after == Live'
           before == Live
<1>3. /\ after = [j \in Keys |-> after[j]] /\ before = [j \in Keys |-> before[j]]
      /\ \A j \in Keys : after[j] \in BOOLEAN /\ before[j] \in BOOLEAN
      /\ \A j \in Keys : after[j] <=> [before EXCEPT ![k] = b][j]
  BY <1>1, <1>2
<1> HIDE DEF after, before
<1>4. \A j \in Keys : [before EXCEPT ![k] = b][j] \in BOOLEAN
  BY <1>3
<1>5. \A j \in Keys : after[j] = [before EXCEPT ![k] = b][j]
  BY <1>3, <1>4
<1>6. after = [before EXCEPT ![k] = b]
  BY <1>3, <1>5
<1> QED
  BY <1>6 DEF after, before

\* What a whole division gives.
LEMMA Divided ==
  ASSUME NEW n \in Nat, NEW b \in Nat \ {0}
  PROVE  n \div b \in Nat /\ b * (n \div b) <= n /\ n < b * ((n \div b) + 1)
OBVIOUS

\* The second does not go back when the clock ticks.
LEMMA LaterSecond ==
  ASSUME NEW n \in Nat, NEW b \in Nat \ {0}
  PROVE  n \div b \in Nat /\ (n + 1) \div b \in Nat /\ (n + 1) \div b >= n \div b
<1> DEFINE q == n \div b
           r == (n + 1) \div b
<1>1. q \in Nat /\ b * q <= n
  BY Divided
<1>2. r \in Nat /\ n + 1 < b * (r + 1)
  <2>1. n + 1 \in Nat
    OBVIOUS
  <2> QED
    BY <2>1, Divided
<1> HIDE DEF q, r
<1>3. CASE r + 1 <= q
  <2>1. b * (r + 1) <= b * q
    BY <1>1, <1>2, <1>3
  <2> QED
    BY <1>1, <1>2, <2>1
<1> QED
  BY <1>1, <1>2, <1>3 DEF q, r

LEMMA ConsentStep ==
  ASSUME Inv, Standing, [Next]_vars
  PROVE  [ConsentView!Next]_ConsentView!vars
<1> USE DEF ConsentView!Next, ConsentView!vars
<1> TypeOK
  BY DEF Inv
<1>1. ASSUME NEW k \in Keys, NEW requested \in Requests, NEW t \in Trxs, Propose(k, requested, t)
      PROVE  ConsentView!Next
  <2>1. Live' = [Live EXCEPT ![k] = TRUE]
    <3>1. proposals' = [proposals EXCEPT ![k] = t]
      BY <1>1 DEF Propose
    <3>2. now' = now
      BY <1>1 DEF Propose
    <3>3. TRUE <=> t # NoProposal /\ Expiration[t] >= Second
      BY <1>1, SentinelAssumption DEF Propose
    <3> QED
      BY <3>1, <3>2, <3>3, LiveMoves
  <2>2. \E S \in SUBSET Levels : Repeated' = [Repeated EXCEPT ![k] = S]
    BY <1>1, ProposedRow, RepeatedMoves
  <2>3. ConsentView!Put(k, t)
    BY <1>1, <2>1, <2>2 DEF Propose, SignedBy, words, ConsentView!Put
  <2> QED
    BY <2>3
<1>2. ASSUME NEW k \in Keys, NEW l \in Levels, NEW hash \in Hashes, Approve(k, l, hash)
      PROVE  ConsentView!Next
  <2>1. proposals[k] # NoProposal
    BY <1>2 DEF Approve, Inv, OneApprovalsRow
  <2>2. Repeated' = Repeated
    BY <1>2, ApproveRows, ApproveSeats, SameRowOf, RepeatedStays
  <2>3. ConsentView!Assent(k, l)
    BY <1>2, <2>1, <2>2, LiveStays DEF Approve, ConsentView!Assent
  <2> QED
    BY <2>3
<1>3. ASSUME NEW k \in Keys, NEW l \in Levels, Unapprove(k, l)
      PROVE  ConsentView!Next
  <2>1. proposals[k] # NoProposal
    BY <1>3 DEF Unapprove, Inv, OneApprovalsRow
  <2>2. Repeated' = Repeated
    BY <1>3, UnapproveRows, UnapproveSeats, SameRowOf, RepeatedStays
  <2>3. ConsentView!Retract(k, l)
    BY <1>3, <2>1, <2>2, LiveStays DEF Unapprove, ConsentView!Retract
  <2> QED
    BY <2>3
<1>4. ASSUME NEW k \in Keys, NEW a \in Accounts, Cancel(k, a)
      PROVE  ConsentView!Next
  <2>1. Live' = [Live EXCEPT ![k] = FALSE]
    <3>1. proposals' = [proposals EXCEPT ![k] = NoProposal]
      BY <1>4 DEF Cancel
    <3>2. now' = now
      BY <1>4 DEF Cancel
    <3>3. FALSE <=> NoProposal # NoProposal /\ Expiration[NoProposal] >= Second
      OBVIOUS
    <3> QED
      BY <3>1, <3>2, <3>3, LiveMoves
  <2>2. Live[k] => a = k[1]
    <3>1. Expiration[proposals[k]] \in Int /\ Second \in Int
      BY <1>4, TrxsAssumption, BoundsAssumption DEF Cancel, TypeOK, Second, Times
    <3> QED
      BY <1>4, <3>1, IsLive DEF Cancel, MayCancel
  <2>3. Repeated' = [Repeated EXCEPT ![k] = {}]
    BY <1>4, ClosesRepeated DEF Cancel
  <2>4. ConsentView!Drop(k)
    BY <1>4, <2>1, <2>2, <2>3 DEF Cancel, Forget, SignedBy, ConsentView!Drop, ConsentView!Close
  <2> QED
    BY <2>4
<1>5. ASSUME NEW k \in Keys, NEW a \in Accounts, Exec(k, a)
      PROVE  ConsentView!Next
  <2>1. Authorizes(consent[k] \cup (pledged[k] \cap Repeated[k]), proposals[k])
    BY <1>5, EffectiveConsents DEF Exec, Authorizes
  <2>2. Live' = [Live EXCEPT ![k] = FALSE]
    <3>1. proposals' = [proposals EXCEPT ![k] = NoProposal]
      BY <1>5 DEF Exec
    <3>2. now' = now
      BY <1>5 DEF Exec
    <3>3. FALSE <=> NoProposal # NoProposal /\ Expiration[NoProposal] >= Second
      OBVIOUS
    <3> QED
      BY <3>1, <3>2, <3>3, LiveMoves
  <2>3. Live[k]
    BY <1>5, IsLive DEF Exec
  <2>4. Repeated' = [Repeated EXCEPT ![k] = {}]
    BY <1>5, ClosesRepeated DEF Exec
  <2>5. ConsentView!Send(k)
    BY <1>5, <2>1, <2>2, <2>3, <2>4 DEF Exec, Forget, SignedBy, ConsentView!Send, ConsentView!Close
  <2> QED
    BY <2>5
<1>6. ASSUME NEW a \in Accounts, Invalidate(a)
      PROVE  ConsentView!Next
  <2>1. ConsentView!RetractAll(a)
    BY <1>6, LiveStays, RowsRest DEF Invalidate, SignedBy, ConsentView!RetractAll
  <2> QED
    BY <2>1
<1>7. ASSUME NEW k \in Keys, RunDeferred(k)
      PROVE  ConsentView!Next
  <2>1. ConsentView!Run(k)
    BY <1>7, LiveStays, RowsRest DEF RunDeferred, words, ConsentView!Run
  <2> QED
    BY <2>1
<1>8. ASSUME NextBlock
      PROVE  ConsentView!Next
  <2> DEFINE gone == {k \in Keys : Live[k] /\ ~Live'[k]}
  <2>1. ASSUME NEW k \in Keys, Live'[k]
        PROVE  Live[k]
    <3>1. now' = now + 1 /\ now \in Nat /\ proposals' = proposals
      BY <1>8 DEF NextBlock, TypeOK, Times
    <3>2. proposals[k] # NoProposal /\ Expiration[proposals[k]] >= Second'
      BY <2>1, <3>1, IsLive
    <3>3. Expiration[proposals[k]] \in Nat
      BY <3>2, TrxsAssumption DEF TypeOK
    <3>4. Second' >= Second /\ Second \in Nat /\ Second' \in Nat
      BY <3>1, BoundsAssumption, LaterSecond DEF Second
    <3>5. Expiration[proposals[k]] >= Second
      BY <3>2, <3>3, <3>4
    <3> QED
      BY <3>2, <3>5, IsLive
  <2>2. Live' = [k \in Keys |-> Live[k] /\ k \notin gone]
    <3>1. ASSUME NEW k \in Keys
          PROVE  Live'[k] <=> Live[k] /\ k \notin gone
      BY <2>1
    <3>2. Live' = [k \in Keys |-> Live'[k]] /\ \A k \in Keys : Live'[k] \in BOOLEAN
      BY DEF Live
    <3> QED
      BY <3>1, <3>2, Zenon
  <2>3. ConsentView!Expire(gone)
    BY <1>8, <2>2, RowsRest DEF NextBlock, words, ConsentView!Expire
  <2> QED
    BY <2>3
<1>9. CASE UNCHANGED vars
  BY <1>9, LiveStays, RowsRest DEF vars, words
<1> QED
  BY <1>1, <1>2, <1>3, <1>4, <1>5, <1>6, <1>7, <1>8, <1>9 DEF Next

(***************************************************************************)
(* The contract is a multisignature service as Consent describes it: what  *)
(* exec sends has enough levels whose last word was yes, counting as such  *)
(* only those with them that were requested repeatedly, approved, and have *)
(* not invalidated since.                                                  *)
(***************************************************************************)
THEOREM KeepsThePromise == Spec => IsConsent
<1>1. Spec => ConsentView!Init /\ [][ConsentView!Next]_ConsentView!vars
  BY InitConsent, ConsentStep, Invariance, AlwaysStanding, PTL DEF Spec
<1> QED
  BY <1>1 DEF IsConsent, ConsentView!Spec
=============================================================================
