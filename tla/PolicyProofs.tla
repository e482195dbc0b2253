----------------------------- MODULE PolicyProofs ------------------------------
(***************************************************************************)
(* The policies: what the admin API makes of the table, what the loader's  *)
(* cache makes of what it reads there, and what is kept of a decision.     *)
(***************************************************************************)
EXTENDS PolicyLoader, DecisionRules, FiniteSetTheorems, WellFoundedInduction, TLAPS

(***************************************************************************)
(* Optimistic locking of PoliciesTable works for every number of operators *)
(* and PUTs, on the keys whose operators always send If-Match and never    *)
(* delete, when the GetItem of putPolicy is a consistent read.             *)
(***************************************************************************)
\* What an operator has fetched is no newer than the item, and is its policy
\* when it has its version.
FetchedIsPast ==
    \A o \in Operators : \A k \in Disciplined :
        /\ fetched[o][k].version <= policies[k].version
        /\ fetched[o][k].version = policies[k].version =>
              fetched[o][k].policy = policies[k].policy

\* The GetItem of a PUT under way came after the operator's fetch and before now.
ReadIsBetween ==
    \A o \in Operators : put[o] # Idle /\ put[o].key \in Disciplined =>
        /\ put[o].locked
        /\ fetched[o][put[o].key].version <= put[o].existing.version
        /\ put[o].existing.version <= policies[put[o].key].version

IInv == AdminTypeOK /\ (ConsistentReads => FetchedIsPast /\ ReadIsBetween)
-------------------------------------------------------------------------------
\* Only a real item has a version, and NoItem is no item.
LEMMA Items ==
    /\ NoItem \notin Item
    /\ \A i \in Item \cup {NoItem} :
          /\ i.version \in Nat /\ i.policy \in Nat
          /\ i.version = 0 => i = NoItem
  BY AdminAssumption DEF Item, NoItem

\* Idle is no PUT, and a PUT has the parts of one.
LEMMA Puts ==
    /\ Idle \notin Put
    /\ \A p \in Put : p.key \in Keys /\ p.locked \in BOOLEAN /\ p.existing \in Item \cup {NoItem}
  BY AdminAssumption DEF Idle, Put

\* The first state satisfies the invariant.
LEMMA InitInv == Init => IInv
  BY AdminAssumption, Items DEF Init, IInv, AdminTypeOK, FetchedIsPast, ReadIsBetween, NoItem

\* Replacing an item keeps the types of the table and of its past.
LEMMA ReplaceTypes ==
    ASSUME AdminTypeOK, NEW k \in Keys, NEW item \in Item \cup {NoItem}, Replace(k, item)
    PROVE  /\ policies' \in [Keys -> Item \cup {NoItem}]
           /\ past' \in [Keys -> SUBSET (Item \cup {NoItem})]
  BY DEF AdminTypeOK, Replace

\* Whatever is readable is an item or none; with consistent reads, the item.
LEMMA Reads ==
    ASSUME AdminTypeOK, NEW k \in Keys, NEW item \in Readable(k)
    PROVE  /\ item \in Item \cup {NoItem}
           /\ ConsistentReads => item = policies[k]
  BY DEF AdminTypeOK, Readable

\* A step of an operator keeps every variable's type.
LEMMA StepTypes ==
    ASSUME AdminTypeOK, NEW o \in Operators, AdminStep(o)
    PROVE  AdminTypeOK'
<1>1. ASSUME PutItem(o) PROVE AdminTypeOK'
  <2> DEFINE item == [version |-> put[o].existing.version + 1,
                      status  |-> "active", policy |-> puts + 1]
  <2>1. put[o] \in Put /\ put[o].key \in Keys
    BY <1>1, Puts DEF PutItem, AdminTypeOK
  <2>2. item \in Item
    <3>1. put[o].existing.version \in Nat /\ puts \in Nat
      BY <2>1, Puts, Items DEF AdminTypeOK
    <3> QED BY <3>1 DEF Item
  <2>3. Replace(put[o].key, item)
    BY <1>1 DEF PutItem
  <2>4. /\ policies' \in [Keys -> Item \cup {NoItem}]
        /\ past' \in [Keys -> SUBSET (Item \cup {NoItem})]
    BY <2>1, <2>2, <2>3, ReplaceTypes
  <2>5. fetched' \in [Operators -> [Keys -> Item \cup {NoItem}]]
    <3> HIDE DEF item
    <3>1. fetched' = [fetched EXCEPT ![o][put[o].key] = item] \/ fetched' = fetched
      BY <1>1 DEF PutItem, item
    <3> QED BY <3>1, <2>1, <2>2 DEF AdminTypeOK
  <2>6. puts' \in Nat /\ put' \in [Operators -> Put \cup {Idle}]
    BY <1>1 DEF PutItem, AdminTypeOK
  <2> QED BY <2>4, <2>5, <2>6 DEF AdminTypeOK
<1>2. ASSUME PutConflicts(o) PROVE AdminTypeOK'
  BY <1>2 DEF PutConflicts, AdminTypeOK
<1>3. ASSUME NEW k \in Keys, ListPolicies(o, k) PROVE AdminTypeOK'
  BY <1>3, Reads DEF ListPolicies, AdminTypeOK
<1>4. ASSUME NEW k \in Keys, GetExisting(o, k) PROVE AdminTypeOK'
  BY <1>4, Reads DEF GetExisting, AdminTypeOK, Put
<1>5. ASSUME NEW k \in Keys, PatchStatus(o, k) PROVE AdminTypeOK'
  <2>1. PICK status \in {"active", "disabled"} :
           LET item == [policies[k] EXCEPT !.status = status]
           IN  Replace(k, item) /\ fetched' = [fetched EXCEPT ![o][k] = item]
    BY <1>5 DEF PatchStatus
  <2> DEFINE item == [policies[k] EXCEPT !.status = status]
  <2>2. item \in Item
    <3>1. policies[k] \in Item
      BY <1>5 DEF PatchStatus, AdminTypeOK
    <3> QED BY <3>1 DEF Item
  <2>3. /\ policies' \in [Keys -> Item \cup {NoItem}]
        /\ past' \in [Keys -> SUBSET (Item \cup {NoItem})]
    BY <2>1, <2>2, ReplaceTypes
  <2>4. fetched' \in [Operators -> [Keys -> Item \cup {NoItem}]]
    <3> HIDE DEF item
    <3>1. fetched' = [fetched EXCEPT ![o][k] = item]
      BY <2>1 DEF item
    <3> QED BY <3>1, <2>2 DEF AdminTypeOK
  <2> QED BY <1>5, <2>3, <2>4 DEF PatchStatus, AdminTypeOK
<1>6. ASSUME NEW k \in Keys, DeletePolicy(o, k) PROVE AdminTypeOK'
  <2>1. /\ policies' \in [Keys -> Item \cup {NoItem}]
        /\ past' \in [Keys -> SUBSET (Item \cup {NoItem})]
    BY <1>6, ReplaceTypes DEF DeletePolicy
  <2> QED BY <1>6, <2>1 DEF DeletePolicy, AdminTypeOK
<1> QED BY <1>1, <1>2, <1>3, <1>4, <1>5, <1>6 DEF AdminStep

\* A PUT of a disciplined key takes effect on the very version its operator
\* fetched, which is the version its GetItem read.
LEMMA LockedPutIsCurrent ==
    ASSUME IInv, ConsistentReads, NEW o \in Operators, PutItem(o),
           put[o].key \in Disciplined
    PROVE  /\ put[o].existing.version = policies[put[o].key].version
           /\ fetched[o][put[o].key].version = policies[put[o].key].version
<1> DEFINE k == put[o].key
<1>1. put[o] \in Put /\ k \in Keys /\ put[o].existing \in Item \cup {NoItem}
  BY Puts DEF PutItem, IInv, AdminTypeOK
<1>2. policies[k] \in Item \cup {NoItem} /\ fetched[o][k] \in Item \cup {NoItem}
  BY <1>1 DEF IInv, AdminTypeOK
<1>3. /\ put[o].existing.version \in Nat
      /\ policies[k].version \in Nat
      /\ fetched[o][k].version \in Nat
  BY <1>1, <1>2, Items
<1>4. /\ put[o].locked
      /\ fetched[o][k].version <= put[o].existing.version
      /\ put[o].existing.version <= policies[k].version
  BY DEF PutItem, IInv, ReadIsBetween
<1>5. \/ put[o].existing = NoItem /\ policies[k] = NoItem
      \/ policies[k].version = fetched[o][k].version
  BY <1>4 DEF PutItem, ConditionHolds, IfMatch
<1>6. CASE put[o].existing = NoItem /\ policies[k] = NoItem
  BY <1>3, <1>4, <1>6 DEF NoItem
<1>7. CASE policies[k].version = fetched[o][k].version
  BY <1>3, <1>4, <1>7
<1> QED BY <1>5, <1>6, <1>7

\* On a disciplined key a step advances the version or leaves version and
\* policy as they were.
LEMMA TableAdvances ==
    ASSUME IInv, ConsistentReads, NEW o \in Operators, AdminStep(o), NEW k \in Disciplined
    PROVE  /\ policies'[k].policy # policies[k].policy =>
                  policies'[k].version = policies[k].version + 1 /\ PutItem(o) /\ put[o].key = k
           /\ policies'[k].policy = policies[k].policy =>
                  policies'[k].version = policies[k].version \/ policies'[k].version = policies[k].version + 1
<1>0. k \in Keys /\ policies \in [Keys -> Item \cup {NoItem}]
  BY AdminAssumption DEF IInv, AdminTypeOK
<1>1. CASE policies' = policies
  BY <1>1
<1>2. CASE PutItem(o)
  <2> DEFINE item == [version |-> put[o].existing.version + 1,
                      status  |-> "active", policy |-> puts + 1]
  <2>1. policies' = [policies EXCEPT ![put[o].key] = item]
    BY <1>2 DEF PutItem, Replace
  <2>2. CASE put[o].key = k
    <3>1. policies'[k].version = put[o].existing.version + 1
      BY <1>0, <2>1, <2>2
    <3>2. put[o].existing.version = policies[k].version
      BY <1>2, <2>2, LockedPutIsCurrent
    <3> QED BY <1>2, <2>2, <3>1, <3>2
  <2>3. CASE put[o].key # k
    <3>1. policies'[k] = policies[k]
      BY <1>0, <2>1, <2>3
    <3> QED BY <3>1
  <2> QED BY <2>2, <2>3
<1>3. ASSUME NEW j \in Keys, PatchStatus(o, j)
      PROVE  policies'[k].policy = policies[k].policy /\ policies'[k].version = policies[k].version
  <2>1. PICK status \in {"active", "disabled"} :
           policies' = [policies EXCEPT ![j] = [policies[j] EXCEPT !.status = status]]
    BY <1>3 DEF PatchStatus, Replace
  <2>2. CASE j # k
    BY <1>0, <2>1, <2>2
  <2>3. CASE j = k
    <3>1. policies[k] \in Item
      BY <1>0, <1>3, <2>3 DEF PatchStatus
    <3>2. policies'[k] = [policies[k] EXCEPT !.status = status]
      BY <1>0, <2>1, <2>3
    <3> QED BY <3>1, <3>2 DEF Item
  <2> QED BY <2>2, <2>3
<1>4. ASSUME NEW j \in Keys, DeletePolicy(o, j)
      PROVE  policies'[k] = policies[k]
  BY <1>0, <1>4 DEF DeletePolicy, Replace
<1>5. CASE PutItem(o) \/ policies' = policies
          \/ \E j \in Keys : PatchStatus(o, j) \/ DeletePolicy(o, j)
  BY <1>1, <1>2, <1>3, <1>4, <1>5
<1>6. PutItem(o) \/ policies' = policies
          \/ \E j \in Keys : PatchStatus(o, j) \/ DeletePolicy(o, j)
  BY DEF AdminStep, PutConflicts, ListPolicies, GetExisting
<1> QED BY <1>5, <1>6

\* What a step does to what an operator has fetched and to its PUT under way.
LEMMA OperatorSteps ==
    ASSUME IInv, ConsistentReads, NEW o \in Operators, AdminStep(o),
           NEW p \in Operators, NEW k \in Disciplined
    PROVE  /\ fetched'[p][k] = fetched[p][k] \/ fetched'[p][k] = policies'[k]
           /\ put'[p] # Idle =>
                 /\ fetched'[p] = fetched[p]
                 /\ \/ put'[p] = put[p]
                    \/ /\ put[p] = Idle
                       /\ put'[p].existing = policies[put'[p].key]
                       /\ put'[p].key \in Disciplined => put'[p].locked
<1>0. /\ k \in Keys
      /\ policies \in [Keys -> Item \cup {NoItem}]
      /\ policies' \in [Keys -> Item \cup {NoItem}]
      /\ fetched \in [Operators -> [Keys -> Item \cup {NoItem}]]
      /\ put \in [Operators -> Put \cup {Idle}]
  BY AdminAssumption, StepTypes DEF IInv, AdminTypeOK
<1>1. CASE PutItem(o)
  <2>1. /\ put' = [put EXCEPT ![o] = Idle]
        /\ policies'[put[o].key] = [version |-> put[o].existing.version + 1,
                                    status  |-> "active", policy |-> puts + 1]
        /\ \/ fetched' = fetched
           \/ fetched' = [fetched EXCEPT ![o][put[o].key] =
                             [version |-> put[o].existing.version + 1,
                              status  |-> "active", policy |-> puts + 1]]
    <3>1. put[o].key \in Keys
      BY <1>0, <1>1, Puts DEF PutItem
    <3> QED BY <1>0, <1>1, <3>1 DEF PutItem, Replace
  <2>2. \/ fetched' = fetched
        \/ fetched' = [fetched EXCEPT ![o][put[o].key] = policies'[put[o].key]]
    BY <2>1
  <2>3. fetched'[p][k] = fetched[p][k] \/ fetched'[p][k] = policies'[k]
    BY <1>0, <2>2
  <2>4. p = o => put'[p] = Idle
    BY <1>0, <2>1
  <2>5. p # o => put'[p] = put[p] /\ fetched'[p] = fetched[p]
    BY <1>0, <2>1, <2>2
  <2> QED BY <2>3, <2>4, <2>5
<1>2. CASE PutConflicts(o)
  BY <1>0, <1>2 DEF PutConflicts
<1>3. ASSUME NEW j \in Keys, ListPolicies(o, j)
      PROVE  /\ put' = put /\ policies' = policies /\ put[o] = Idle
             /\ fetched' = [fetched EXCEPT ![o][j] = policies'[j]]
  <2>1. PICK item \in Readable(j) : fetched' = [fetched EXCEPT ![o][j] = item]
    BY <1>3 DEF ListPolicies
  <2>2. item = policies[j]
    BY Reads DEF IInv
  <2> QED BY <1>3, <2>1, <2>2 DEF ListPolicies
<1>4. ASSUME NEW j \in Keys, GetExisting(o, j)
      PROVE  /\ fetched' = fetched /\ put[o] = Idle
             /\ \E locked \in BOOLEAN :
                   /\ j \in Disciplined => locked
                   /\ put' = [put EXCEPT ![o] = [key |-> j, locked |-> locked, existing |-> policies[j]]]
  BY <1>4, Reads DEF GetExisting, IInv
<1>5. ASSUME NEW j \in Keys, PatchStatus(o, j)
      PROVE  /\ put' = put /\ put[o] = Idle
             /\ fetched' = [fetched EXCEPT ![o][j] = policies'[j]]
  <2>1. PICK status \in {"active", "disabled"} :
           /\ policies' = [policies EXCEPT ![j] = [policies[j] EXCEPT !.status = status]]
           /\ fetched' = [fetched EXCEPT ![o][j] = [policies[j] EXCEPT !.status = status]]
    BY <1>5 DEF PatchStatus, Replace
  <2>2. policies'[j] = [policies[j] EXCEPT !.status = status]
    BY <1>0, <2>1
  <2>3. fetched' = [fetched EXCEPT ![o][j] = policies'[j]]
    BY <2>1, <2>2
  <2> QED BY <1>5, <2>3 DEF PatchStatus
<1>6. ASSUME NEW j \in Keys, DeletePolicy(o, j)
      PROVE  put' = put /\ fetched' = fetched
  BY <1>6 DEF DeletePolicy
<1>7. ASSUME NEW j \in Keys, put' = put, put[o] = Idle,
             fetched' = [fetched EXCEPT ![o][j] = policies'[j]]
      PROVE  /\ fetched'[p][k] = fetched[p][k] \/ fetched'[p][k] = policies'[k]
             /\ put'[p] # Idle => fetched'[p] = fetched[p] /\ put'[p] = put[p]
  <2>1. CASE p = o
    BY <1>0, <1>7, <2>1
  <2>2. CASE p # o
    BY <1>0, <1>7, <2>2
  <2> QED BY <2>1, <2>2
<1>8. ASSUME NEW j \in Keys, GetExisting(o, j)
      PROVE  /\ fetched' = fetched
             /\ put'[p] # Idle =>
                   \/ put'[p] = put[p]
                   \/ /\ put[p] = Idle
                      /\ put'[p].existing = policies[put'[p].key]
                      /\ put'[p].key \in Disciplined => put'[p].locked
  <2>1. PICK locked \in BOOLEAN :
           /\ j \in Disciplined => locked
           /\ put' = [put EXCEPT ![o] = [key |-> j, locked |-> locked, existing |-> policies[j]]]
    BY <1>4, <1>8
  <2>2. CASE p = o
    <3>1. put'[p] = [key |-> j, locked |-> locked, existing |-> policies[j]]
      BY <1>0, <2>1, <2>2
    <3>2. put'[p].existing = policies[put'[p].key] /\ (put'[p].key \in Disciplined => put'[p].locked)
      BY <2>1, <3>1
    <3> QED BY <1>4, <1>8, <2>2, <3>2
  <2>3. CASE p # o
    BY <1>0, <1>4, <1>8, <2>1, <2>3
  <2> QED BY <2>2, <2>3
<1> QED BY <1>1, <1>2, <1>3, <1>5, <1>6, <1>7, <1>8 DEF AdminStep

\* A step keeps the invariant.
LEMMA StepInv ==
    ASSUME IInv, NEW o \in Operators, AdminStep(o)
    PROVE  IInv'
<1>1. AdminTypeOK'
  BY StepTypes DEF IInv
<1> SUFFICES ASSUME ConsistentReads PROVE FetchedIsPast' /\ ReadIsBetween'
  BY <1>1 DEF IInv
<1>2. ASSUME NEW p \in Operators, NEW k \in Disciplined
      PROVE  /\ fetched[p][k].version \in Nat /\ fetched'[p][k].version \in Nat
             /\ policies[k].version \in Nat /\ policies'[k].version \in Nat
             /\ fetched[p][k].version <= policies[k].version
             /\ fetched[p][k].version = policies[k].version =>
                   fetched[p][k].policy = policies[k].policy
  <2>1. /\ fetched[p][k] \in Item \cup {NoItem} /\ fetched'[p][k] \in Item \cup {NoItem}
        /\ policies[k] \in Item \cup {NoItem} /\ policies'[k] \in Item \cup {NoItem}
    BY <1>1, AdminAssumption DEF IInv, AdminTypeOK
  <2> QED BY <2>1, Items DEF IInv, FetchedIsPast
<1>3. ASSUME NEW p \in Operators, NEW k \in Disciplined
      PROVE  /\ fetched'[p][k].version <= policies'[k].version
             /\ fetched'[p][k].version = policies'[k].version =>
                   fetched'[p][k].policy = policies'[k].policy
  <2>1. CASE fetched'[p][k] = policies'[k]
    BY <1>2, <2>1
  <2>2. CASE fetched'[p][k] = fetched[p][k]
    BY <1>2, <2>2, TableAdvances
  <2> QED BY <2>1, <2>2, OperatorSteps
<1>4. ASSUME NEW p \in Operators, put'[p] # Idle, put'[p].key \in Disciplined
      PROVE  /\ put'[p].locked
             /\ fetched'[p][put'[p].key].version <= put'[p].existing.version
             /\ put'[p].existing.version <= policies'[put'[p].key].version
  <2> DEFINE k == put'[p].key
  <2>1. fetched'[p] = fetched[p]
    BY <1>4, OperatorSteps
  <2>2. policies[k].version <= policies'[k].version
    BY <1>2, <1>4, TableAdvances
  <2>3. CASE put'[p] = put[p]
    <3>1. /\ put'[p].locked
          /\ fetched'[p][k].version <= put'[p].existing.version
          /\ put'[p].existing.version <= policies[k].version
      BY <1>4, <2>1, <2>3 DEF IInv, ReadIsBetween
    <3>2. put'[p].existing.version \in Nat
      <4>1. put'[p].existing \in Item \cup {NoItem}
        BY <1>1, <1>4, Puts DEF AdminTypeOK
      <4> QED BY <4>1, Items
    <3> QED BY <1>2, <1>4, <2>2, <3>1, <3>2
  <2>4. CASE put'[p].existing = policies[k] /\ put'[p].locked
    BY <1>2, <1>4, <2>1, <2>2, <2>4
  <2> QED BY <1>4, <2>3, <2>4, OperatorSteps
<1> QED BY <1>3, <1>4 DEF FetchedIsPast, ReadIsBetween

\* The invariant holds of every step of the specification, stuttering too.
LEMMA NextInv == IInv /\ [Next]_adminVars => IInv'
<1> SUFFICES ASSUME IInv, [Next]_adminVars PROVE IInv'
  OBVIOUS
<1>1. CASE Next
  BY <1>1, StepInv DEF Next
<1>2. CASE UNCHANGED adminVars
  BY <1>2 DEF adminVars, IInv, AdminTypeOK, FetchedIsPast, ReadIsBetween
<1> QED BY <1>1, <1>2

\* Every variable keeps its type, whatever the operators do.
THEOREM AdminTypeCorrect == Spec => []AdminTypeOK
<1>1. IInv => AdminTypeOK
  BY DEF IInv
<1> QED BY <1>1, InitInv, NextInv, PTL DEF Spec

\* With consistent reads, no number of operators who send If-Match can make a
\* PUT leave the version of an existing item as it was or take it back.
THEOREM LockedVersionsAdvance == Spec => LockedVersionsIncrease
<1>1. IInv /\ [Next]_adminVars => [ConsistentReads => AdvancesOn(Disciplined)]_adminVars
  <2> SUFFICES ASSUME IInv, Next, ConsistentReads PROVE AdvancesOn(Disciplined)
    OBVIOUS
  <2>1. PICK o \in Operators : AdminStep(o)
    BY DEF Next
  <2>2. ASSUME NEW k \in Disciplined, policies'[k].policy # policies[k].policy
        PROVE  policies'[k].version > policies[k].version
    <3>1. policies[k].version \in Nat
      <4>1. policies[k] \in Item \cup {NoItem}
        BY AdminAssumption DEF IInv, AdminTypeOK
      <4> QED BY <4>1, Items
    <3>2. policies'[k].version = policies[k].version + 1
      BY <2>1, <2>2, TableAdvances
    <3> QED BY <3>1, <3>2
  <2> QED BY <2>2 DEF AdvancesOn
<1> QED BY <1>1, InitInv, NextInv, PTL DEF Spec, LockedVersionsIncrease

\* With consistent reads, a PUT with If-Match replaces the very policy its
\* operator had fetched, or creates the item where there was none.
THEOREM LockedPutReplacesFetched == Spec => LockedPutSeesWhatItReplaces
<1> DEFINE Sees ==
      \A o \in Operators :
            /\ ConsistentReads
            /\ put[o] # Idle
            /\ put[o].key \in Disciplined
            /\ policies'[put[o].key].policy # policies[put[o].key].policy
            /\ put'[o] # put[o]
            => policies[put[o].key].policy = fetched[o][put[o].key].policy
<1>1. IInv /\ [Next]_adminVars => [Sees]_adminVars
  <2> SUFFICES ASSUME IInv, Next, ConsistentReads, NEW o \in Operators,
                      put[o] # Idle, put[o].key \in Disciplined,
                      policies'[put[o].key].policy # policies[put[o].key].policy,
                      put'[o] # put[o]
               PROVE  policies[put[o].key].policy = fetched[o][put[o].key].policy
    OBVIOUS
  <2> DEFINE k == put[o].key
  <2>1. PICK p \in Operators : AdminStep(p)
    BY DEF Next
  <2>2. PutItem(p)
    BY <2>1, TableAdvances
  <2>3. p = o
    BY <2>2 DEF PutItem, IInv, AdminTypeOK
  <2>4. fetched[o][k].version = policies[k].version
    BY <2>2, <2>3, LockedPutIsCurrent
  <2> QED BY <2>4 DEF IInv, FetchedIsPast
<1> QED BY <1>1, InitInv, NextInv, PTL DEF Spec, LockedPutSeesWhatItReplaces
-------------------------------------------------------------------------------
(***************************************************************************)
(* The policy cache never goes back, and inspection agrees with it, for    *)
(* every number of instances, operators, keys and candidates.              *)
(*                                                                         *)
(* A PUT's policy is numbered above all before it, so the policies of a    *)
(* key only advance until the item is deleted.  The cache advances with    *)
(* them because the refreshes of a context follow one another: what the    *)
(* one under way finds was read after what is cached had been read.        *)
(***************************************************************************)
\* Policy p, once stored at k, has since been replaced by later ones only.
NotSuperseded(k, p) ==
    p <= puts /\ (policies[k] = NoItem \/ p <= policies[k].policy)

PoliciesAreNumbered == \A k \in Keys : policies[k].policy <= puts

\* A context has one refresh under way at most, and is marked while it has one.
OneRefresh ==
    \A i \in Instances :
        /\ ~inProgress[i] => refreshes[i] = {}
        /\ \A q, r \in refreshes[i] : q = r

\* What a refresh has found, it found at the candidate before its position.
FoundAtCandidate ==
    \A i \in Instances : \A r \in refreshes[i] : r.found # Bundled => r.at # 1

CachedAreStored ==
    \A i \in Instances : cache[i] # NoEntry => NotSuperseded(cache[i].key, cache[i].policy)

FoundAreStored ==
    \A i \in Instances : \A r \in refreshes[i] : r.found # Bundled =>
        /\ NotSuperseded(Candidates[r.at - 1], r.found)
        /\ cache[i].key = Candidates[r.at - 1] => cache[i].policy <= r.found

\* What the invariant allows one instance: its entry, whether the context is
\* marked, and the refreshes that are going on.
Fits(entry, marked, going) ==
    /\ entry \in Entry \cup {NoEntry} /\ marked \in BOOLEAN /\ going \in SUBSET Refresh
    /\ ~marked => going = {}
    /\ \A q, r \in going : q = r
    /\ \A r \in going : r.found # Bundled => r.at # 1
    /\ ConsistentReads =>
          /\ entry # NoEntry => NotSuperseded(entry.key, entry.policy)
          /\ \A r \in going : r.found # Bundled =>
                /\ NotSuperseded(Candidates[r.at - 1], r.found)
                /\ entry.key = Candidates[r.at - 1] => entry.policy <= r.found

\* A step leaves instance i with these, and nothing of the table or of another changes.
Gets(i, entry, marked, going) ==
    /\ UNCHANGED adminVars
    /\ cache' = [cache EXCEPT ![i] = entry]
    /\ inProgress' = [inProgress EXCEPT ![i] = marked]
    /\ refreshes' = [refreshes EXCEPT ![i] = going]
    /\ served' \in [Instances -> Nat] /\ faults' \in 0..MaxFaults

LoaderInv ==
    /\ TypeOK
    /\ refreshes \in [Instances -> SUBSET Refresh]
    /\ OneRefresh
    /\ FoundAtCandidate
    /\ ConsistentReads => PoliciesAreNumbered /\ CachedAreStored /\ FoundAreStored
-------------------------------------------------------------------------------
\* An entry is of a key and of a policy; NoEntry is of none.
LEMMA Entries ==
    /\ NoEntry \notin Entry /\ NoEntry.policy = 0 /\ NoEntry.key \notin Keys
    /\ \A e \in Entry : e.policy \in Nat \ {0} /\ e.key \in Keys /\ e.fresh \in BOOLEAN
BY AdminAssumption DEF Entry, NoEntry, Bundled

\* The candidates are keys, at the positions a refresh goes through.
LEMMA CandidateKeys ==
    /\ Len(Candidates) \in Nat \ {0}
    /\ \A n \in 1..Len(Candidates) : Candidates[n] \in Keys
    /\ \A r \in Refresh : /\ r.at \in 1..Len(Candidates) + 1 /\ r.at \in Nat /\ r.found \in Nat
                          /\ r.degraded \in BOOLEAN
                          /\ r.at # 1 => Candidates[r.at - 1] \in Keys
    /\ Start \in Refresh
<1>1. Candidates \in Seq(Keys) /\ Candidates # <<>>
  BY LoaderAssumption
<1>2. /\ Len(Candidates) \in Nat \ {0}
      /\ \A n \in 1..Len(Candidates) : Candidates[n] \in Keys
  BY <1>1
<1>3. ASSUME NEW r \in Refresh
      PROVE  /\ r.at \in 1..Len(Candidates) + 1 /\ r.at \in Nat /\ r.found \in Nat
             /\ r.degraded \in BOOLEAN
             /\ r.at # 1 => Candidates[r.at - 1] \in Keys
  <2>1. /\ r.at \in 1..Len(Candidates) + 1 /\ r.found \in Nat /\ r.degraded \in BOOLEAN
    BY DEF Refresh
  <2>2. r.at # 1 => r.at - 1 \in 1..Len(Candidates)
    BY <1>2, <2>1
  <2> QED
    BY <1>2, <2>1, <2>2
<1>4. Start \in Refresh
  BY <1>2 DEF Start, Refresh, Bundled
<1> QED
  BY <1>2, <1>3, <1>4

\* The first state satisfies the invariant.
LEMMA InitLoader == LoaderInit => LoaderInv
<1> SUFFICES ASSUME LoaderInit PROVE LoaderInv
  OBVIOUS
<1>1. AdminTypeOK /\ PoliciesAreNumbered
  BY InitInv DEF LoaderInit, IInv, Init, PoliciesAreNumbered, NoItem
<1>2. TypeOK
  BY <1>1, LoaderAssumption DEF LoaderInit, TypeOK, Bundled
<1> QED
  BY <1>1, <1>2 DEF LoaderInit, LoaderInv, OneRefresh, FoundAtCandidate, CachedAreStored,
     FoundAreStored

\* What operators do to the items: the policies of a key advance, or the item goes.
LEMMA AdminGrows ==
    ASSUME AdminTypeOK, PoliciesAreNumbered, NEW o \in Operators, AdminStep(o)
    PROVE  /\ PoliciesAreNumbered'
           /\ \A k \in Keys, p \in Nat : NotSuperseded(k, p) => NotSuperseded(k, p)'
<1>1. /\ policies \in [Keys -> Item \cup {NoItem}] /\ puts \in Nat
      /\ \A k \in Keys : policies[k].policy \in Nat
      /\ NoItem \notin Item /\ NoItem.policy = 0
  BY Items DEF AdminTypeOK, NoItem
<1>2. \A k \in Keys : policies[k] # NoItem => policies[k] \in Item
  BY <1>1
<1>3. /\ puts' \in Nat /\ puts <= puts'
      /\ \A k \in Keys :
            \/ policies'[k] = policies[k]
            \/ policies'[k] = NoItem
            \/ policies[k] # NoItem /\ policies'[k].policy = policies[k].policy
            \/ policies'[k].policy = puts'
  <2>1. CASE PutItem(o)
    <3>1. /\ puts' = puts + 1
          /\ put[o] # Idle
          /\ policies' = [policies EXCEPT ![put[o].key] =
                [version |-> put[o].existing.version + 1, status |-> "active", policy |-> puts + 1]]
      BY <2>1 DEF PutItem, Replace
    <3> QED
      BY <1>1, <3>1
  <2>2. CASE PutConflicts(o) \/ \E k \in Keys : ListPolicies(o, k) \/ GetExisting(o, k)
    BY <1>1, <2>2 DEF PutConflicts, ListPolicies, GetExisting
  <2>3. ASSUME NEW k \in Keys, PatchStatus(o, k)
        PROVE  /\ puts' = puts /\ policies[k] # NoItem
               /\ \A l \in Keys \ {k} : policies'[l] = policies[l]
               /\ policies'[k].policy = policies[k].policy
    <3>1. PICK status \in {"active", "disabled"} :
              Replace(k, [policies[k] EXCEPT !.status = status])
      BY <2>3 DEF PatchStatus
    <3>2. policies[k] # NoItem /\ puts' = puts /\ policies[k] \in Item
      BY <1>2, <2>3 DEF PatchStatus
    <3> QED
      BY <1>1, <3>1, <3>2 DEF Replace, Item
  <2>4. ASSUME NEW k \in Keys, DeletePolicy(o, k)
        PROVE  puts' = puts /\ policies' = [policies EXCEPT ![k] = NoItem]
    BY <2>4 DEF DeletePolicy, Replace
  <2> QED
    BY <1>1, <2>1, <2>2, <2>3, <2>4 DEF AdminStep
<1>4. ASSUME NEW k \in Keys PROVE policies'[k].policy <= puts'
  BY <1>1, <1>3 DEF PoliciesAreNumbered
<1>5. ASSUME NEW k \in Keys, NEW p \in Nat, NotSuperseded(k, p)
      PROVE  NotSuperseded(k, p)'
  BY <1>1, <1>3, <1>5 DEF NotSuperseded, PoliciesAreNumbered
<1> QED
  BY <1>4, <1>5 DEF PoliciesAreNumbered

\* The operators' steps keep the invariant: they only put later policies.
LEMMA AdminKeepsLoader ==
    ASSUME LoaderInv, Next, UNCHANGED loaderVars
    PROVE  LoaderInv'
<1>1. PICK o \in Operators : AdminStep(o)
  BY DEF Next
<1>2. UNCHANGED <<cache, inProgress, refreshes, served, faults>>
  BY DEF loaderVars
<1>3. AdminTypeOK'
  BY <1>1, StepTypes DEF LoaderInv, TypeOK
<1>4. TypeOK' /\ refreshes' \in [Instances -> SUBSET Refresh] /\ OneRefresh' /\ FoundAtCandidate'
  BY <1>2, <1>3 DEF LoaderInv, TypeOK, OneRefresh, FoundAtCandidate
<1>5. ASSUME ConsistentReads PROVE PoliciesAreNumbered' /\ CachedAreStored' /\ FoundAreStored'
  <2>1. /\ PoliciesAreNumbered'
        /\ \A k \in Keys, p \in Nat : NotSuperseded(k, p) => NotSuperseded(k, p)'
    BY <1>1, <1>5, AdminGrows DEF LoaderInv, TypeOK
  <2>2. CachedAreStored'
    <3> SUFFICES ASSUME NEW i \in Instances, cache[i] # NoEntry
                 PROVE  NotSuperseded(cache[i].key, cache[i].policy)'
      BY <1>2 DEF CachedAreStored
    <3>1. cache[i] \in Entry /\ NotSuperseded(cache[i].key, cache[i].policy)
      BY <1>5 DEF LoaderInv, TypeOK, CachedAreStored
    <3> QED
      BY <1>2, <2>1, <3>1, Entries DEF NotSuperseded
  <2>3. FoundAreStored'
    <3> SUFFICES ASSUME NEW i \in Instances, NEW r \in refreshes[i], r.found # Bundled
                 PROVE  /\ NotSuperseded(Candidates[r.at - 1], r.found)'
                        /\ cache[i].key = Candidates[r.at - 1] => cache[i].policy <= r.found
      BY <1>2 DEF FoundAreStored
    <3>1. r \in Refresh /\ r.at # 1
      BY DEF LoaderInv, FoundAtCandidate
    <3>2. /\ NotSuperseded(Candidates[r.at - 1], r.found)
          /\ cache[i].key = Candidates[r.at - 1] => cache[i].policy <= r.found
      BY <1>5 DEF LoaderInv, FoundAreStored
    <3> QED
      BY <2>1, <3>1, <3>2, CandidateKeys
  <2> QED
    BY <2>1, <2>2, <2>3
<1> QED
  BY <1>4, <1>5 DEF LoaderInv

\* A step of an instance that sets its entry and its refreshes to what the
\* invariant allows keeps the invariant.
LEMMA InstanceKeeps ==
    ASSUME LoaderInv, NEW i \in Instances, NEW entry, NEW marked, NEW going,
           Fits(entry, marked, going), Gets(i, entry, marked, going)
    PROVE  LoaderInv' /\ cache'[i] = entry
<1>1. UNCHANGED <<policies, past, puts, fetched, put>>
  BY DEF adminVars, Gets
<1>2. /\ cache'[i] = entry /\ inProgress'[i] = marked /\ refreshes'[i] = going
      /\ \A j \in Instances \ {i} : /\ cache'[j] = cache[j] /\ inProgress'[j] = inProgress[j]
                                    /\ refreshes'[j] = refreshes[j]
      /\ cache' \in [Instances -> Entry \cup {NoEntry}]
      /\ inProgress' \in [Instances -> BOOLEAN]
      /\ refreshes' \in [Instances -> SUBSET Refresh]
  BY DEF LoaderInv, TypeOK, Gets, Fits
<1>3. TypeOK'
  BY <1>1, <1>2 DEF LoaderInv, TypeOK, AdminTypeOK, Gets
<1>4. OneRefresh' /\ FoundAtCandidate'
  BY <1>2 DEF LoaderInv, OneRefresh, FoundAtCandidate, Fits
<1>5. ASSUME ConsistentReads PROVE PoliciesAreNumbered' /\ CachedAreStored' /\ FoundAreStored'
  <2>1. \A k, p : NotSuperseded(k, p)' <=> NotSuperseded(k, p)
    BY <1>1 DEF NotSuperseded
  <2>2. PoliciesAreNumbered'
    BY <1>1, <1>5 DEF LoaderInv, PoliciesAreNumbered
  <2>3. ASSUME NEW j \in Instances
        PROVE  /\ cache'[j] # NoEntry => NotSuperseded(cache'[j].key, cache'[j].policy)
               /\ \A r \in refreshes'[j] : r.found # Bundled =>
                     /\ NotSuperseded(Candidates[r.at - 1], r.found)
                     /\ cache'[j].key = Candidates[r.at - 1] => cache'[j].policy <= r.found
    BY <1>2, <1>5 DEF LoaderInv, CachedAreStored, FoundAreStored, Fits
  <2> QED
    BY <2>2, <2>3, <1>1 DEF CachedAreStored, FoundAreStored, NotSuperseded
<1> QED
  BY <1>2, <1>3, <1>4, <1>5 DEF LoaderInv

\* What the invariant says of one instance, in the form its steps start from.
LEMMA InstanceHas ==
    ASSUME LoaderInv, NEW i \in Instances
    PROVE  /\ Fits(cache[i], inProgress[i], refreshes[i])
           /\ cache = [cache EXCEPT ![i] = cache[i]]
           /\ inProgress = [inProgress EXCEPT ![i] = inProgress[i]]
           /\ refreshes = [refreshes EXCEPT ![i] = refreshes[i]]
           /\ served \in [Instances -> Nat] /\ faults \in 0..MaxFaults
           /\ cache[i].policy \in Nat
           /\ ConsistentReads => PoliciesAreNumbered
BY Entries DEF Fits, LoaderInv, TypeOK, OneRefresh, FoundAtCandidate, CachedAreStored, FoundAreStored

\* A request is answered from the entry; if it starts a refresh, none was under way.
LEMMA LoadKeeps ==
    ASSUME LoaderInv, NEW i \in Instances, LoadPolicyForContext(i)
    PROVE  LoaderInv'
<1>1. /\ served' = [served EXCEPT ![i] = cache[i].policy]
      /\ UNCHANGED <<adminVars, cache, faults>>
      /\ \/ UNCHANGED <<inProgress, refreshes>>
         \/ /\ ~inProgress[i]
            /\ inProgress' = [inProgress EXCEPT ![i] = TRUE]
            /\ refreshes' = [refreshes EXCEPT ![i] = refreshes[i] \cup {Start}]
  BY DEF LoadPolicyForContext, Warmup
<1>2. served' \in [Instances -> Nat] /\ faults' \in 0..MaxFaults
  BY <1>1, InstanceHas
<1>3. CASE UNCHANGED <<inProgress, refreshes>>
  <2>1. Gets(i, cache[i], inProgress[i], refreshes[i])
    BY <1>1, <1>2, <1>3, InstanceHas DEF Gets
  <2> QED
    BY <2>1, InstanceHas, InstanceKeeps
<1>4. CASE ~inProgress[i] /\ UNCHANGED cache
           /\ inProgress' = [inProgress EXCEPT ![i] = TRUE]
           /\ refreshes' = [refreshes EXCEPT ![i] = refreshes[i] \cup {Start}]
  <2>1. refreshes[i] \cup {Start} = {Start}
    BY <1>4, InstanceHas DEF Fits
  <2>2. Gets(i, cache[i], TRUE, {Start})
    BY <1>1, <1>2, <1>4, <2>1, InstanceHas DEF Gets
  <2>3. Start \in Refresh /\ Start.found = Bundled
    BY CandidateKeys DEF Start
  <2>4. Fits(cache[i], TRUE, {Start})
    BY <2>3, InstanceHas DEF Fits
  <2> QED
    BY <2>2, <2>4, InstanceKeeps
<1> QED
  BY <1>1, <1>3, <1>4

\* An entry that expires is the same policy of the same key.
LEMMA ExpireKeeps ==
    ASSUME LoaderInv, NEW i \in Instances, Expire(i)
    PROVE  LoaderInv' /\ cache'[i].policy = cache[i].policy
<1> DEFINE expired == [cache[i] EXCEPT !.fresh = FALSE]
<1>1. /\ cache[i].fresh
      /\ cache' = [cache EXCEPT ![i] = expired]
      /\ UNCHANGED <<adminVars, inProgress, refreshes, served, faults>>
  BY DEF Expire
<1>2. cache[i] \in Entry
  BY <1>1, InstanceHas DEF NoEntry, Fits
<1>3. expired \in Entry /\ expired.policy = cache[i].policy /\ expired.key = cache[i].key
  BY <1>2 DEF Entry
<1>4. cache[i] # NoEntry
  BY <1>2, Entries
<1> HIDE DEF expired
<1>5. Gets(i, expired, inProgress[i], refreshes[i])
  BY <1>1, InstanceHas DEF Gets
<1>6. Fits(expired, inProgress[i], refreshes[i])
  BY <1>3, <1>4, InstanceHas DEF Fits
<1> QED
  BY <1>3, <1>5, <1>6, InstanceKeeps

\* A read that finds nothing, or the policy that is stored, moves the refresh on.
LEMMA ReadKeeps ==
    ASSUME LoaderInv, NEW i \in Instances, NEW r \in refreshes[i],
           TryGetPolicyItem(i, r) \/ TryGetDegraded(i, r)
    PROVE  LoaderInv'
<1>1. r \in Refresh /\ ~Done(r) /\ \A q \in refreshes[i] : q = r
  BY InstanceHas DEF TryGetPolicyItem, TryGetDegraded, Fits
<1>2. /\ UNCHANGED <<adminVars, cache, inProgress, served>>
      /\ faults' \in 0..MaxFaults
  <2>1. MaxFaults \in Nat /\ faults \in 0..MaxFaults
    BY LoaderAssumption, InstanceHas
  <2>2. faults < MaxFaults => faults + 1 \in 0..MaxFaults
    BY <2>1
  <2>3. faults' = faults \/ (faults < MaxFaults /\ faults' = faults + 1)
    BY DEF TryGetPolicyItem, TryGetDegraded
  <2> QED
    BY <2>1, <2>2, <2>3 DEF TryGetPolicyItem, TryGetDegraded
<1>3. PICK found \in Nat, degraded \in BOOLEAN :
         /\ refreshes' = [refreshes EXCEPT ![i] =
               (@ \ {r}) \cup {[at |-> r.at + 1, found |-> found, degraded |-> degraded]}]
         /\ ConsistentReads /\ found # Bundled =>
               policies[Candidates[r.at]] # NoItem /\ found = policies[Candidates[r.at]].policy
  <2>1. r.degraded \in BOOLEAN /\ (r.degraded \/ TRUE) \in BOOLEAN /\ (r.degraded \/ FALSE) \in BOOLEAN
    BY <1>1, CandidateKeys
  <2>2. Bundled \in Nat
    BY DEF Bundled
  <2>3. CASE TryGetPolicyItem(i, r)
    <3>1. PICK item \in Readable(Candidates[r.at]) :
              Advance(i, r, IF item.status = "active" THEN item.policy ELSE Bundled, FALSE)
      BY <2>3 DEF TryGetPolicyItem
    <3>2. Candidates[r.at] \in Keys
      BY <1>1, CandidateKeys DEF Done
    <3>3. /\ item \in Item \cup {NoItem} /\ item.policy \in Nat
          /\ ConsistentReads => item = policies[Candidates[r.at]]
          /\ item.status = "active" => item # NoItem
      BY <3>1, <3>2, Reads, Items DEF LoaderInv, TypeOK, NoItem
    <3> DEFINE found == IF item.status = "active" THEN item.policy ELSE Bundled
    <3>4. found \in Nat /\ (ConsistentReads /\ found # Bundled =>
              policies[Candidates[r.at]] # NoItem /\ found = policies[Candidates[r.at]].policy)
      BY <2>2, <3>3
    <3>5. refreshes' = [refreshes EXCEPT ![i] =
               (@ \ {r}) \cup {[at |-> r.at + 1, found |-> found, degraded |-> r.degraded \/ FALSE]}]
      BY <3>1 DEF Advance
    <3> HIDE DEF found
    <3> QED
      BY <2>1, <3>4, <3>5
  <2>4. CASE TryGetDegraded(i, r)
    <3>1. refreshes' = [refreshes EXCEPT ![i] =
               (@ \ {r}) \cup {[at |-> r.at + 1, found |-> Bundled, degraded |-> r.degraded \/ TRUE]}]
      BY <2>4 DEF TryGetDegraded, Advance
    <3> QED
      BY <2>1, <2>2, <3>1
  <2> QED
    BY <2>3, <2>4
<1> DEFINE next == [at |-> r.at + 1, found |-> found, degraded |-> degraded]
<1>4. /\ next \in Refresh /\ next.found = found /\ next.at - 1 = r.at /\ next.at # 1
      /\ r.at + 1 # 1 /\ r.at + 1 - 1 = r.at
      /\ Candidates[r.at] \in Keys
  <2>1. r.at \in 1..Len(Candidates) /\ Len(Candidates) \in Nat
    BY <1>1, CandidateKeys DEF Done
  <2> QED
    BY <2>1, CandidateKeys DEF Refresh
<1>5. refreshes' = [refreshes EXCEPT ![i] = {next}]
  <2>1. (refreshes[i] \ {r}) \cup {next} = {next}
    BY <1>1
  <2> QED
    BY <1>3, <2>1
<1>6. ConsistentReads /\ found # Bundled =>
          /\ NotSuperseded(Candidates[r.at], found)
          /\ cache[i].key = Candidates[r.at] => cache[i].policy <= found
  <2> SUFFICES ASSUME ConsistentReads, found # Bundled
               PROVE  /\ NotSuperseded(Candidates[r.at], found)
                      /\ cache[i].key = Candidates[r.at] => cache[i].policy <= found
    OBVIOUS
  <2>1. policies[Candidates[r.at]] # NoItem /\ found = policies[Candidates[r.at]].policy
    BY <1>3
  <2>2. PoliciesAreNumbered /\ (cache[i] # NoEntry => NotSuperseded(cache[i].key, cache[i].policy))
    BY InstanceHas DEF Fits
  <2>3. cache[i].key = Candidates[r.at] => cache[i] # NoEntry
    BY <1>4, Entries
  <2> QED
    BY <1>4, <2>1, <2>2, <2>3 DEF NotSuperseded, PoliciesAreNumbered
<1> HIDE DEF next
<1>7. Gets(i, cache[i], inProgress[i], {next})
  BY <1>2, <1>5, InstanceHas DEF Gets
<1>8. Fits(cache[i], inProgress[i], {next})
  <2>1. inProgress[i] /\ inProgress[i] \in BOOLEAN /\ cache[i] \in Entry \cup {NoEntry}
    BY InstanceHas DEF Fits
  <2>2. ConsistentReads =>
          /\ cache[i] # NoEntry => NotSuperseded(cache[i].key, cache[i].policy)
          /\ next.found # Bundled =>
                /\ NotSuperseded(Candidates[next.at - 1], next.found)
                /\ cache[i].key = Candidates[next.at - 1] => cache[i].policy <= next.found
    BY <1>4, <1>6, InstanceHas DEF Fits
  <2> QED
    BY <1>4, <2>1, <2>2 DEF Fits
<1> QED
  BY <1>7, <1>8, InstanceKeeps

\* The only refresh under way ends: its entry is no older than the one it replaces.
LEMMA FinishKeeps ==
    ASSUME LoaderInv, NEW i \in Instances, NEW r \in refreshes[i], FinishRefresh(i, r)
    PROVE  /\ LoaderInv'
           /\ ConsistentReads /\ cache[i].key = cache'[i].key => cache[i].policy <= cache'[i].policy
<1> DEFINE entry == IF r.found = Bundled THEN NoEntry
                    ELSE [policy |-> r.found, key |-> Candidates[r.at - 1], fresh |-> TRUE]
<1>1. /\ r \in Refresh /\ \A q \in refreshes[i] : q = r
      /\ r.found # Bundled => r.at # 1
  BY InstanceHas DEF Fits
<1>2. Gets(i, entry, FALSE, {})
  <2>1. refreshes[i] \ {r} = {}
    BY <1>1
  <2> QED
    BY <2>1, InstanceHas DEF FinishRefresh, EndRefresh, Gets
<1>3. /\ entry \in Entry \cup {NoEntry}
      /\ r.found # Bundled => entry.policy = r.found /\ entry.key = Candidates[r.at - 1]
      /\ r.found = Bundled => entry = NoEntry
  BY <1>1, CandidateKeys DEF Entry, Bundled
<1> HIDE DEF entry
<1>4. ConsistentReads /\ entry # NoEntry => NotSuperseded(entry.key, entry.policy)
  BY <1>3, InstanceHas DEF Fits
<1>5. Fits(entry, FALSE, {})
  BY <1>3, <1>4 DEF Fits
<1>6. LoaderInv' /\ cache'[i] = entry
  BY <1>2, <1>5, InstanceKeeps
<1>7. ASSUME ConsistentReads, cache[i].key = entry.key PROVE cache[i].policy <= entry.policy
  <2>1. CASE r.found # Bundled
    BY <1>3, <1>7, <2>1, InstanceHas DEF Fits
  <2>2. CASE r.found = Bundled
    BY <1>3, <1>7, <2>2, InstanceHas, Entries DEF Fits
  <2> QED
    BY <2>1, <2>2
<1> QED
  BY <1>6, <1>7

\* A new instance has nothing.
LEMMA ColdStartKeeps ==
    ASSUME LoaderInv, NEW i \in Instances, ColdStart(i)
    PROVE  LoaderInv' /\ cache'[i] = NoEntry
<1>1. MaxFaults \in Nat /\ faults \in 0..MaxFaults /\ faults < MaxFaults
  BY InstanceHas, LoaderAssumption DEF ColdStart
<1>2. faults + 1 \in 0..MaxFaults
  BY <1>1
<1>3. Gets(i, NoEntry, FALSE, {})
  BY <1>2, InstanceHas DEF ColdStart, Gets
<1>4. Fits(NoEntry, FALSE, {})
  BY DEF Fits
<1> QED
  BY <1>3, <1>4, InstanceKeeps

\* Every step preserves the invariant.
LEMMA NextLoader == LoaderInv /\ [LoaderNext]_vars => LoaderInv'
<1> SUFFICES ASSUME LoaderInv, [LoaderNext]_vars PROVE LoaderInv'
  OBVIOUS
<1>1. CASE UNCHANGED vars
  BY <1>1 DEF vars, loaderVars, adminVars, LoaderInv, TypeOK, AdminTypeOK, OneRefresh,
     FoundAtCandidate, PoliciesAreNumbered, CachedAreStored, FoundAreStored, NotSuperseded
<1>2. CASE Next /\ UNCHANGED loaderVars
  BY <1>2, AdminKeepsLoader
<1>3. ASSUME NEW i \in Instances, LoaderStep(i) PROVE LoaderInv'
  BY <1>3, LoadKeeps, ExpireKeeps, ReadKeeps, FinishKeeps, ColdStartKeeps
     DEF LoaderStep, RefreshStep
<1> QED
  BY <1>1, <1>2, <1>3 DEF LoaderNext

\* An answered list has the policy in force, or the context has none of its own.
LEMMA InspectionAnswered ==
    ASSUME AdminTypeOK, NEW bad \in SUBSET Keys, NEW p \in 0..MaxPuts, InForce(p, bad),
           p \notin ListActivePolicies(bad, FALSE)
    PROVE  NoneOfItsOwn(p, bad)
<1> DEFINE last == Len(Candidates)
           Detail(k) == PolicyDetail(k, bad, FALSE)
           mine == {k \in Keys \ {Last(Candidates)} : Loadable(k, bad)}
<1>1. /\ last \in Nat \ {0} /\ DOMAIN Candidates = 1..last
      /\ \A n \in 1..last : Candidates[n] \in Keys
      /\ \A n \in 1..last - 1 : Candidates[n] # Last(Candidates)
      /\ Last(Candidates) = Candidates[last]
  BY CandidateKeys, LoaderAssumption DEF Last
<1>2. \A k \in Keys : policies[k].policy \in Nat /\ policies[k].policy # NotFound
  BY Items DEF AdminTypeOK, NotFound
<1>3. \A k \in Keys : /\ Loadable(k, bad) => Detail(k) = policies[k].policy /\ Detail(k) # NotFound
                      /\ ~Loadable(k, bad) => Detail(k) = NotFound
  BY <1>2 DEF PolicyDetail
<1>0. \A m \in 1..last - 1 : m \in 1..last
  BY <1>1
<1>4. \A k \in mine : Detail(k) \in ListActivePolicies(bad, FALSE)
  BY <1>3 DEF ListActivePolicies
<1>5. \A q \in ListActivePolicies(bad, FALSE) : q = Bundled \/ \E k \in mine : q = Detail(k)
  BY <1>3 DEF ListActivePolicies
<1>6. CASE p = Bundled /\ \A n \in 1..last : ~Loadable(Candidates[n], bad)
  <2>1. \A n \in 1..last : Detail(Candidates[n]) = NotFound
    BY <1>1, <1>3, <1>6
  <2>2. \A k \in mine : k \in Keys \ Range(Candidates)
    BY <1>1, <1>6 DEF Range
  <2>3. \A m \in 1..last - 1 : Detail(Candidates[m]) = NotFound
    BY <1>0, <2>1
  <2>4. ListActivePolicies(bad, FALSE) \subseteq
           {Bundled} \cup {Detail(k) : k \in Keys \ Range(Candidates)}
    BY <1>5, <2>2
  <2> QED
    BY <1>6, <2>3, <2>4 DEF NoneOfItsOwn
<1>7. ASSUME NEW n \in 1..last, Loadable(Candidates[n], bad),
             \A m \in 1..n - 1 : ~Loadable(Candidates[m], bad),
             p = policies[Candidates[n]].policy
      PROVE  /\ p = Detail(Last(Candidates))
             /\ \A m \in 1..last - 1 : ~Loadable(Candidates[m], bad)
             /\ \A k \in mine : k \in Keys \ Range(Candidates)
  <2>1. p = Detail(Candidates[n])
    BY <1>1, <1>3, <1>7
  <2>2. n = last
    <3> SUFFICES ASSUME n # last PROVE FALSE
      OBVIOUS
    <3>1. last \in Nat
      BY <1>1
    <3> HIDE DEF last
    <3>2. n \in 1..last - 1
      BY <3>1
    <3>3. Candidates[n] \in mine
      BY <1>1, <1>7, <3>2
    <3> QED
      BY <1>4, <2>1, <3>3
  <2>3. \A m \in 1..last - 1 : ~Loadable(Candidates[m], bad)
    BY <1>7, <2>2
  <2>4. \A k \in mine : k \in Keys \ Range(Candidates)
    BY <1>1, <2>3 DEF Range
  <2> QED
    BY <1>1, <2>1, <2>2, <2>3, <2>4
<1>8. ASSUME p = Detail(Last(Candidates)),
             \A m \in 1..last - 1 : ~Loadable(Candidates[m], bad),
             \A k \in mine : k \in Keys \ Range(Candidates)
      PROVE  NoneOfItsOwn(p, bad)
  <2>1. ASSUME NEW m \in 1..last - 1 PROVE Detail(Candidates[m]) = NotFound
    <3>1. Candidates[m] \in Keys /\ ~Loadable(Candidates[m], bad)
      BY <1>0, <1>1, <1>8, <2>1
    <3> QED
      BY <1>3, <3>1
  <2>2. ListActivePolicies(bad, FALSE) \subseteq
           {Bundled} \cup {Detail(k) : k \in Keys \ Range(Candidates)}
    BY <1>5, <1>8
  <2> QED
    BY <1>8, <2>1, <2>2 DEF NoneOfItsOwn
<1> HIDE DEF mine
<1>9. \/ p = Bundled /\ \A n \in 1..last : ~Loadable(Candidates[n], bad)
      \/ \E n \in 1..last : /\ Loadable(Candidates[n], bad)
                            /\ \A m \in 1..n - 1 : ~Loadable(Candidates[m], bad)
                            /\ p = policies[Candidates[n]].policy
  BY <1>1 DEF InForce
<1> QED
  BY <1>6, <1>7, <1>8, <1>9

\* A read that fails shows the bundled file and no detail.
LEMMA InspectionFails ==
    \A bad : /\ ListActivePolicies(bad, TRUE) = {Bundled}
            /\ \A k \in Keys : PolicyDetail(k, bad, TRUE) = NotFound
BY DEF ListActivePolicies, PolicyDetail

\* The policy that is in force is the one inspection shows, if it can read it.
LEMMA Inspection == AdminTypeOK => InspectionAgrees
<1> SUFFICES ASSUME AdminTypeOK, NEW bad \in SUBSET Keys, NEW failed \in BOOLEAN
             PROVE  /\ \A p \in 0..MaxPuts : InForce(p, bad) =>
                          \/ p \in ListActivePolicies(bad, failed)
                          \/ ~failed /\ NoneOfItsOwn(p, bad)
                          \/ failed /\ Hidden(p, bad)
                    /\ \A n \in DOMAIN Candidates :
                          \/ PolicyDetail(Candidates[n], bad, failed) = NotFound
                          \/ InForce(PolicyDetail(Candidates[n], bad, failed), bad)
                          \/ \E m \in 1..n - 1 : Loadable(Candidates[m], bad)
  BY DEF InspectionAgrees
<1>1. ASSUME NEW p \in 0..MaxPuts, InForce(p, bad), p \notin ListActivePolicies(bad, failed)
      PROVE  (~failed /\ NoneOfItsOwn(p, bad)) \/ (failed /\ Hidden(p, bad))
  <2>1. CASE failed
    BY <1>1, <2>1, InspectionFails DEF Hidden
  <2>2. CASE ~failed
    <3>1. failed = FALSE
      BY <2>2
    <3> QED
      BY <1>1, <2>2, <3>1, InspectionAnswered
  <2> QED
    BY <2>1, <2>2
<1>2. ASSUME NEW n \in DOMAIN Candidates,
             PolicyDetail(Candidates[n], bad, failed) # NotFound,
             \A m \in 1..n - 1 : ~Loadable(Candidates[m], bad)
      PROVE  InForce(PolicyDetail(Candidates[n], bad, failed), bad)
  BY <1>2 DEF InForce, PolicyDetail
<1> QED
  BY <1>1, <1>2

\* The invariant holds in every state.
LEMMA LoaderInvariant == LoaderSpec => []LoaderInv
BY InitLoader, NextLoader, PTL DEF LoaderSpec
-------------------------------------------------------------------------------
\* The table, the caches and the refreshes keep their types whatever operators,
\* refreshes, failed reads and cold starts do, and inspection shows the policy in
\* force for a context, or that it has none of its own, unless its reads fail.
THEOREM LoaderAlwaysConsistent == LoaderSpec => []LoaderConsistent
<1>1. LoaderInv => LoaderConsistent
  BY Inspection DEF LoaderInv, LoaderConsistent, TypeOK
<1> QED
  BY <1>1, LoaderInvariant, PTL

\* With consistent reads an instance that has cached a PUT of a key never goes
\* back to an earlier one of that key, whatever the order in which the reads of
\* its refreshes, the PUTs and its requests interleave.
THEOREM CacheOnlyAdvances == LoaderSpec => CacheNeverGoesBack
<1> DEFINE Advances == \A i \in Instances : ConsistentReads /\ cache[i].key = cache'[i].key
                          => cache[i].policy <= cache'[i].policy
<1>1. ASSUME LoaderInv, [LoaderNext]_vars PROVE Advances
  <2> SUFFICES ASSUME NEW i \in Instances, ConsistentReads, cache[i].key = cache'[i].key
               PROVE  cache[i].policy <= cache'[i].policy
    OBVIOUS
  <2>1. cache[i].policy \in Nat
    BY <1>1, InstanceHas
  <2>2. CASE cache'[i] = cache[i]
    BY <2>1, <2>2
  <2>3. ASSUME NEW j \in Instances, LoaderStep(j), cache'[i] # cache[i]
        PROVE  j = i /\ (Expire(i) \/ ColdStart(i) \/ \E r \in refreshes[i] : FinishRefresh(i, r))
    BY <1>1, <2>3 DEF LoaderStep, RefreshStep, LoadPolicyForContext, Expire, ColdStart,
       TryGetPolicyItem, TryGetDegraded, FinishRefresh, EndRefresh, LoaderInv, TypeOK
  <2>4. CASE Expire(i)
    BY <1>1, <2>1, <2>4, ExpireKeeps
  <2>5. CASE ColdStart(i)
    <3>1. cache'[i] = NoEntry /\ cache[i] = NoEntry
      BY <1>1, <2>5, ColdStartKeeps, InstanceHas, Entries DEF Fits
    <3> QED
      BY <2>1, <3>1
  <2>6. ASSUME NEW r \in refreshes[i], FinishRefresh(i, r) PROVE cache[i].policy <= cache'[i].policy
    BY <1>1, <2>6, FinishKeeps
  <2> QED
    BY <1>1, <2>2, <2>3, <2>4, <2>5, <2>6 DEF LoaderNext, loaderVars, vars
<1>2. LoaderInv /\ [LoaderNext]_vars =>
        \A i \in Instances :
            /\ ConsistentReads
            /\ cache[i].key = cache'[i].key
            => cache[i].policy <= cache'[i].policy
  BY <1>1
<1> HIDE DEF Advances
<1> QED
  BY <1>2, LoaderInvariant, PTL DEF LoaderSpec, CacheNeverGoesBack

(***************************************************************************)
(* What a policy decides, for all documents, whatever their conditions,    *)
(* for all states, and any number of versions and evaluations.  Conditions *)
(* are trees: what holds of a node if it does of its children holds of     *)
(* all, as a set of nodes without it would have one with none below it     *)
(* (RuleAssumption).  A receipt is of the state of its version, which      *)
(* stays; its snapshot is the same to every condition of the policy.       *)
(***************************************************************************)
IsSeq(q) == \E S : q \in Seq(S)

\* Natural numbers of a set that is not empty have a smallest one among them.
LEMMA Smallest == \A T \in SUBSET Nat : T # {} => \E m \in T : \A n \in T : m <= n
<1> SUFFICES ASSUME NEW T \in SUBSET Nat, T # {} PROVE \E m \in T : \A n \in T : m <= n
  OBVIOUS
<1> DEFINE less == OpToRel(<, Nat)
<1>1. \A m \in Nat, n \in Nat : (<<m, n>> \in less) <=> (m < n)
  BY DEF OpToRel
<1>2. IsWellFoundedOn(less, Nat)
  BY NatLessThanWellFounded
<1> HIDE DEF less
<1>3. PICK m \in T : \A n \in T : ~(<<n, m>> \in less)
  BY <1>2, WFMin
<1>4. \A n \in T : m <= n
  <2> SUFFICES ASSUME NEW n \in T PROVE m <= n
    OBVIOUS
  <2>1. m \in Nat /\ n \in Nat
    OBVIOUS
  <2>2. ~(n < m)
    BY <1>1, <1>3, <2>1
  <2> QED
    BY <2>1, <2>2
<1> QED
  BY <1>4

\* A sequence with one more element behind it.
LEMMA Appended ==
    ASSUME NEW q, IsSeq(q), NEW x
    PROVE  LET r == Append(q, x) IN
           /\ IsSeq(r) /\ Len(q) \in Nat /\ Len(r) = Len(q) + 1
           /\ DOMAIN q = 1..Len(q) /\ DOMAIN r = 1..(Len(q) + 1) /\ r[Len(q) + 1] = x
           /\ \A i \in 1..Len(q) : r[i] = q[i]
<1>1. PICK S : q \in Seq(S)
  BY DEF IsSeq
<1> DEFINE T == S \cup {x}
<1>2. q \in Seq(T)
  BY <1>1
<1>3. x \in T
  OBVIOUS
<1> HIDE DEF T
<1>4. Append(q, x) \in Seq(T)
  BY <1>2, <1>3
<1>5. IsSeq(Append(q, x))
  BY <1>4 DEF IsSeq
<1> QED
  BY <1>2, <1>3, <1>5

--------------------------------------------------------------------------------
\* The functions on conditions that go by the children: the parts of a node, and what
\* evaluating it gives.
ValueAt(task, c, g) ==
  IF task.kind = "parts" THEN {c} \cup UNION {g[d] : d \in Children(c)} ELSE OutcomeOf(task.state, c, g)
Attempt(g, task) ==
  /\ DOMAIN g \subseteq Conditions
  /\ \A c \in DOMAIN g : Children(c) \subseteq DOMAIN g /\ g[c] = ValueAt(task, c, g)

\* The nodes right below a node are nodes.
LEMMA ChildrenAre ==
    ASSUME NEW c \in Conditions
    PROVE  /\ Children(c) \subseteq Conditions
           /\ c.node \in {"all", "any"} =>
                /\ Len(c.of) \in Nat /\ c.of \in Seq(Conditions)
                /\ \A i \in 1..Len(c.of) : c.of[i] \in Children(c) /\ c.of[i] \in Conditions
           /\ c.node \notin {"all", "any"} => Children(c) = {}
<1>1. c.node \in {"all", "any"} => c.of \in Seq(Conditions)
  BY RuleAssumption
<1>2. CASE c.node \in {"all", "any"}
  <2>1. Children(c) = Range(c.of)
    BY <1>2 DEF Children
  <2> QED
    BY <2>1, <1>1, <1>2 DEF Range
<1>3. CASE c.node \notin {"all", "any"}
  BY <1>3 DEF Children
<1> QED
  BY <1>2, <1>3

\* The value of a node depends on those of its children.
LEMMA ValueOfChildren ==
    ASSUME NEW task, NEW c \in Conditions, NEW g, NEW h, \A d \in Children(c) : g[d] = h[d]
    PROVE  ValueAt(task, c, g) = ValueAt(task, c, h)
<1>1. {g[d] : d \in Children(c)} = {h[d] : d \in Children(c)}
  OBVIOUS
<1>2. OutcomeOf(task.state, c, g) = OutcomeOf(task.state, c, h)
  <2>1. CASE c.node \in {"all", "any"}
    <3>1. \A i \in 1..Len(c.of) : g[c.of[i]] = h[c.of[i]]
      BY <2>1, ChildrenAre
    <3>2. [i \in 1..Len(c.of) |-> g[c.of[i]]] = [i \in 1..Len(c.of) |-> h[c.of[i]]]
      BY <3>1
    <3> QED
      BY <3>2, <2>1 DEF OutcomeOf
  <2>2. CASE c.node \notin {"all", "any"}
    BY <2>2 DEF OutcomeOf
  <2> QED
    BY <2>1, <2>2
<1> QED
  BY <1>1, <1>2 DEF ValueAt

\* Two attempts agree where both have a value.
LEMMA AttemptsAgree ==
    ASSUME NEW task, NEW g, NEW h, Attempt(g, task), Attempt(h, task)
    PROVE  \A c \in DOMAIN g \cap DOMAIN h : g[c] = h[c]
<1> DEFINE T == {c \in DOMAIN g \cap DOMAIN h : g[c] # h[c]}
<1>1. ASSUME T # {} PROVE FALSE
  <2>1. T \in SUBSET Conditions
    BY DEF Attempt
  <2>2. PICK c \in T : Children(c) \cap T = {}
    <3> HIDE DEF T
    <3> QED
      BY <2>1, <1>1, RuleAssumption
  <2>3. Children(c) \subseteq DOMAIN g \cap DOMAIN h /\ c \in Conditions
    BY <2>2 DEF Attempt
  <2>4. \A d \in Children(c) : g[d] = h[d]
    BY <2>2, <2>3
  <2>5. g[c] = h[c]
    BY <2>2, <2>3, <2>4, ValueOfChildren DEF Attempt
  <2> QED
    BY <2>2, <2>5
<1> QED
  BY <1>1

\* There is a function with the value of every node.
LEMMA ValuesExist == \A task : \E f : f = [c \in Conditions |-> ValueAt(task, c, f)]
<1> SUFFICES ASSUME NEW task PROVE \E f : f = [c \in Conditions |-> ValueAt(task, c, f)]
  OBVIOUS
<1> DEFINE Has(g, c) == Attempt(g, task) /\ c \in DOMAIN g
           U == {c \in Conditions : \E g : Has(g, c)}
           h == [c \in U |-> (CHOOSE g : Has(g, c))[c]]
           T == Conditions \ U
<1>1. \A g : \A c : Has(g, c) => c \in U /\ h[c] = g[c]
  <2> SUFFICES ASSUME NEW g, NEW c, Has(g, c) PROVE c \in U /\ h[c] = g[c]
    OBVIOUS
  <2>1. c \in U
    BY DEF Attempt
  <2> DEFINE k == CHOOSE x : Has(x, c)
  <2>2. Has(k, c)
    <3> HIDE DEF Has
    <3> QED
      OBVIOUS
  <2>3. h[c] = k[c]
    BY <2>1
  <2> HIDE DEF k, h, U
  <2> QED
    BY <2>1, <2>2, <2>3, AttemptsAgree
<1>2. DOMAIN h = U /\ U \subseteq Conditions
  OBVIOUS
<1>3. \A c \in U : Children(c) \subseteq U /\ h[c] = ValueAt(task, c, h)
  <2> SUFFICES ASSUME NEW c \in U PROVE Children(c) \subseteq U /\ h[c] = ValueAt(task, c, h)
    OBVIOUS
  <2>1. PICK g : Has(g, c)
    OBVIOUS
  <2>2. c \in Conditions
    OBVIOUS
  <2> HIDE DEF U, h
  <2>3. Children(c) \subseteq DOMAIN g /\ g[c] = ValueAt(task, c, g)
    BY <2>1 DEF Attempt
  <2>4. \A d \in Children(c) : d \in U /\ h[d] = g[d]
    BY <2>1, <2>3, <1>1
  <2>5. ValueAt(task, c, g) = ValueAt(task, c, h)
    BY <2>2, <2>4, ValueOfChildren
  <2> QED
    BY <2>1, <2>3, <2>4, <2>5, <1>1
<1>4. h = [c \in U |-> h[c]]
  OBVIOUS
<1>5. ASSUME T # {} PROVE FALSE
  <2> HIDE DEF h
  <2>1. PICK c \in T : Children(c) \cap T = {}
    <3>1. T \in SUBSET Conditions
      OBVIOUS
    <3> HIDE DEF T
    <3> QED
      BY <3>1, <1>5, RuleAssumption
  <2>2. c \in Conditions /\ c \notin U /\ Children(c) \subseteq U
    <3>1. Children(c) \subseteq Conditions
      BY ChildrenAre
    <3> QED
      BY <2>1, <3>1
  <2> HIDE DEF U, T
  <2> DEFINE k == [d \in U \cup {c} |-> IF d = c THEN ValueAt(task, c, h) ELSE h[d]]
  <2>3. DOMAIN k = U \cup {c} /\ k[c] = ValueAt(task, c, h) /\ \A d \in U : k[d] = h[d]
    BY <2>2
  <2> HIDE DEF k
  <2>4. \A d \in U : Children(d) \subseteq U /\ d \in Conditions /\ k[d] = ValueAt(task, d, k)
    <3> SUFFICES ASSUME NEW d \in U PROVE Children(d) \subseteq U /\ d \in Conditions /\ k[d] = ValueAt(task, d, k)
      OBVIOUS
    <3>1. Children(d) \subseteq U /\ h[d] = ValueAt(task, d, h) /\ d \in Conditions
      BY <1>2, <1>3
    <3>2. \A x \in Children(d) : k[x] = h[x]
      BY <3>1, <2>3
    <3>3. ValueAt(task, d, k) = ValueAt(task, d, h)
      BY <3>1, <3>2, ValueOfChildren
    <3> QED
      BY <3>1, <3>3, <2>3
  <2>5. k[c] = ValueAt(task, c, k)
    BY <2>2, <2>3, ValueOfChildren
  <2>6. Attempt(k, task)
    BY <2>2, <2>3, <2>4, <2>5, <1>2 DEF Attempt
  <2> QED
    BY <2>6, <2>3, <2>2, <1>1
<1>6. U = Conditions
  BY <1>5
<1>7. h = [c \in Conditions |-> ValueAt(task, c, h)]
  <2> HIDE DEF U, h
  <2> QED
    BY <1>3, <1>4, <1>6
<1> QED
  BY <1>7

\* The parts of a node are itself and those of its children.
LEMMA PartsAre == \A c \in Conditions : Parts[c] = {c} \cup UNION {Parts[d] : d \in Children(c)}
<1>1. PICK f : f = [c \in Conditions |-> ValueAt([kind |-> "parts"], c, f)]
  BY ValuesExist
<1>2. \A c \in Conditions : ValueAt([kind |-> "parts"], c, f) = {c} \cup UNION {f[d] : d \in Children(c)}
  BY DEF ValueAt
<1>3. f = [c \in Conditions |-> {c} \cup UNION {f[d] : d \in Children(c)}]
  BY <1>1, <1>2
<1>4. Parts = [c \in Conditions |-> {c} \cup UNION {Parts[d] : d \in Children(c)}]
  BY <1>3 DEF Parts
<1> QED
  BY <1>4

\* What evaluating a node gives follows from its children.
Collected(state) == [c \in Conditions |-> Collect(state, c)]
\* evaluateConditionCollecting goes by the results of the children.
LEMMA CollectIs == \A state : \A c \in Conditions : Collect(state, c) = OutcomeOf(state, c, Collected(state))
<1> SUFFICES ASSUME NEW state PROVE \A c \in Conditions : Collect(state, c) = OutcomeOf(state, c, Collected(state))
  OBVIOUS
<1> DEFINE task == [kind |-> "collect", state |-> state]
           result == CHOOSE g : g = [c \in Conditions |-> OutcomeOf(state, c, g)]
<1>1. PICK f : f = [c \in Conditions |-> ValueAt(task, c, f)]
  BY ValuesExist
<1>2. \A c \in Conditions : ValueAt(task, c, f) = OutcomeOf(state, c, f)
  BY DEF ValueAt
<1>3. f = [c \in Conditions |-> OutcomeOf(state, c, f)]
  BY <1>1, <1>2
<1>4. result = [c \in Conditions |-> OutcomeOf(state, c, result)]
  <2> HIDE DEF task
  <2> QED
    BY <1>3
<1>5. \A c : Collect(state, c) = result[c]
  BY DEF Collect
<1> HIDE DEF result
<1>6. result = [c \in Conditions |-> result[c]]
  BY <1>4
<1>7. Collected(state) = result
  BY <1>5, <1>6 DEF Collected
<1> QED
  BY <1>4, <1>5, <1>7

--------------------------------------------------------------------------------
\* A sequence ends with x.
EndsWith(q, x) == Len(q) \in Nat \ {0} /\ q[Len(q)] = x
\* A join ends as its second part does.
LEMMA JoinedEnds ==
    ASSUME NEW S, NEW a \in Seq(S), NEW b \in Seq(S), NEW x
    PROVE  a \o b \in Seq(S) /\ (EndsWith(b, x) => EndsWith(a \o b, x))
<1>1. a \o b \in Seq(S)
  OBVIOUS
<1>2. ASSUME EndsWith(b, x) PROVE EndsWith(a \o b, x)
  <2>1. PICK m \in Nat, n \in Nat : m = Len(a) /\ n = Len(b)
    OBVIOUS
  <2>2. Len(a \o b) = m + n
    BY <2>1
  <2>3. n \in 1..n /\ n # 0
    BY <2>1, <1>2 DEF EndsWith
  <2>4. (a \o b)[m + n] = b[n]
    BY <2>1, <2>3
  <2> QED
    BY <2>1, <2>2, <2>3, <2>4, <1>2 DEF EndsWith
<1> QED
  BY <1>1, <1>2

Flattens(f, seqs, n) == f = [i \in 1..n |-> IF i = 1 THEN seqs[i] ELSE f[i - 1] \o seqs[i]]
\* The joins of the first sequences, of the first two, and so on, exist.
LEMMA FlattenExists == \A seqs : \A n \in Nat : \E f : Flattens(f, seqs, n)
<1> SUFFICES ASSUME NEW seqs PROVE \A n \in Nat : \E f : Flattens(f, seqs, n)
  OBVIOUS
<1> DEFINE T == {n \in Nat : ~\E f : Flattens(f, seqs, n)}
<1>1. ASSUME T # {} PROVE FALSE
  <2>1. PICK n \in T : \A k \in T : n <= k
    <3>1. T \in SUBSET Nat
      OBVIOUS
    <3> HIDE DEF T
    <3> QED
      BY <3>1, <1>1, Smallest
  <2>2. CASE n = 0
    <3> DEFINE g == [i \in 1..0 |-> seqs[i]]
    <3>1. 1..0 = {}
      OBVIOUS
    <3>2. g = [i \in 1..0 |-> IF i = 1 THEN seqs[i] ELSE g[i - 1] \o seqs[i]]
      BY <3>1
    <3> HIDE DEF g
    <3> QED
      BY <3>2, <2>1, <2>2 DEF Flattens
  <2>3. CASE n # 0
    <3>1. n \in Nat
      BY <2>1
    <3>2. n - 1 \in Nat /\ n - 1 \notin T
      <4> HIDE DEF T
      <4> QED
        BY <3>1, <2>1, <2>3
    <3>3. PICK h : Flattens(h, seqs, n - 1)
      BY <3>2
    <3> DEFINE g == [i \in 1..n |-> IF i = 1 THEN seqs[i] ELSE h[i - 1] \o seqs[i]]
    <3>4. h = [i \in 1..(n - 1) |-> IF i = 1 THEN seqs[i] ELSE h[i - 1] \o seqs[i]]
      BY <3>3 DEF Flattens
    <3>5. \A i \in 1..(n - 1) : g[i] = h[i]
      <4> TAKE i \in 1..(n - 1)
      <4>1. i \in 1..n
        BY <3>1
      <4>2. g[i] = IF i = 1 THEN seqs[i] ELSE h[i - 1] \o seqs[i]
        BY <4>1
      <4>3. h[i] = IF i = 1 THEN seqs[i] ELSE h[i - 1] \o seqs[i]
        BY <3>4
      <4> QED
        BY <4>2, <4>3
    <3>6. \A i \in 1..n : i # 1 => g[i - 1] = h[i - 1]
      <4> HIDE DEF g
      <4> TAKE i \in 1..n
      <4>1. i # 1 => i - 1 \in 1..(n - 1)
        BY <3>1
      <4> QED
        BY <4>1, <3>5
    <3>7. g = [i \in 1..n |-> IF i = 1 THEN seqs[i] ELSE g[i - 1] \o seqs[i]]
      BY <3>6
    <3> HIDE DEF g
    <3> QED
      BY <3>7, <2>1 DEF Flattens
  <2> QED
    BY <2>2, <2>3
<1> QED
  BY <1>1

\* A join of sequences is of the elements of these, and ends as the last of them does.
LEMMA FlattenIs ==
    ASSUME NEW S, NEW seqs, NEW n \in Nat, n = Len(seqs), \A i \in 1..n : seqs[i] \in Seq(S),
           n = 0 => seqs = <<>>
    PROVE  /\ FlattenSeq(seqs) \in Seq(S)
           /\ \A x : n # 0 /\ EndsWith(seqs[n], x) => EndsWith(FlattenSeq(seqs), x)
<1>1. CASE n = 0
  BY <1>1 DEF FlattenSeq
<1>2. CASE n # 0
  <2> DEFINE f == CHOOSE g : g = [i \in 1..n |-> IF i = 1 THEN seqs[i] ELSE g[i - 1] \o seqs[i]]
             Ok(i) == f[i] \in Seq(S) /\ \A x : EndsWith(seqs[i], x) => EndsWith(f[i], x)
             T == {i \in 1..n : ~Ok(i)}
  <2>1. FlattenSeq(seqs) = f[n]
    BY <1>2 DEF FlattenSeq
  <2>2. f = [i \in 1..n |-> IF i = 1 THEN seqs[i] ELSE f[i - 1] \o seqs[i]]
    BY FlattenExists DEF Flattens
  <2> HIDE DEF f
  <2>3. ASSUME T # {} PROVE FALSE
    <3>1. PICK i \in T : \A k \in T : i <= k
      <4>1. T \in SUBSET Nat
        OBVIOUS
      <4> HIDE DEF T
      <4> QED
        BY <4>1, <2>3, Smallest
    <3>2. i \in 1..n /\ ~Ok(i)
      OBVIOUS
    <3>3. CASE i = 1
      <4>1. f[i] = seqs[i]
        BY <3>2, <3>3, <2>2
      <4> QED
        BY <4>1, <3>2
    <3>4. CASE i # 1
      <4>1. i - 1 \in 1..n /\ i - 1 \notin T
        <5> HIDE DEF T
        <5> QED
          BY <3>1, <3>2, <3>4
      <4>2. f[i - 1] \in Seq(S)
        BY <4>1
      <4>3. f[i] = f[i - 1] \o seqs[i]
        BY <3>2, <3>4, <2>2
      <4>4. seqs[i] \in Seq(S)
        BY <3>2
      <4>5. Ok(i)
        <5>1. f[i - 1] \o seqs[i] \in Seq(S)
          BY <4>2, <4>4, JoinedEnds
        <5>2. \A x : EndsWith(seqs[i], x) => EndsWith(f[i - 1] \o seqs[i], x)
          BY <4>2, <4>4, JoinedEnds
        <5> QED
          BY <5>1, <5>2, <4>3
      <4> QED
        BY <4>5, <3>2
    <3> QED
      BY <3>3, <3>4
  <2>4. Ok(n)
    <3>1. n \in 1..n
      BY <1>2
    <3> QED
      BY <2>3, <3>1
  <2> QED
    BY <2>1, <2>4
<1> QED
  BY <1>1, <1>2

--------------------------------------------------------------------------------
\* What a node has of one right below it.
Inherits(c, d) ==
  /\ d \in Conditions /\ FieldsOf(d) \subseteq FieldsOf(c)
  /\ ValidCondition(c) => ValidCondition(d)
  /\ HasAny(d) => HasAny(c)
\* What a node has of one below it: its fields, its "any"; that it is valid goes down.
LEMMA PartsBelow ==
    ASSUME NEW c \in Conditions
    PROVE  /\ c \in Parts[c] /\ \A d \in Children(c) : Parts[d] \subseteq Parts[c]
           /\ c.node = "leaf" => c.field \in FieldsOf(c)
           /\ ValidCondition(c) => ValidNode(c)
           /\ \A d \in Children(c) : Inherits(c, d)
<1>1. c \in Parts[c] /\ \A d \in Children(c) : Parts[d] \subseteq Parts[c]
  BY PartsAre
<1>2. Children(c) \subseteq Conditions
  BY ChildrenAre
<1> QED
  BY <1>1, <1>2 DEF Inherits, FieldsOf, ValidCondition, HasAny

\* Two states with the same at the fields of a condition are the same to it.
LEMMA FieldsDecide ==
    ASSUME NEW s, NEW t
    PROVE  \A c \in Conditions : (\A f \in FieldsOf(c) : At(s, f) = At(t, f)) => Collect(s, c) = Collect(t, c)
<1> DEFINE T == {c \in Conditions : (\A f \in FieldsOf(c) : At(s, f) = At(t, f)) /\ Collect(s, c) # Collect(t, c)}
<1>1. ASSUME T # {} PROVE FALSE
  <2>1. PICK c \in T : Children(c) \cap T = {}
    <3>1. T \in SUBSET Conditions
      OBVIOUS
    <3> HIDE DEF T
    <3> QED
      BY <3>1, <1>1, RuleAssumption
  <2>2. c \in Conditions /\ (\A f \in FieldsOf(c) : At(s, f) = At(t, f)) /\ Collect(s, c) # Collect(t, c)
    OBVIOUS
  <2>3. \A d \in Children(c) : d \in Conditions /\ d \notin T /\ \A f \in FieldsOf(d) : At(s, f) = At(t, f)
    <3> HIDE DEF T
    <3>1. \A d \in Children(c) : d \in Conditions /\ FieldsOf(d) \subseteq FieldsOf(c)
      BY <2>2, PartsBelow DEF Inherits
    <3>2. \A d \in Children(c) : d \notin T
      BY <2>1
    <3> QED
      BY <3>1, <3>2, <2>2
  <2>4. \A d \in Children(c) : Collected(s)[d] = Collected(t)[d]
    BY <2>3 DEF Collected
  <2>5. OutcomeOf(s, c, Collected(s)) = OutcomeOf(t, c, Collected(t))
    <3>1. CASE c.node = "leaf"
      <4>1. At(s, c.field) = At(t, c.field)
        BY <3>1, <2>2, PartsBelow
      <4> QED
        BY <3>1, <4>1 DEF OutcomeOf, LookAt
    <3>2. CASE c.node \in {"all", "any"}
      <4>1. \A i \in 1..Len(c.of) : Collected(s)[c.of[i]] = Collected(t)[c.of[i]]
        BY <3>2, <2>2, <2>4, ChildrenAre
      <4>2. [i \in 1..Len(c.of) |-> Collected(s)[c.of[i]]] = [i \in 1..Len(c.of) |-> Collected(t)[c.of[i]]]
        BY <4>1
      <4> QED
        BY <3>2, <4>2 DEF OutcomeOf
    <3>3. CASE c.node \notin {"leaf", "all", "any"}
      BY <3>3 DEF OutcomeOf
    <3> QED
      BY <3>1, <3>2, <3>3
  <2> HIDE DEF T
  <2> QED
    BY <2>2, <2>5, CollectIs
<1> QED
  BY <1>1

--------------------------------------------------------------------------------
\* What a node that looks at its n children up to one of them makes of their results.
Combined(o, stop, r, n, S) ==
  /\ o.holds \in BOOLEAN /\ o.leaves \in Seq(S)
  /\ o.holds # stop => \A i \in 1..n : r[i].holds # stop
  /\ \E last \in 1..n : /\ o.holds = stop => r[last].holds = stop
                        /\ \A x : EndsWith(r[last].leaves, x) => EndsWith(o.leaves, x)
\* Stopping at a child: the node agrees with the child where it stopped, or all children say otherwise.
LEMMA CombineIs ==
    ASSUME NEW n \in Nat \ {0}, NEW stop \in BOOLEAN, NEW r, DOMAIN r = 1..n, Len(r) = n, NEW S,
           \A i \in 1..n : r[i].leaves \in Seq(S)
    PROVE  Combined(Combine(stop, r), stop, r, n, S)
<1> DEFINE stopping == {i \in 1..n : r[i].holds = stop}
           last == IF stopping = {} THEN n ELSE Min(stopping)
           seqs == [i \in 1..last |-> r[i].leaves]
           o == Combine(stop, r)
<1>1. o = [holds |-> (stopping # {}) = stop, leaves |-> FlattenSeq(seqs)]
  BY DEF Combine
<1>2. last \in 1..n /\ (stopping # {} => last \in stopping)
  <2>1. CASE stopping = {}
    BY <2>1
  <2>2. CASE stopping # {}
    <3>1. stopping \in SUBSET Nat /\ stopping \subseteq 1..n
      OBVIOUS
    <3> HIDE DEF stopping
    <3>2. PICK m \in stopping : \A k \in stopping : m <= k
      BY <3>1, <2>2, Smallest
    <3>3. Min(stopping) \in stopping
      BY <3>2 DEF Min
    <3> QED
      BY <3>1, <3>3, <2>2
  <2> QED
    BY <2>1, <2>2
<1>3. \A i \in 1..n : r[i].holds = stop => i \in stopping
  OBVIOUS
<1>4. \A i \in stopping : r[i].holds = stop
  OBVIOUS
<1> HIDE DEF last, stopping, o
<1>5. last \in Nat /\ last # 0 /\ Len(seqs) = last /\ \A i \in 1..last : i \in 1..n
  BY <1>2
<1>6. \A i \in 1..last : seqs[i] \in Seq(S)
  BY <1>5
<1>7. seqs[last] = r[last].leaves
  BY <1>5
<1> HIDE DEF seqs
<1>8. FlattenSeq(seqs) \in Seq(S) /\ \A x : EndsWith(r[last].leaves, x) => EndsWith(FlattenSeq(seqs), x)
  BY <1>5, <1>6, <1>7, FlattenIs
<1>9. o.holds = ((stopping # {}) = stop) /\ o.leaves = FlattenSeq(seqs)
  BY <1>1
<1>10. o.holds \in BOOLEAN /\ (o.holds # stop => stopping = {}) /\ (o.holds = stop => stopping # {})
  BY <1>9
<1>11. o.holds # stop => \A i \in 1..n : r[i].holds # stop
  BY <1>10, <1>3
<1>12. o.holds = stop => r[last].holds = stop
  BY <1>10, <1>2, <1>4
<1>13. Combined(o, stop, r, n, S)
  BY <1>2, <1>8, <1>9, <1>10, <1>11, <1>12 DEF Combined
<1> QED
  BY <1>13 DEF o

\* The leaves of the conditions as a state answers them, and those of them that hold.
LeafHolds(l) == Holds(l.actual, l.operator, l.threshold)
LeavesOf(s) ==
  {[field |-> d.field, operator |-> d.operator, threshold |-> d.threshold, actual |-> At(s, d.field)] :
     d \in {c \in Conditions : c.node = "leaf" /\ ValidNode(c)}}
HoldingOf(s) == {l \in LeavesOf(s) : LeafHolds(l)}

\* A comparison answers yes or no, and no of a field that is absent.
LEMMA HoldsIs ==
    ASSUME NEW raw, NEW operator \in ValidOperators, NEW threshold
    PROVE  Holds(raw, operator, threshold) \in BOOLEAN /\ (Holds(raw, operator, threshold) => raw.kind # "absent")
<1> DEFINE a == ToNumber(raw)
           b == ToNumber(threshold)
<1>1. \A x, y : Ordered(operator, x, y) \in BOOLEAN \/ operator \in {"eq", "neq"}
  <2> TAKE x, y
  <2>1. CASE operator = "gt"
    BY <2>1 DEF Ordered
  <2>2. CASE operator = "gte"
    BY <2>2 DEF Ordered
  <2>3. CASE operator = "lt"
    BY <2>3 DEF Ordered
  <2>4. CASE operator = "lte"
    BY <2>4 DEF Ordered
  <2> QED
    BY <2>1, <2>2, <2>3, <2>4 DEF ValidOperators
<1>2. CASE raw.kind = "absent"
  BY <1>2 DEF Holds
<1>3. CASE raw.kind # "absent" /\ operator = "eq"
  BY <1>3 DEF Holds
<1>4. CASE raw.kind # "absent" /\ operator = "neq"
  BY <1>4 DEF Holds
<1>5. CASE raw.kind # "absent" /\ operator \notin {"eq", "neq"}
  <2>1. Holds(raw, operator, threshold) = (NaN \notin {a, b} /\ Ordered(operator, a.value, b.value))
    BY <1>5 DEF Holds
  <2> HIDE DEF a, b
  <2> QED
    BY <2>1, <1>5
<1> QED
  BY <1>2, <1>3, <1>4, <1>5

\* What a valid condition tells of a state.
Tells(s, c) == LET o == Collect(s, c) IN
  /\ o.holds \in BOOLEAN /\ o.leaves \in Seq(LeavesOf(s))
  /\ \E x \in LeavesOf(s) : EndsWith(o.leaves, x) /\ (o.holds => LeafHolds(x))
  /\ o.holds /\ ~HasAny(c) => o.leaves \in Seq(HoldingOf(s))

\* A leaf tells of itself.
LEMMA LeafTells ==
    ASSUME NEW s, NEW c \in Conditions, c.node = "leaf", ValidNode(c)
    PROVE  Tells(s, c)
<1> DEFINE x == [field |-> c.field, operator |-> c.operator, threshold |-> c.threshold, actual |-> At(s, c.field)]
           h == Holds(At(s, c.field), c.operator, c.threshold)
<1>1. Collect(s, c) = [holds |-> h, leaves |-> <<x>>]
  <2>1. OutcomeOf(s, c, Collected(s)) = LookAt(s, c)
    BY DEF OutcomeOf
  <2> QED
    BY <2>1, CollectIs DEF LookAt
<1>2. x \in LeavesOf(s)
  BY DEF LeavesOf
<1>3. h \in BOOLEAN
  BY HoldsIs DEF ValidNode
<1>4. LeafHolds(x) = h
  BY DEF LeafHolds
<1> HIDE DEF x, h
<1>5. EndsWith(<<x>>, x) /\ <<x>> \in Seq(LeavesOf(s)) /\ (LeafHolds(x) => <<x>> \in Seq(HoldingOf(s)))
  <2>1. LeafHolds(x) => x \in HoldingOf(s)
    BY <1>2 DEF HoldingOf
  <2> QED
    BY <1>2, <2>1 DEF EndsWith
<1> QED
  BY <1>1, <1>2, <1>3, <1>4, <1>5 DEF Tells

\* A node of all or any tells what its children do.
LEMMA CompoundTells ==
    ASSUME NEW s, NEW c \in Conditions, c.node \in {"all", "any"}, ValidNode(c),
           \A d \in Children(c) : Tells(s, d) /\ (HasAny(d) => HasAny(c)),
           c.node = "any" => HasAny(c)
    PROVE  Tells(s, c)
<1> DEFINE n == Len(c.of)
           r == [i \in 1..n |-> Collected(s)[c.of[i]]]
           stop == c.node = "any"
           o == Combine(stop, r)
<1>1. Collect(s, c) = o
  <2>1. OutcomeOf(s, c, Collected(s)) = o
    BY DEF OutcomeOf
  <2> HIDE DEF o
  <2> QED
    BY <2>1, CollectIs
<1>2. n \in Nat \ {0} /\ \A i \in 1..n : c.of[i] \in Children(c) /\ c.of[i] \in Conditions
  <2>1. Len(c.of) >= 2
    BY DEF ValidNode
  <2> QED
    BY <2>1, ChildrenAre
<1>3. \A i \in 1..n : r[i] = Collect(s, c.of[i])
  BY <1>2 DEF Collected
<1>4. DOMAIN r = 1..n /\ Len(r) = n
  BY <1>2
<1>5. stop \in BOOLEAN
  OBVIOUS
<1>6. stop => HasAny(c)
  OBVIOUS
<1> HIDE DEF o, r, n, stop
<1>7. \A i \in 1..n : /\ r[i].holds \in BOOLEAN /\ r[i].leaves \in Seq(LeavesOf(s))
                      /\ \E x \in LeavesOf(s) : EndsWith(r[i].leaves, x) /\ (r[i].holds => LeafHolds(x))
                      /\ r[i].holds /\ ~HasAny(c) => r[i].leaves \in Seq(HoldingOf(s))
  BY <1>2, <1>3 DEF Tells
<1>8. Combined(o, stop, r, n, LeavesOf(s))
  BY <1>2, <1>4, <1>5, <1>7, CombineIs DEF o
<1>9. o.holds \in BOOLEAN /\ o.leaves \in Seq(LeavesOf(s))
  BY <1>8 DEF Combined
<1>10. \E x \in LeavesOf(s) : EndsWith(o.leaves, x) /\ (o.holds => LeafHolds(x))
  <2>1. PICK last \in 1..n : /\ o.holds = stop => r[last].holds = stop
                             /\ \A x : EndsWith(r[last].leaves, x) => EndsWith(o.leaves, x)
    BY <1>8 DEF Combined
  <2>2. o.holds => r[last].holds
    <3>1. CASE o.holds = stop
      BY <2>1, <3>1
    <3>2. CASE o.holds # stop
      <4>1. r[last].holds # stop
        BY <3>2, <1>8 DEF Combined
      <4> QED
        BY <4>1, <3>2, <1>7, <1>9, <1>5
    <3> QED
      BY <3>1, <3>2
  <2>3. PICK x \in LeavesOf(s) : EndsWith(r[last].leaves, x) /\ (r[last].holds => LeafHolds(x))
    BY <1>7
  <2> QED
    BY <2>1, <2>2, <2>3
<1>11. ASSUME o.holds, ~HasAny(c) PROVE o.leaves \in Seq(HoldingOf(s))
  <2>1. ~stop
    BY <1>6, <1>11
  <2>2. \A i \in 1..n : r[i].holds # stop
    BY <2>1, <1>5, <1>8, <1>9, <1>11 DEF Combined
  <2>3. \A i \in 1..n : r[i].leaves \in Seq(HoldingOf(s))
    BY <2>1, <2>2, <1>5, <1>7, <1>11
  <2>4. Combined(o, stop, r, n, HoldingOf(s))
    BY <1>2, <1>4, <1>5, <2>3, CombineIs DEF o
  <2> QED
    BY <2>4 DEF Combined
<1>12. Tells(s, c)
  BY <1>1, <1>9, <1>10, <1>11 DEF Tells
<1> QED
  BY <1>12

\* So every valid condition does, by the nodes without a counterexample below them.
LEMMA ConditionTells == \A s : \A c \in Conditions : ValidCondition(c) => Tells(s, c)
<1> SUFFICES ASSUME NEW s PROVE \A c \in Conditions : ValidCondition(c) => Tells(s, c)
  OBVIOUS
<1> DEFINE T == {c \in Conditions : ValidCondition(c) /\ ~Tells(s, c)}
<1>1. ASSUME T # {} PROVE FALSE
  <2>1. PICK c \in T : Children(c) \cap T = {}
    <3>1. T \in SUBSET Conditions
      OBVIOUS
    <3> HIDE DEF T
    <3> QED
      BY <3>1, <1>1, RuleAssumption
  <2>2. c \in Conditions /\ ValidCondition(c) /\ ~Tells(s, c)
    OBVIOUS
  <2>3. \A d \in Children(c) : d \in Conditions /\ ValidCondition(d) /\ (HasAny(d) => HasAny(c))
    BY <2>2, PartsBelow DEF Inherits
  <2>4. \A d \in Children(c) : Tells(s, d)
    BY <2>1, <2>3
  <2>5. ValidNode(c) /\ c \in Parts[c]
    BY <2>2, PartsBelow
  <2>6. c.node = "any" => HasAny(c)
    BY <2>5 DEF HasAny
  <2> HIDE DEF T
  <2>7. CASE c.node = "leaf"
    BY <2>2, <2>5, <2>7, LeafTells
  <2>8. CASE c.node \in {"all", "any"}
    BY <2>2, <2>3, <2>4, <2>5, <2>6, <2>8, CompoundTells
  <2> QED
    BY <2>5, <2>7, <2>8 DEF ValidNode
<1> QED
  BY <1>1

--------------------------------------------------------------------------------
\* What is kept of a decision on a state.
DecidedOn(state, r) == LET m == Matching(state, r.policy)  rule == r.policy.rules[r.priority] IN
  /\ r.policy \in RuleDocuments /\ ValidPolicy(r.policy)
  /\ r.priority \in m /\ \A j \in m : r.priority <= j
  /\ r.rule = rule.id /\ r.type = rule.type
  /\ r.leaves = Collect(state, rule.condition).leaves /\ r.snapshot = Snapshot(state, r.policy)

\* Of the receipts that there were when an evaluation began none is of a later version.
CameLast(r) == \A k \in 1..r.since : receipts[k].version <= r.version

EvaluationSound(e) ==
  /\ e.version \in DOMAIN learner /\ e.stage \in {"asked", "explaining"}
  /\ e.stage = "explaining" =>
       /\ e = [stage |-> e.stage, version |-> e.version, skill |-> e.skill, policy |-> e.policy, rule |-> e.rule,
               type |-> e.type, leaves |-> e.leaves, priority |-> e.priority, snapshot |-> e.snapshot,
               since |-> e.since, explanation |-> e.explanation]
       /\ DecidedOn(learner[e.version], e) /\ e.since \in 0..Len(receipts) /\ CameLast(e)

ReceiptSound(i) == LET r == receipts[i] IN
  /\ r.version \in DOMAIN learner /\ DecidedOn(learner[r.version], r)
  /\ r.since \in 0..(i - 1) /\ CameLast(r)
  /\ r.explanation.kind \in {"none", "some"}
  /\ r.explanation.kind = "some" => r.explanation.texts \cap LongTextsOf(r.snapshot) = {}

RuleInv ==
  /\ policy \in RuleDocuments /\ ValidPolicy(policy)
  /\ learner \in Seq(RuleStates) /\ Len(learner) <= MaxStates
  /\ IsSeq(receipts)
  /\ \A e \in evaluations : EvaluationSound(e)
  /\ \A i \in DOMAIN receipts : ReceiptSound(i)

--------------------------------------------------------------------------------
\* At first there is no receipt and no evaluation.
LEMMA InitRule == RuleInit => RuleInv
<1> SUFFICES ASSUME RuleInit PROVE RuleInv
  OBVIOUS
<1>1. learner = <<>> /\ evaluations = {} /\ receipts = <<>> /\ policy \in RuleDocuments /\ ValidPolicy(policy)
  BY DEF RuleInit
<1>2. <<>> \in Seq(RuleStates) /\ Len(<<>>) = 0 /\ DOMAIN <<>> = {}
  OBVIOUS
<1>3. 0 <= MaxStates
  BY RuleAssumption
<1>4. IsSeq(<<>>)
  BY <1>2 DEF IsSeq
<1> QED
  BY <1>1, <1>2, <1>3, <1>4 DEF RuleInv

\* A document that is put changes nothing of what was decided: receipts carry their own.
LEMMA PutRulesKeeps ==
    ASSUME RuleInv, NEW doc \in RuleDocuments, PutRules(doc)
    PROVE  RuleInv'
<1>1. policy' \in RuleDocuments /\ ValidPolicy(policy')
  BY DEF PutRules
<1>2. UNCHANGED <<learner, evaluations, receipts>>
  BY DEF PutRules
<1>3. \A e : EvaluationSound(e) => EvaluationSound(e)'
  BY <1>2 DEF EvaluationSound, CameLast
<1>4. \A i : ReceiptSound(i) => ReceiptSound(i)'
  BY <1>2 DEF ReceiptSound, CameLast
<1> QED
  BY <1>1, <1>2, <1>3, <1>4 DEF RuleInv, IsSeq

\* A version is appended; those before it stay.
LEMMA SaveKeeps ==
    ASSUME RuleInv, NEW state \in RuleStates, NEW skill \in ContextSkills, SaveVersion(state, skill)
    PROVE  RuleInv'
<1> DEFINE asked == [stage |-> "asked", version |-> Len(learner) + 1, skill |-> skill]
<1>1. /\ learner' = Append(learner, state) /\ UNCHANGED <<policy, receipts>>
      /\ evaluations' = evaluations \cup {asked}
      /\ Len(learner) < MaxStates
  BY DEF SaveVersion
<1>2. PICK n \in Nat : n = Len(learner)
  BY DEF RuleInv
<1>3. learner' \in Seq(RuleStates) /\ Len(learner') = n + 1 /\ DOMAIN learner = 1..n /\ DOMAIN learner' = 1..(n + 1)
  BY <1>1, <1>2 DEF RuleInv
<1>4. \A v \in DOMAIN learner : v \in DOMAIN learner' /\ learner'[v] = learner[v]
  BY <1>1, <1>2, <1>3 DEF RuleInv
<1>5. n + 1 <= MaxStates
  BY <1>1, <1>2, RuleAssumption
<1>6. \A e : EvaluationSound(e) => EvaluationSound(e)'
  BY <1>1, <1>4 DEF EvaluationSound, CameLast
<1>7. \A i : ReceiptSound(i) => ReceiptSound(i)'
  BY <1>1, <1>4 DEF ReceiptSound, CameLast
<1>8. PICK a : a = asked
  OBVIOUS
<1>12. EvaluationSound(a)'
  <2>1. n + 1 \in DOMAIN learner'
    BY <1>3
  <2>2. a.version = n + 1 /\ a.stage = "asked"
    BY <1>2, <1>8
  <2> QED
    BY <2>1, <2>2 DEF EvaluationSound
<1> HIDE DEF asked
<1>9. \A e \in evaluations' : EvaluationSound(e)'
  BY <1>1, <1>6, <1>8, <1>12 DEF RuleInv
<1>10. \A i \in DOMAIN receipts' : ReceiptSound(i)'
  BY <1>1, <1>7 DEF RuleInv
<1>11. policy' \in RuleDocuments /\ ValidPolicy(policy') /\ IsSeq(receipts)'
  BY <1>1 DEF RuleInv, IsSeq
<1> QED
  BY <1>3, <1>5, <1>9, <1>10, <1>11 DEF RuleInv

--------------------------------------------------------------------------------
\* The first rule that holds, and the place of its id.
LEMMA FirstMatches ==
    ASSUME NEW state, NEW doc, doc.rules \in Seq(Range(doc.rules)), Matching(state, doc) # {}
    PROVE  LET i == FirstMatch(state, doc)  m == Matching(state, doc) IN i \in m /\ \A j \in m : i <= j
<1> DEFINE m == Matching(state, doc)
<1>1. m \in SUBSET Nat
  <2>1. DOMAIN doc.rules = 1..Len(doc.rules) /\ Len(doc.rules) \in Nat
    OBVIOUS
  <2> QED
    BY <2>1 DEF Matching
<1> HIDE DEF m
<1>2. m # {}
  BY DEF m
<1>3. PICK k \in m : \A j \in m : k <= j
  BY <1>1, <1>2, Smallest
<1>4. Min(m) \in m /\ \A j \in m : Min(m) <= j
  BY <1>3 DEF Min
<1> QED
  BY <1>4 DEF FirstMatch, m

\* As no id comes twice, the place of the id is the place of the rule.
LEMMA PlaceOfId ==
    ASSUME NEW doc \in RuleDocuments, ValidPolicy(doc), NEW first \in DOMAIN doc.rules
    PROVE  (CHOOSE i \in DOMAIN doc.rules :
              /\ doc.rules[i].id = doc.rules[first].id
              /\ \A j \in 1..(i - 1) : doc.rules[j].id # doc.rules[first].id) = first
<1>1. \A i, j \in DOMAIN doc.rules : doc.rules[i].id = doc.rules[j].id => i = j
  BY DEF ValidPolicy
<1>2. PICK n \in Nat : DOMAIN doc.rules = 1..n
  <2>1. doc.rules \in Seq(Range(doc.rules))
    BY RuleAssumption
  <2> QED
    BY <2>1
<1>3. \A j \in 1..(first - 1) : j \in DOMAIN doc.rules /\ j # first
  BY <1>2
<1>4. \A j \in 1..(first - 1) : doc.rules[j].id # doc.rules[first].id
  BY <1>1, <1>3
<1> QED
  BY <1>1, <1>4

\* What is begun is of the version asked about, which is the last one then.
LEMMA StartEvaluationKeeps ==
    ASSUME RuleInv, NEW e \in evaluations, StartEvaluation(e)
    PROVE  RuleInv'
<1>1. UNCHANGED <<policy, learner, receipts>> /\ e.stage = "asked"
  BY DEF StartEvaluation
<1>2. \A x : EvaluationSound(x) => EvaluationSound(x)'
  BY <1>1 DEF EvaluationSound, CameLast
<1>3. \A i : ReceiptSound(i) => ReceiptSound(i)'
  BY <1>1 DEF ReceiptSound, CameLast
<1>4. \A x \in evaluations' : EvaluationSound(x)'
  <2>1. CASE evaluations' \subseteq evaluations
    BY <2>1, <1>2 DEF RuleInv
  <2>2. CASE ~(evaluations' \subseteq evaluations)
    <3> DEFINE state == learner[Len(learner)]
               first == FirstMatch(state, policy)
               rule == policy.rules[first]
               id == CHOOSE i \in DOMAIN policy.rules :
                       /\ policy.rules[i].id = rule.id /\ \A j \in 1..(i - 1) : policy.rules[j].id # rule.id
               begun == [stage |-> "explaining", version |-> e.version, skill |-> e.skill, policy |-> policy,
                         rule |-> rule.id, type |-> rule.type, leaves |-> Collect(state, rule.condition).leaves,
                         priority |-> id, snapshot |-> Snapshot(state, policy), since |-> Len(receipts),
                         explanation |-> Unexplained]
    <3>1. e.version = Len(learner) /\ Begin(e, state)
      BY <2>2 DEF StartEvaluation
    <3>2. evaluations' = (evaluations \ {e}) \cup (IF Matching(state, policy) = {} THEN {} ELSE {begun})
      BY <3>1 DEF Begin
    <3>3. Matching(state, policy) # {} /\ evaluations' = (evaluations \ {e}) \cup {begun}
      <4> HIDE DEF begun, state
      <4> QED
        BY <3>2, <2>2
    <3>4. policy \in RuleDocuments /\ ValidPolicy(policy) /\ policy.rules \in Seq(Range(policy.rules))
      BY RuleAssumption DEF RuleInv
    <3>5. first \in Matching(state, policy) /\ \A j \in Matching(state, policy) : first <= j
      <4> HIDE DEF state
      <4> QED
        BY <3>3, <3>4, FirstMatches
    <3>6. first \in DOMAIN policy.rules
      <4> HIDE DEF first
      <4> QED
        BY <3>5 DEF Matching
    <3>7. id = first
      <4> HIDE DEF first
      <4> QED
        BY <3>4, <3>6, PlaceOfId
    <3> HIDE DEF id, first
    <3>8. DecidedOn(state, begun)
      <4> HIDE DEF state
      <4> QED
        BY <3>4, <3>5, <3>7 DEF DecidedOn
    <3>9. e.version \in DOMAIN learner
      BY DEF RuleInv, EvaluationSound
    <3>10. PICK n \in Nat : n = Len(learner) /\ DOMAIN learner = 1..n
      BY DEF RuleInv
    <3>11. PICK k \in Nat : k = Len(receipts) /\ DOMAIN receipts = 1..k
      BY DEF RuleInv, IsSeq
    <3>12. \A i \in 1..k : receipts[i].version <= e.version
      BY <3>1, <3>10, <3>11 DEF RuleInv, ReceiptSound
    <3>13. CameLast(begun)
      BY <3>11, <3>12 DEF CameLast
    <3>14. EvaluationSound(begun)
      <4>1. begun.version = e.version /\ begun.since = k /\ begun.stage = "explaining"
        BY <3>11
      <4>2. begun = [stage |-> begun.stage, version |-> begun.version, skill |-> begun.skill, policy |-> begun.policy, rule |-> begun.rule,
               type |-> begun.type, leaves |-> begun.leaves, priority |-> begun.priority, snapshot |-> begun.snapshot,
               since |-> begun.since, explanation |-> begun.explanation]
        OBVIOUS
      <4>3. DecidedOn(learner[begun.version], begun)
        BY <4>1, <3>1, <3>8
      <4> HIDE DEF begun
      <4> QED
        BY <4>1, <4>2, <4>3, <3>9, <3>11, <3>13 DEF EvaluationSound
    <3> HIDE DEF begun, state
    <3> QED
      BY <3>3, <3>14, <1>2 DEF RuleInv
  <2> QED
    BY <2>1, <2>2
<1>5. \A i \in DOMAIN receipts' : ReceiptSound(i)'
  BY <1>1, <1>3 DEF RuleInv
<1>6. /\ policy' \in RuleDocuments /\ ValidPolicy(policy') /\ IsSeq(receipts)'
      /\ learner' \in Seq(RuleStates) /\ Len(learner') <= MaxStates
  BY <1>1 DEF RuleInv, IsSeq
<1> QED
  BY <1>4, <1>5, <1>6 DEF RuleInv

\* What was begun becomes a receipt, with an explanation that went through the guard.
LEMMA FinishEvaluationKeeps ==
    ASSUME RuleInv, NEW e \in evaluations, FinishEvaluation(e)
    PROVE  RuleInv'
<1>1. /\ UNCHANGED <<policy, learner>> /\ e.stage = "explaining"
      /\ evaluations' = evaluations \ {e}
  BY DEF FinishEvaluation
<1>2. PICK x \in Explanations(e) : receipts' = Append(receipts, [e EXCEPT !.explanation = x])
  BY DEF FinishEvaluation
<1> DEFINE r == [e EXCEPT !.explanation = x]
<1>3. EvaluationSound(e)
  BY DEF RuleInv
<1>4. /\ r.version = e.version /\ r.policy = e.policy /\ r.rule = e.rule /\ r.type = e.type /\ r.leaves = e.leaves
      /\ r.priority = e.priority /\ r.snapshot = e.snapshot /\ r.since = e.since /\ r.explanation = x
  BY <1>1, <1>3 DEF EvaluationSound
<1>5. x.kind \in {"none", "some"} /\ (x.kind = "some" => x.texts \cap LongTextsOf(e.snapshot) = {})
  <2>1. CASE x = Unexplained
    BY <2>1 DEF Unexplained
  <2>2. CASE x # Unexplained
    <3>1. PICK texts \in SUBSET PromptTexts(e) : x = Guarded(texts, e)
      BY <2>2 DEF Explanations
    <3>2. texts \cap LongTextsOf(e.snapshot) = {} /\ x = [kind |-> "some", texts |-> texts]
      BY <2>2, <3>1 DEF Guarded
    <3> QED
      BY <3>2
  <2> QED
    BY <2>1, <2>2
<1> HIDE DEF r
<1>6. IsSeq(receipts)
  BY DEF RuleInv
<1>7. PICK n \in Nat : n = Len(receipts) /\ DOMAIN receipts = 1..n
  BY <1>6 DEF IsSeq
<1>8. IsSeq(receipts') /\ Len(receipts') = n + 1 /\ DOMAIN receipts' = 1..(n + 1) /\ receipts'[n + 1] = r
  BY <1>2, <1>6, <1>7, Appended DEF r
<1>9. \A i \in 1..n : receipts'[i] = receipts[i]
  BY <1>2, <1>6, <1>7, Appended DEF r
<1>10. \A y : y.since \in 0..n /\ CameLast(y) => CameLast(y)'
  BY <1>7, <1>9 DEF CameLast
<1>11. \A y \in evaluations' : EvaluationSound(y)'
  <2> SUFFICES ASSUME NEW y \in evaluations' PROVE EvaluationSound(y)'
    OBVIOUS
  <2>1. EvaluationSound(y)
    BY <1>1 DEF RuleInv
  <2>2. y.stage = "explaining" => y.since \in 0..(n + 1) /\ CameLast(y)'
    BY <2>1, <1>7, <1>10 DEF EvaluationSound
  <2> QED
    BY <2>1, <2>2, <1>1, <1>8 DEF EvaluationSound
<1>12. \A i \in 1..n : ReceiptSound(i)'
  <2> SUFFICES ASSUME NEW i \in 1..n PROVE ReceiptSound(i)'
    OBVIOUS
  <2>1. ReceiptSound(i)
    BY <1>7 DEF RuleInv
  <2>2. receipts'[i] = receipts[i]
    BY <1>9
  <2>3. CameLast(receipts[i])'
    <3>1. receipts[i].since \in 0..(i - 1) /\ CameLast(receipts[i])
      BY <2>1 DEF ReceiptSound
    <3>2. \A k \in 1..receipts[i].since : k \in 1..n
      BY <3>1
    <3> QED
      BY <2>2, <3>1, <3>2, <1>9 DEF CameLast
  <2> QED
    BY <2>1, <2>2, <2>3, <1>1 DEF ReceiptSound
<1>13. ReceiptSound(n + 1)'
  <2>1. DecidedOn(learner[e.version], r)
    BY <1>1, <1>3, <1>4 DEF EvaluationSound, DecidedOn
  <2>2. e.since \in 0..n /\ e.version \in DOMAIN learner /\ CameLast(e)
    BY <1>1, <1>3, <1>7 DEF EvaluationSound
  <2>3. \A k \in 1..r.since : receipts'[k].version <= r.version
    BY <2>2, <1>4, <1>7, <1>9 DEF CameLast
  <2>4. CameLast(receipts[n + 1])'
    BY <2>3, <1>8 DEF CameLast
  <2>5. r.since \in 0..((n + 1) - 1)
    BY <2>2, <1>4
  <2> QED
    BY <2>1, <2>2, <2>4, <2>5, <1>1, <1>4, <1>5, <1>8 DEF ReceiptSound
<1>14. \A i \in DOMAIN receipts' : ReceiptSound(i)'
  BY <1>7, <1>8, <1>12, <1>13
<1>15. /\ policy' \in RuleDocuments /\ ValidPolicy(policy') /\ learner' \in Seq(RuleStates)
       /\ Len(learner') <= MaxStates
  BY <1>1 DEF RuleInv
<1> QED
  BY <1>8, <1>11, <1>14, <1>15 DEF RuleInv

\* Every step keeps the invariant.
LEMMA RuleStepKeeps == RuleInv /\ [RuleNext]_ruleVars => RuleInv'
<1> SUFFICES ASSUME RuleInv, [RuleNext]_ruleVars PROVE RuleInv'
  OBVIOUS
<1>1. CASE UNCHANGED ruleVars
  BY <1>1 DEF ruleVars, RuleInv, EvaluationSound, ReceiptSound, CameLast, IsSeq
<1>2. ASSUME NEW doc \in RuleDocuments, PutRules(doc) PROVE RuleInv'
  BY <1>2, PutRulesKeeps
<1>3. ASSUME NEW state \in RuleStates, NEW skill \in ContextSkills, SaveVersion(state, skill) PROVE RuleInv'
  BY <1>3, SaveKeeps
<1>4. ASSUME NEW e \in evaluations, StartEvaluation(e) PROVE RuleInv'
  BY <1>4, StartEvaluationKeeps
<1>5. ASSUME NEW e \in evaluations, FinishEvaluation(e) PROVE RuleInv'
  BY <1>5, FinishEvaluationKeeps
<1> QED
  BY <1>1, <1>2, <1>3, <1>4, <1>5 DEF RuleNext

--------------------------------------------------------------------------------
\* All parts of a node are nodes.
LEMMA PartsAreNodes == \A c \in Conditions : Parts[c] \subseteq Conditions
<1> DEFINE T == {c \in Conditions : ~(Parts[c] \subseteq Conditions)}
<1>1. ASSUME T # {} PROVE FALSE
  <2>1. PICK c \in T : Children(c) \cap T = {}
    <3>1. T \in SUBSET Conditions
      OBVIOUS
    <3> HIDE DEF T
    <3> QED
      BY <3>1, <1>1, RuleAssumption
  <2>2. c \in Conditions /\ ~(Parts[c] \subseteq Conditions) /\ Children(c) \subseteq Conditions
    BY ChildrenAre
  <2>3. \A d \in Children(c) : Parts[d] \subseteq Conditions
    BY <2>1, <2>2
  <2>4. Parts[c] = {c} \cup UNION {Parts[d] : d \in Children(c)}
    BY <2>2, PartsAre
  <2> HIDE DEF T
  <2> QED
    BY <2>2, <2>3, <2>4
<1> QED
  BY <1>1

\* A snapshot holds of the fields of the policy what the state does.
LEMMA SnapshotHolds ==
    ASSUME NEW state, NEW doc, NEW i \in DOMAIN doc.rules, doc.rules[i].condition \in Conditions
    PROVE  \A f \in FieldsOf(doc.rules[i].condition) : At(Snapshot(state, doc), f) = At(state, f)
<1> SUFFICES ASSUME NEW f \in FieldsOf(doc.rules[i].condition) PROVE At(Snapshot(state, doc), f) = At(state, f)
  OBVIOUS
<1> DEFINE fields == UNION {FieldsOf(doc.rules[j].condition) : j \in DOMAIN doc.rules}
           kept == {q \in DOMAIN state : \E g \in fields : IsPrefix(g, q)}
           p == Snapshot(state, doc)
<1>1. p = [q \in kept |-> state[q]]
  BY DEF Snapshot
<1>2. f \in fields
  OBVIOUS
<1>3. IsPrefix(f, f)
  <2>1. PICK d \in Conditions : d.node = "leaf" /\ f = d.field
    BY PartsAreNodes DEF FieldsOf
  <2>2. f \in Seq(Range(f))
    BY <2>1, RuleAssumption
  <2>3. Len(f) \in Nat
    BY <2>2
  <2> QED
    BY <2>3 DEF IsPrefix
<1> HIDE DEF fields
<1>4. \A q \in DOMAIN state : IsPrefix(f, q) => q \in kept
  BY <1>2
<1>5. kept \subseteq DOMAIN state
  OBVIOUS
<1> HIDE DEF p, kept
<1>6. DOMAIN p = kept /\ \A q \in kept : p[q] = state[q]
  BY <1>1
<1>7. f \in DOMAIN p <=> f \in DOMAIN state
  BY <1>3, <1>4, <1>5, <1>6
<1>8. (\E q \in DOMAIN p : IsStrictPrefix(f, q)) <=> (\E q \in DOMAIN state : IsStrictPrefix(f, q))
  BY <1>4, <1>5, <1>6 DEF IsStrictPrefix
<1>9. f \in DOMAIN p => p[f] = state[f]
  BY <1>6
<1>10. At(p, f) = At(state, f)
  <2>1. CASE f \in DOMAIN p
    <3>1. f \in DOMAIN state
      BY <2>1, <1>7
    <3> QED
      BY <2>1, <3>1, <1>8, <1>9 DEF At
  <2>2. CASE f \notin DOMAIN p
    BY <2>2, <1>7, <1>8 DEF At
  <2> QED
    BY <2>1, <2>2
<1> QED
  BY <1>10 DEF p

\* So every rule of the policy gives on the snapshot what it gives on the state.
LEMMA SnapshotDecides ==
    ASSUME NEW state, NEW doc \in RuleDocuments
    PROVE  /\ \A i \in DOMAIN doc.rules :
                Collect(Snapshot(state, doc), doc.rules[i].condition) = Collect(state, doc.rules[i].condition)
           /\ Matching(Snapshot(state, doc), doc) = Matching(state, doc)
<1>1. ASSUME NEW i \in DOMAIN doc.rules
      PROVE  Collect(Snapshot(state, doc), doc.rules[i].condition) = Collect(state, doc.rules[i].condition)
  <2>1. doc.rules[i].condition \in Conditions
    BY RuleAssumption
  <2>2. \A f \in FieldsOf(doc.rules[i].condition) : At(Snapshot(state, doc), f) = At(state, f)
    BY <2>1, SnapshotHolds
  <2> QED
    BY <2>1, <2>2, FieldsDecide
<1> QED
  BY <1>1 DEF Matching

\* The decision of a receipt: its first rule is a valid condition that held.
LEMMA DecidingRule ==
    ASSUME NEW state, NEW r, DecidedOn(state, r)
    PROVE  LET rule == r.policy.rules[r.priority] IN
           /\ r.priority \in DOMAIN r.policy.rules /\ rule.condition \in Conditions /\ ValidCondition(rule.condition)
           /\ rule.type \in DecisionTypes /\ Collect(state, rule.condition).holds
           /\ FirstMatch(state, r.policy) = r.priority
<1>1. r.priority \in DOMAIN r.policy.rules /\ Collect(state, r.policy.rules[r.priority].condition).holds
  BY DEF DecidedOn, Matching
<1>2. r.policy \in RuleDocuments /\ ValidPolicy(r.policy)
  BY DEF DecidedOn
<1>3. r.policy.rules[r.priority].condition \in Conditions
  BY <1>1, <1>2, RuleAssumption
<1>4. r.policy.rules[r.priority].type \in DecisionTypes /\ ValidCondition(r.policy.rules[r.priority].condition)
  BY <1>1, <1>2 DEF ValidPolicy
<1>5. FirstMatch(state, r.policy) = r.priority
  <2> DEFINE m == Matching(state, r.policy)
  <2>1. r.priority \in m /\ \A j \in m : r.priority <= j
    BY DEF DecidedOn
  <2>2. r.policy.rules \in Seq(Range(r.policy.rules))
    BY <1>2, RuleAssumption
  <2>3. m \subseteq Nat
    <3>1. DOMAIN r.policy.rules = 1..Len(r.policy.rules) /\ Len(r.policy.rules) \in Nat
      BY <2>2
    <3> QED
      BY <3>1 DEF Matching
  <2>4. FirstMatch(state, r.policy) \in m /\ \A j \in m : FirstMatch(state, r.policy) <= j
    BY <2>1, <2>2, FirstMatches
  <2> HIDE DEF m
  <2>5. PICK a \in Nat : a = FirstMatch(state, r.policy)
    BY <2>3, <2>4
  <2>6. PICK b \in Nat : b = r.priority
    BY <2>1, <2>3
  <2>7. a <= b /\ b <= a
    BY <2>1, <2>4, <2>5, <2>6
  <2> QED
    BY <2>5, <2>6, <2>7
<1> QED
  BY <1>1, <1>3, <1>4, <1>5

\* The types.
LEMMA TypesFollow == RuleInv => RuleTypeOK
<1> SUFFICES ASSUME RuleInv PROVE RuleTypeOK
  OBVIOUS
<1>1. \A i \in DOMAIN receipts : LET r == receipts[i] IN
        r.version \in DOMAIN learner /\ r.type \in DecisionTypes /\ r.explanation.kind \in {"none", "some"}
  <2> SUFFICES ASSUME NEW i \in DOMAIN receipts
               PROVE  /\ receipts[i].version \in DOMAIN learner /\ receipts[i].type \in DecisionTypes
                      /\ receipts[i].explanation.kind \in {"none", "some"}
    OBVIOUS
  <2>1. ReceiptSound(i)
    BY DEF RuleInv
  <2>2. DecidedOn(learner[receipts[i].version], receipts[i])
    BY <2>1 DEF ReceiptSound
  <2>3. receipts[i].type \in DecisionTypes
    BY <2>2, DecidingRule DEF DecidedOn
  <2> QED
    BY <2>1, <2>3 DEF ReceiptSound
<1> QED
  BY <1>1 DEF RuleInv, RuleTypeOK, EvaluationSound

\* The replay, and the first rule that held.
LEMMA ReplayFollows == RuleInv => SnapshotReplays /\ PriorityIsFirst
<1> SUFFICES ASSUME RuleInv, NEW i \in DOMAIN receipts
             PROVE  LET r == receipts[i]  m == Matching(r.snapshot, r.policy)  n == Matching(learner[r.version], r.policy) IN
                    /\ m # {} /\ r.policy.rules[FirstMatch(r.snapshot, r.policy)].id = r.rule
                    /\ r.leaves = Collect(r.snapshot, r.policy.rules[FirstMatch(r.snapshot, r.policy)].condition).leaves
                    /\ r.priority \in n /\ \A j \in n : r.priority <= j
  BY DEF SnapshotReplays, PriorityIsFirst
<1> DEFINE r == receipts[i]
           state == learner[r.version]
<1>1. DecidedOn(state, r)
  BY DEF RuleInv, ReceiptSound
<1> HIDE DEF r, state
<1>2. r.policy \in RuleDocuments /\ r.snapshot = Snapshot(state, r.policy)
  BY <1>1 DEF DecidedOn
<1>3. Matching(r.snapshot, r.policy) = Matching(state, r.policy)
  BY <1>2, SnapshotDecides
<1>4. FirstMatch(r.snapshot, r.policy) = FirstMatch(state, r.policy)
  BY <1>3 DEF FirstMatch
<1>5. FirstMatch(state, r.policy) = r.priority /\ r.priority \in DOMAIN r.policy.rules
  BY <1>1, DecidingRule
<1>6. Collect(r.snapshot, r.policy.rules[r.priority].condition) = Collect(state, r.policy.rules[r.priority].condition)
  BY <1>2, <1>5, SnapshotDecides
<1>7. /\ r.priority \in Matching(state, r.policy) /\ \A j \in Matching(state, r.policy) : r.priority <= j
      /\ r.rule = r.policy.rules[r.priority].id
      /\ r.leaves = Collect(state, r.policy.rules[r.priority].condition).leaves
  BY <1>1 DEF DecidedOn
<1>8. /\ Matching(r.snapshot, r.policy) # {}
      /\ r.policy.rules[FirstMatch(r.snapshot, r.policy)].id = r.rule
      /\ r.leaves = Collect(r.snapshot, r.policy.rules[FirstMatch(r.snapshot, r.policy)].condition).leaves
  BY <1>3, <1>4, <1>5, <1>6, <1>7
<1> QED
  BY <1>7, <1>8 DEF r, state

\* The trace page has the engine's verdict on a leaf that the engine evaluated.
LEMMA TraceIs ==
    ASSUME NEW s, NEW l \in LeavesOf(s), l.actual.kind \notin {"absent", "null"},
           l.operator \in {"eq", "neq"} \/ ~BothTexts(l)
    PROVE  TraceVerdicts(l) = {IF LeafHolds(l) THEN "pass" ELSE "fail"}
<1>1. l.operator \in ValidOperators
  BY DEF LeavesOf, ValidNode
<1>2. CASE l.operator = "eq"
  BY <1>2 DEF TraceVerdicts, LeafHolds, Holds
<1>3. CASE l.operator = "neq"
  BY <1>3 DEF TraceVerdicts, LeafHolds, Holds
<1>4. CASE l.operator \notin {"eq", "neq"}
  <2> DEFINE h == NaN \notin {ToNumber(l.actual), ToNumber(l.threshold)}
                    /\ Ordered(l.operator, ToNumber(l.actual).value, ToNumber(l.threshold).value)
  <2>1. LeafHolds(l) = h
    BY <1>4 DEF LeafHolds, Holds
  <2>2. TraceVerdicts(l) = {IF h THEN "pass" ELSE "fail"}
    BY <1>4 DEF TraceVerdicts
  <2> HIDE DEF h
  <2> QED
    BY <2>1, <2>2
<1> QED
  BY <1>2, <1>3, <1>4

\* The rationale, and what the trace page says of it.
LEMMA RationaleFollows == RuleInv => RationaleHolds /\ TraceAgrees
<1> SUFFICES ASSUME RuleInv, NEW i \in DOMAIN receipts
             PROVE  LET r == receipts[i]  n == Len(r.leaves) IN
                    /\ r.leaves[n].actual.kind # "absent"
                    /\ \A k \in 1..n : LET l == r.leaves[k] IN
                         Holds(l.actual, l.operator, l.threshold) \/ (k < n /\ HasAny(r.policy.rules[r.priority].condition))
                    /\ \A k \in DOMAIN r.leaves : LET l == r.leaves[k] IN
                         l.actual.kind \in {"absent", "null"} \/ (BothTexts(l) /\ l.operator \notin {"eq", "neq"})
                           \/ TraceVerdicts(l) = {IF Holds(l.actual, l.operator, l.threshold) THEN "pass" ELSE "fail"}
  BY DEF RationaleHolds, TraceAgrees
<1> DEFINE r == receipts[i]
           state == learner[r.version]
           cond == r.policy.rules[r.priority].condition
<1>1. DecidedOn(state, r)
  BY DEF RuleInv, ReceiptSound
<1> HIDE DEF r, state
<1>2. cond \in Conditions /\ ValidCondition(cond) /\ Collect(state, cond).holds
  BY <1>1, DecidingRule
<1>3. r.leaves = Collect(state, cond).leaves
  BY <1>1 DEF DecidedOn
<1>4. Tells(state, cond)
  BY <1>2, ConditionTells
<1> HIDE DEF cond
<1>5. r.leaves \in Seq(LeavesOf(state)) /\ (~HasAny(cond) => r.leaves \in Seq(HoldingOf(state)))
  BY <1>2, <1>3, <1>4 DEF Tells
<1>6. PICK x \in LeavesOf(state) : EndsWith(r.leaves, x) /\ LeafHolds(x)
  BY <1>2, <1>3, <1>4 DEF Tells
<1>7. PICK n \in Nat \ {0} : n = Len(r.leaves) /\ DOMAIN r.leaves = 1..n /\ r.leaves[n] = x
  BY <1>5, <1>6 DEF EndsWith
<1>8. x.actual.kind # "absent"
  <2>1. x.operator \in ValidOperators
    BY DEF LeavesOf, ValidNode
  <2> QED
    BY <2>1, <1>6, HoldsIs DEF LeafHolds
<1>9. \A k \in 1..n : LeafHolds(r.leaves[k]) \/ (k < n /\ HasAny(cond))
  <2> SUFFICES ASSUME NEW k \in 1..n PROVE LeafHolds(r.leaves[k]) \/ (k < n /\ HasAny(cond))
    OBVIOUS
  <2>1. CASE k = n
    BY <2>1, <1>6, <1>7
  <2>2. CASE k # n /\ ~HasAny(cond)
    <3>1. r.leaves[k] \in HoldingOf(state)
      BY <2>2, <1>5, <1>7
    <3> QED
      BY <3>1 DEF HoldingOf
  <2>3. CASE k # n /\ HasAny(cond)
    BY <2>3
  <2> QED
    BY <2>1, <2>2, <2>3
<1>10. \A k \in 1..n : LET l == r.leaves[k] IN
         l.actual.kind \in {"absent", "null"} \/ (BothTexts(l) /\ l.operator \notin {"eq", "neq"})
           \/ TraceVerdicts(l) = {IF LeafHolds(l) THEN "pass" ELSE "fail"}
  <2> TAKE k \in 1..n
  <2>1. r.leaves[k] \in LeavesOf(state)
    BY <1>5, <1>7
  <2> QED
    BY <2>1, TraceIs
<1> QED
  BY <1>7, <1>8, <1>9, <1>10 DEF r, cond, LeafHolds

\* Receipts out of order, and the texts of an explanation.
LEMMA OrderFollows == RuleInv => OvertakenInFlight /\ ExplanationRepeatsNothing
<1> SUFFICES ASSUME RuleInv PROVE OvertakenInFlight /\ ExplanationRepeatsNothing
  OBVIOUS
<1>1. PICK n \in Nat : n = Len(receipts) /\ DOMAIN receipts = 1..n
  BY DEF RuleInv, IsSeq
<1>2. PICK m \in Nat : DOMAIN learner = 1..m
  BY DEF RuleInv
<1>3. \A j \in 1..n : ReceiptSound(j)
  BY <1>1 DEF RuleInv
<1>4. OvertakenInFlight
  <2> SUFFICES ASSUME NEW j \in 1..n, NEW i \in 1..(j - 1), receipts[i].version > receipts[j].version
               PROVE  receipts[j].since < i
    BY <1>1 DEF OvertakenInFlight
  <2>1. receipts[j].since \in 0..(j - 1) /\ CameLast(receipts[j])
    BY <1>3 DEF ReceiptSound
  <2>2. receipts[i].version \in 1..m /\ receipts[j].version \in 1..m
    BY <1>2, <1>3 DEF ReceiptSound
  <2>3. ~(receipts[i].version <= receipts[j].version)
    BY <2>2
  <2>4. i \notin 1..receipts[j].since
    BY <2>1, <2>3 DEF CameLast
  <2> QED
    BY <2>1, <2>4
<1>5. ExplanationRepeatsNothing
  <2> SUFFICES ASSUME NEW i \in 1..n, receipts[i].explanation.kind = "some",
                      NEW q \in DOMAIN receipts[i].snapshot, receipts[i].snapshot[q].kind = "text"
               PROVE  receipts[i].snapshot[q].value \notin receipts[i].explanation.texts
    BY <1>1 DEF ExplanationRepeatsNothing
  <2>1. receipts[i].snapshot[q].value \in LongTextsOf(receipts[i].snapshot)
    BY DEF LongTextsOf
  <2> QED
    BY <2>1, <1>3 DEF ReceiptSound
<1> QED
  BY <1>4, <1>5

\* For every set of documents, whatever their conditions, of states and of contexts, and any number of
\* versions, evaluations under way and receipts: a receipt explains its decision.  It can be replayed from
\* its snapshot, its priority and its rationale are of the rule that decided, the trace page says
\* the same of each value, and its explanation repeats no text of the state.
THEOREM ReceiptsAlwaysExplain == RuleSpec => []ReceiptsExplain
<1>1. RuleInv => ReceiptsExplain
  BY TypesFollow, ReplayFollows, RationaleFollows, OrderFollows DEF ReceiptsExplain
<1> QED
  BY InitRule, RuleStepKeeps, <1>1, PTL DEF RuleSpec
===============================================================================
