------------------------------ MODULE PolicyAdmin ------------------------------
(***************************************************************************)
(* The admin API over PoliciesTable: putPolicy, patchPolicyStatus,         *)
(* deletePolicy and listPolicies of admin/policies-dynamodb.ts.            *)
(*                                                                         *)
(* putPolicy is two calls of DynamoDB, a GetItem that numbers the version  *)
(* and a PutItem that is conditional only when the request has an If-Match *)
(* header; the other writes are one conditional call each.  Operators work *)
(* concurrently.  A policy is represented by its place in the order in     *)
(* which the PUTs took effect.                                             *)
(***************************************************************************)
EXTENDS Naturals

CONSTANTS Operators,       \* holders of an admin key
          Keys,            \* (org_id, policy_key) pairs
          Disciplined,     \* keys always put with If-Match and never deleted
          ConsistentReads, \* does a GetItem see every completed write?
          MaxPuts          \* bound on the PUTs of a behaviour

ASSUME AdminAssumption ==
    /\ "none" \notin Keys
    /\ Disciplined \subseteq Keys
    /\ ConsistentReads \in BOOLEAN
    /\ MaxPuts \in Nat

VARIABLES
    policies, \* PoliciesTable: the item of each key, NoItem when there is none
    past,     \* the items a lagging replica may still answer with
    puts,     \* how many PUTs took effect
    fetched,  \* the item an operator last saw at each key
    put       \* the putPolicy an operator is waiting for, Idle when none

adminVars == <<policies, past, puts, fetched, put>>

Item == [version : Nat \ {0}, status : {"active", "disabled"}, policy : Nat \ {0}]
NoItem == [version |-> 0, status |-> "absent", policy |-> 0]

Idle == [key |-> "none", locked |-> FALSE, existing |-> NoItem]
Put == [key : Keys, locked : BOOLEAN, existing : Item \cup {NoItem}]

Readable(k) == {policies[k]} \cup IF ConsistentReads THEN {} ELSE past[k]

Init ==
    /\ policies = [k \in Keys |-> NoItem]
    /\ past = [k \in Keys |-> {}]
    /\ puts = 0
    /\ fetched = [o \in Operators |-> [k \in Keys |-> NoItem]]
    /\ put = [o \in Operators |-> Idle]

\* The item of k is replaced; replicas may lag unless reads are consistent.
Replace(k, item) ==
    /\ policies' = [policies EXCEPT ![k] = item]
    /\ past' = [past EXCEPT ![k] = IF ConsistentReads THEN {} ELSE @ \cup {policies[k]}]

\* The operator sees the item, in the answer of a list or of a write.
ListPolicies(o, k) ==
    /\ put[o] = Idle
    /\ \E item \in Readable(k) : fetched' = [fetched EXCEPT ![o][k] = item]
    /\ UNCHANGED <<policies, past, puts, put>>

\* putPolicy up to its GetItem.  An If-Match is the version last fetched.
GetExisting(o, k) ==
    /\ put[o] = Idle
    /\ puts < MaxPuts
    /\ \E locked \in BOOLEAN, item \in Readable(k) :
          /\ k \in Disciplined => locked
          /\ put' = [put EXCEPT ![o] = [key |-> k, locked |-> locked, existing |-> item]]
    /\ UNCHANGED <<policies, past, puts, fetched>>

IfMatch(o) == fetched[o][put[o].key].version

\* Mutant: creation is unconditional, as the comment has it.
ConditionOnUpdate(o) ==
    put[o].locked =>
        \/ put[o].existing = NoItem
        \/ policies[put[o].key].version = IfMatch(o)

\* Mutant: the condition is that the item exists, as in patchPolicyStatus.
ConditionOnExistence(o) ==
    put[o].locked => (put[o].existing = NoItem) = (policies[put[o].key] = NoItem)

\* The ConditionExpression of the PutItem.
ConditionHolds(o) ==
    put[o].locked =>
        \/ put[o].existing = NoItem /\ policies[put[o].key] = NoItem
        \/ /\ put[o].existing # NoItem
           /\ policies[put[o].key] # NoItem
           /\ policies[put[o].key].version = IfMatch(o)

\* The item is put; the answer may be lost on its way to the operator.
PutItem(o) ==
    /\ put[o] # Idle
    /\ puts < MaxPuts
    /\ ConditionHolds(o)
    /\ LET item == [version |-> put[o].existing.version + 1,
                    status  |-> "active",
                    policy  |-> puts + 1]
       IN  /\ Replace(put[o].key, item)
           /\ \/ fetched' = [fetched EXCEPT ![o][put[o].key] = item]
              \/ UNCHANGED fetched
    /\ puts' = puts + 1
    /\ put' = [put EXCEPT ![o] = Idle]

\* ConditionalCheckFailedException: 409, and the operator is to fetch again.
PutConflicts(o) ==
    /\ put[o] # Idle
    /\ ~ConditionHolds(o)
    /\ put' = [put EXCEPT ![o] = Idle]
    /\ UNCHANGED <<policies, past, puts, fetched>>

\* A status change leaves the version as it is.
PatchStatus(o, k) ==
    /\ put[o] = Idle
    /\ policies[k] # NoItem
    /\ \E status \in {"active", "disabled"} :
          LET item == [policies[k] EXCEPT !.status = status]
          IN  /\ Replace(k, item)
              /\ fetched' = [fetched EXCEPT ![o][k] = item]
    /\ UNCHANGED <<puts, put>>

DeletePolicy(o, k) ==
    /\ put[o] = Idle
    /\ k \notin Disciplined
    /\ policies[k] # NoItem
    /\ Replace(k, NoItem)
    /\ UNCHANGED <<puts, fetched, put>>

AdminStep(o) ==
    \/ PutItem(o) \/ PutConflicts(o)
    \/ \E k \in Keys :
          ListPolicies(o, k) \/ GetExisting(o, k) \/ PatchStatus(o, k) \/ DeletePolicy(o, k)

Next == \E o \in Operators : AdminStep(o)

Spec == Init /\ [][Next]_adminVars
-------------------------------------------------------------------------------
AdminTypeOK ==
    /\ policies \in [Keys -> Item \cup {NoItem}]
    /\ past \in [Keys -> SUBSET (Item \cup {NoItem})]
    /\ puts \in Nat
    /\ fetched \in [Operators -> [Keys -> Item \cup {NoItem}]]
    /\ put \in [Operators -> Put \cup {Idle}]

\* Replacing an item advances its version: no PUT over an existing item of
\* these keys leaves policy_version as it was or takes it back.
AdvancesOn(keys) ==
    \A k \in keys :
        policies[k] # NoItem /\ policies'[k].policy # policies[k].policy =>
            policies'[k] = NoItem \/ policies'[k].version > policies[k].version

\* So it is on the keys whose operators always send If-Match and never delete,
\* when the GetItem that numbers the version does not lag.
LockedVersionsIncrease ==
    [][ConsistentReads => AdvancesOn(Disciplined)]_adminVars

\* Optimistic locking: a PUT of a disciplined key replaces the very policy its
\* operator had last seen there, never one another operator has put since.
LockedPutSeesWhatItReplaces ==
    [][ \A o \in Operators :
            /\ ConsistentReads
            /\ put[o] # Idle
            /\ put[o].key \in Disciplined
            /\ policies'[put[o].key].policy # policies[put[o].key].policy
            /\ put'[o] # put[o]
            => policies[put[o].key].policy = fetched[o][put[o].key].policy ]_adminVars
===============================================================================
