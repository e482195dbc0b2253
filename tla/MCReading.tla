------------------------------- MODULE MCReading -------------------------------
(***************************************************************************)
(* Instances of Listings, LearnerSummary and FieldMappings for TLC.  The   *)
(* two readers look at the same tables and do not see each other, and the  *)
(* mappings share nothing with either, so a behaviour has one of the       *)
(* three.  Of the mappings: two requests of one process, which one of the  *)
(* admin requests reaches too; the other admin request is handled by a     *)
(* process of its own, whose invalidations the requests never see.         *)
(***************************************************************************)
EXTENDS Listings, LearnerSummary, FieldMappings

CONSTANTS d1, d2, a1, a2, server, adminFunction, b1, px

MCLearnerOf == [s \in Signals |-> IF s = 3 THEN 2 ELSE 1]
MCProcessOf == [x \in Incoming \cup Admins |-> IF x = a2 THEN adminFunction ELSE server]
MCSymmetry == Permutations(Requests) \cup Permutations(Incoming)

VARIABLE
  moving  \* whether the readers and what they read move, or the mappings

ReadingInit ==
  /\ Init /\ summary = NoSummary /\ MappingsInit
  /\ \/ moving = "readers"
     \/ moving = "mappings" /\ store = CHOOSE d \in Deployments : TRUE


\* Only the listing of the ingestion log shows a refused request or a duplicate, and only
\* that of the decisions whether one was made; to the other readers it is as if
\* nothing had been refused and something decided.
NoneTurnedAway == \A i \in DOMAIN outcomes' : outcomes'[i].outcome = "accepted"
EachDecided == Len(decisions') = Cardinality({i \in DOMAIN outcomes' : outcomes'[i].outcome = "accepted"})
ListingBounds ==
  listing' # NoListing =>
    /\ listing'.kind # "ingestion" => NoneTurnedAway
    /\ listing'.kind # "decisions" => EachDecided
    /\ listing'.kind = "trajectory" => listing'.learner = 1

\* A summary is asked of learner 1, and where it shows something else than in
\* another of these states: it sees neither the time at which a request arrived nor
\* the requests about the other learner.
SummaryBounds ==
  /\ NoneTurnedAway
  /\ \A r \in Requests : request'[r] # Idle =>
       /\ request'[r].at = 1 /\ LearnerOf[request'[r].signal] = 1
       /\ \A q \in Requests \ {r} : request'[q] = Idle \/ request'[q].signal # request'[r].signal
  /\ summary'.stage \in {"reading", "answered"} => summary'.learner = 1

\* Of two mappings one has a signal_id_path, and the second an envelope; the process
\* of its own does not activate.
MappingsBounds ==
  /\ item' = 2 => envelope'[2] # "none" /\ px \in {envelope'[1], envelope'[2]}
  /\ adminPc'[a2] # "activate"

ReadingNext ==
  /\ UNCHANGED moving
  /\ \/ /\ moving = "readers" /\ UNCHANGED mappingsVars
        /\ \/ summary = NoSummary /\ Next /\ ListingBounds /\ UNCHANGED summary
           \/ listing = NoListing /\ UNCHANGED listing /\ SummaryNext /\ (summary' # NoSummary => SummaryBounds)
     \/ moving = "mappings" /\ MappingsNext /\ MappingsBounds /\ UNCHANGED <<vars, summary>>

ReadingSpec == ReadingInit /\ [][ReadingNext]_<<moving, vars, summary, mappingsVars>>
===============================================================================
