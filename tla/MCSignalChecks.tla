----------------------------- MODULE MCSignalChecks -----------------------------
\* The sample of docs/specs/ingestion-preflight.md:98, and two mappings of its score:
\* one to a field of its own, masteryScore, and one over the object the score is in.
EXTENDS SignalChecks

MCKeyClass == [k \in {"submission", "score", "total", "masteryScore"} |->
                 IF k = "score" THEN "semantic" ELSE "plain"]
MCSamples == {<<"submission", "score">> :> Numeral(1) @@ <<"submission", "total">> :> Numeral(2)}

ValueOf(n) == [plus |-> [kind |-> "var", name |-> n], minus |-> [kind |-> "const", value |-> 0]]
\* target = submission.score / submission.total
Mastery(target) ==
  [aliases |-> <<>>, strict |-> FALSE, required |-> {}, types |-> <<>>, none |-> FALSE,
   transforms |->
     <<[target |-> target,
        sources |-> "s" :> <<"submission", "score">> @@ "t" :> <<"submission", "total">>,
        expression |-> [op |-> "over", left |-> ValueOf("s"), right |-> ValueOf("t")]]>>]
MCMappingBodies == {Mastery(<<"masteryScore">>), Mastery(<<"submission">>)}
MCOldFile == <<NoMapping>>
===============================================================================
