---------------------------- MODULE MCSwarmPages ----------------------------
(* Instances of SwarmPages for TLC: three services, one of them in no stack, *)
(* and four tasks, one of them not assigned to a node yet.                   *)
EXTENDS SwarmPages, TLC

CONSTANTS s1, s2, s3, n1, n2, t1, t2, t3, t4

MCServices == {s1, s2, s3}
MCNodes == {n1, n2}
MCTasks == {t1, t2, t3, t4}
MCServiceOf == t1 :> s1 @@ t2 :> s2 @@ t3 :> s1 @@ t4 :> s3
MCNodeOf == t1 :> n1 @@ t2 :> n1 @@ t3 :> n2 @@ t4 :> NoNode

\* s1 and s2 are a_web and b_web of the stacks a and b, s3 is web_x of none.
MCName == s1 :> "a_web" @@ s2 :> "b_web" @@ s3 :> "web_x"
MCShortName == s1 :> "web" @@ s2 :> "web" @@ s3 :> ""
MCStack == s1 :> "a" @@ s2 :> "b" @@ s3 :> ""
MCPorts == {<<s1, 80>>, <<s1, 443>>, <<s3, 8080>>}
MCStates == {"running", "failed"}
MCRank == s1 :> 1 @@ s2 :> 2 @@ s3 :> 3 @@ n1 :> 1 @@ n2 :> 2
          @@ t1 :> 1 @@ t2 :> 2 @@ t3 :> 3 @@ t4 :> 4 @@ "running" :> 1 @@ "failed" :> 2
MCColumns == {"Slot"}
MCValue == [Slot |-> t1 :> 1 @@ t2 :> 2 @@ t3 :> 2 @@ t4 :> 1]

MCIncludes ==
    {<<"web", "a_web">>, <<"web", "b_web">>, <<"web", "web_x">>, <<"web", "web">>,
     <<"a_web", "a_web">>, <<"a", "a_web">>, <<"a", "a">>, <<"b", "b_web">>, <<"b", "b">>,
     <<"(without stack)", "(without stack)">>}
MCIncludesLoosely == MCIncludes \cup {<<"aweb", "a_web">>, <<"WEB", "a_web">>, <<"WEB", "web">>}

MCUserChoices ==
    [service : {"", "web", "a_web", "aweb"}, stack : {"", "a", "(without stack)"},
     hidden : SUBSET MCStates, settings : {{}, {"failed"}}]
=============================================================================
