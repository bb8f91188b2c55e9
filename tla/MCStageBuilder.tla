---------------------------- MODULE MCStageBuilder ----------------------------
(***************************************************************************)
(* Instances of StageBuilder for TLC.                                       *)
(***************************************************************************)
EXTENDS StageBuilder

MCPrograms == {
    <<"source", "source", "union", "action", "action">>,
    <<"source", "collapse", "dop", "action", "action">>,
    <<"source", "source", "zip", "union", "action">>,
    <<"source", "collapse", "union", "dop", "action">>,
    <<"source", "source", "union", "action", "action", "action">>}

MCPreOpMemUse ==
    [k \in {"source", "dop", "zip", "collapse", "union", "action"} |->
       CASE k = "dop" -> AllMemory [] k = "zip" -> 4 [] OTHER -> 0]
MCExecuteMemUse == [MCPreOpMemUse EXCEPT !["zip"] = AllMemory]
MCPushDataMemUse == [MCPreOpMemUse EXCEPT !["source"] = AllMemory]
=============================================================================
