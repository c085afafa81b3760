--------------------------- MODULE MCRequirements ---------------------------
(***************************************************************************)
(* Inputs of Requirements for TLC: lines with two versions, with and       *)
(* without comment, and with extras that overlap or do not.                *)
(***************************************************************************)
EXTENDS Requirements

Req(version, comment, extras) == [version |-> version, comment |-> comment, extras |-> extras]
ReqA == Req("a", FALSE, {})
ReqB == Req("b", FALSE, {})
MCFiles == {"requirements", "extras"}
MCHeadLines == {<<>>, <<ReqA>>, <<Req("a", TRUE, {})>>, <<ReqA, ReqB>>, <<ReqA, Req("a", TRUE, {})>>,
                <<Req("a", FALSE, {"x"})>>, <<Req("a", FALSE, {"x"}), Req("b", FALSE, {"x"})>>,
                <<Req("a", FALSE, {"x"}), Req("a", FALSE, {"x", "y"}), Req("b", FALSE, {"y"})>>}
MCBranchLines == {<<>>, <<ReqA>>, <<ReqA, ReqB>>, <<ReqA, ReqA>>}
MCGlobalReqs == {{}, {ReqA}, {ReqA, ReqB}, {ReqB, Req("b", FALSE, {"x"})}}

=============================================================================
