---------------------------- MODULE MCScanAlerts ----------------------------
(***************************************************************************)
(* One plugin id in two directories; three scans, or two and a command, or *)
(* two commands.                                                           *)
(***************************************************************************)
EXTENDS ScanAlerts, TLC

CONSTANTS dir1, dir2, plug, srcA, srcB, trustOp, ackOp, ruleA, capA, barA

MCIdOf == (dir1 :> plug) @@ (dir2 :> plug)
MCInitial == (dir1 :> [src |-> srcA, cover |-> "full"]) @@ (dir2 :> Gone)
MCArriving ==
    (dir1 :> {[src |-> srcB, cover |-> "full"], Unscanned, Gone})
    @@ (dir2 :> {[src |-> srcA, cover |-> "partial"]})
MCWalk == <<dir1, dir2>>
Scoped(op) == [do : {op}, id : {plug}, scope : {"source-drift"}]
MCMay ==
    trustOp :> ([do : {"trust", "untrust"}, id : {plug}]
                \cup [do : {"rebaseline"}, id : {plug}, expected : {srcB, None}]
                \cup [do : {"restore"}, id : {plug}, index : {1}]
                \cup Scoped("exclude"))
    @@ ackOp :> (Scoped("acknowledge") \cup [do : {"trust"}, id : {plug}])
MCMode == [notify : BOOLEAN, analysis : BOOLEAN, onlyNew : {FALSE}]
MCPolicy == <<"old", "new">>
Found(f, r, k) == [fingerprint |-> f, rules |-> r, caps |-> k]
\* srcB grows against srcA; a new policy grows srcA, unstable under it.
MCAnalysis ==
    (srcA :> << {Found(1, {}, {})},
                {Found(2, {ruleA}, {}), Found(3, {ruleA}, {})} >>)
    @@ (srcB :> << {Found(4, {ruleA}, {capA})},
                   {Found(4, {ruleA}, {capA})} >>)
    @@ (None :> << {Found(5, {}, {})}, {Found(5, {}, {})} >>)
MCCatalog == {None, Corrupt, [stale |-> TRUE, conflicts |-> {plug}]}

\* Two scans that overlap, the first with an option, and a third that
\* notifies; or two without analysis and a command; or two commands.  One
\* change or one fault.
Few ==
    /\ cpc[ackOp] = "idle" \/ \A s \in Scan : scan[s].pc = "idle"
    /\ \/ cpc[trustOp] = "idle"
       \/ /\ scan[3].pc = "idle"
          /\ \A s \in {1, 2} :
                scan[s].mode # None => ~scan[s].mode.analysis
    /\ \/ scan[1].mode = None
       \/ scan[1].mode.notify \/ scan[1].mode.analysis
    /\ \/ scan[3].pc = "idle"
       \/ /\ \A s \in {1, 2} : scan[s].pc \in {"done", "aborted"}
          /\ scan[3].mode.notify /\ damage = 0
    /\ edits + damage <= 1
=============================================================================
