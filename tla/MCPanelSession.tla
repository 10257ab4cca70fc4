---------------------------- MODULE MCPanelSession ----------------------------
(* Small instances of PanelSession: one browser, one account.                  *)
EXTENDS PanelSession, TLC

BrowserSymmetry == Permutations(Tabs) \cup Permutations(Calls)

(* No property speaks of what comes after an answer is lost: the run goes on   *)
(* only from rest, to what the backend serves late.                            *)
UntilLost == "cut" \in why => Quiet /\ late # {}
=============================================================================
