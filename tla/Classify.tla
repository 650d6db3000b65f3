------------------------------ MODULE Classify ------------------------------
(***************************************************************************)
(* Whether a hit was a person: classify.ts, a pure function of the evidence *)
(* stored on the event and of thresholds that may change between reads.    *)
(***************************************************************************)
EXTENDS Naturals

(* What the user agent matches: the image proxies, the scanners, neither,  *)
(* or nothing because there is none.                                       *)
Agents == {"proxy", "scanner", "browser", "none"}

Evidence ==
  [ delaySeconds : Nat,
    burstSize    : Nat,
    agent        : Agents,
    datacenter   : BOOLEAN,              (* ptr matches INFRASTRUCTURE_PTR  *)
    openedBefore : {"yes", "no", "unknown"},
    networkReach : {{}} \cup {{n} : n \in Nat} ]   (* {}: no address       *)

Rules ==
  [minDelaySeconds : Nat, burstLinks : Nat, noOpenWindowSeconds : Nat,
   networkReach : Nat]

Automated(ev, rules) ==
  \/ ev.agent \in {"proxy", "scanner"}
  \/ ev.delaySeconds < rules.minDelaySeconds
  \/ ev.burstSize >= rules.burstLinks
  \/ \E n \in ev.networkReach : n >= rules.networkReach

Doubtful(ev, rules) ==
  \/ ev.openedBefore = "no" /\ ev.delaySeconds < rules.noOpenWindowSeconds
  \/ ev.agent = "none"
  \/ ev.datacenter

judge(ev, rules) ==
  CASE Automated(ev, rules) -> "machine"
    [] ~Automated(ev, rules) /\ Doubtful(ev, rules) -> "suspect"
    [] OTHER -> "counted"
=============================================================================
