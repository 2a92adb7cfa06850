------------------------------ MODULE MCAlerts ------------------------------
(***************************************************************************)
(* Small instances of Alerts for TLC.                                      *)
(***************************************************************************)
EXTENDS Alerts, TLC

CONSTANTS d1, d2, d3, k1, i1, i2, r1, prod, dev, none, home, hook, ops

MCProjectOf == [k \in Keys |-> "1"]

(* home and ops are chats; the command line configures home or nothing,    *)
(* and the project another chat and a Discord webhook, or nothing.         *)
MCChannelOf == [t \in Targets |-> IF t = hook THEN "discord" ELSE "telegram"]
MCGlobals   == {{}, {home}}
MCOverrides == {{}, {hook, ops}}

E(i, v) == [id |-> i, key |-> k1, release |-> r1, env |-> v, ts |-> 0]

(* Events of two environments, and events without one.                     *)
OneId  == {E(i1, prod), E(i1, dev)}
TwoIds == {E(i1, none), E(i2, none)}
Plain  == {E(i1, none)}

(* A rule with a threshold, and one with an environment as well.           *)
EveryTwo  == [project |-> "1", env |-> none, min |-> 2, window |-> 5, targets |-> {ops}]
ProdTwice == [EveryTwo EXCEPT !.env = prod]
Decisive  == {ProdTwice}
Threshold == {EveryTwo}
NoRules   == {}

(* The rules stay what they are, every query succeeds, nobody resolves.    *)
Healthy ==
  /\ rules' = rules /\ how' = how
  /\ ~\E d \in Deliveries : pc'[d] = "lost"
  /\ \A d \in Deliveries : fetched'[d] /\ ~fetched[d] => todo'[d] = rules
  /\ ~\E d \in Deliveries, r \in Rules : SkipRule(d, r) /\ Fires(d, r)
HealthySpec == AlertInit /\ rules = Rules /\ [][AlertNext /\ Healthy]_allVars
=============================================================================
