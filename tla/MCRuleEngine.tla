---------------------------- MODULE MCRuleEngine ----------------------------
(* Values for TLC.  r1 is a band with two conditions on one sensor and one  *)
(* on an actuator, r2 the opposite of r1, spelt otherwise.                  *)
EXTENDS RuleEngine

CONSTANTS s1, a1, r1, r2, WithBand

On(e, values) == [target |-> e, holds |-> values]
Set(e, text) == [target |-> e, value |-> text]

MCValue == {"low", "high", "0", "1"}
MCSteady == {"high", "0", "1"}   (* the sensor always reads the same *)
MCConditions ==
  [r \in Rule |->
     IF r = r2 THEN <<On(s1, {"low"})>>
     ELSE IF WithBand
     THEN <<On(s1, {"high"}), On(a1, {"0", "1"}), On(s1, {"high", "low"})>>
     ELSE <<On(s1, {"high"})>>]
MCActions ==
  [r \in Rule |->
     IF r = r1 THEN <<Set(a1, "1")>> ELSE IF WithBand THEN <<>> ELSE <<Set(a1, "off")>>]

=============================================================================
