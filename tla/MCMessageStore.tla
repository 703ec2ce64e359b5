--------------------------- MODULE MCMessageStore ---------------------------
(* Messages of two tiers whose sizes compete for the budget, one alert dated  *)
(* in the future.                                                             *)
EXTENDS MessageStore

MCRetention == <<2, 1>>

MCAlerts == {[id |-> "late", tier |-> 1, size |-> 2, created |-> 1]}

MCDrafts == {[id |-> "aid", tier |-> 2, size |-> 1]}
=============================================================================
