--------------------------- MODULE MCBrokerLedger ---------------------------
(* The instances of BrokerLedger that TLC checks.  Broker sessions of one   *)
(* user are few and not interchangeable: no symmetry.                       *)
EXTENDS BrokerLedger, TLC

\* A day with an evening only, a day with both, a day with none.
MixedEvenings == {<<1, 1>>, <<1, 2>>, <<2, 2>>}
NoEvenings    == {}
=============================================================================
