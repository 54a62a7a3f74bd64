----------------------------- MODULE MCIso8583 ------------------------------
(***************************************************************************)
(* Instances of Iso8583 for TLC: two calls sharing the gateway's link.     *)
(* Codec and Mediation are checked with it: their properties are about     *)
(* values, not states, and are what lets a call of Iso8583 pass whole from *)
(* the adapter to the switch.  They are evaluated in the initial state.    *)
(***************************************************************************)
EXTENDS Iso8583, Mediation

\* What the adapter asks, PIN and reversal included, is what the switch reads,
\* and what the switch answers, or that it does not, is what the adapter tells.
AnswersNameRequests ==
    Init => AuthorisationArrives /\ FaultsAreToldApart /\ ReversalNamesOriginal

Symmetry == Permutations(Call)
=============================================================================
