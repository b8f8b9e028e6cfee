---------------------------- MODULE Recognisers ----------------------------
(***************************************************************************)
(* asr::createASR (asr/base.cpp): every connection has one recogniser, of the  *)
(* kind the configuration names.  Everything of this module without a prefix is  *)
(* BytedanceV2, P is Paraformer; neither touches the other's state.           *)
(***************************************************************************)
EXTENDS BytedanceAsr

CONSTANTS Durations, Weightings, MaxUnits, MaxFaults

VARIABLES
    selected_module,
    \* the state of Paraformer
    duration, weights, decoded_length_, model, units, began, flushes, faults, last

P == INSTANCE ParaformerAsr

\* The encoder gives a row the weight of one token at most.
ASSUME ParaformerAssumption ==
    /\ Durations \subseteq Nat /\ MaxUnits \in Nat /\ MaxFaults \in Nat
    /\ Weightings \subseteq Seq(0..P!cif_threshold) \ {<<>>}

paraformerVars == <<duration, weights, decoded_length_, model, units, began, flushes,
                    faults, last>>
allvars == <<selected_module, vars, paraformerVars>>

createASR ==
    /\ selected_module \in {"BytedanceASRV2", "Paraformer"}
    /\ Init
    /\ P!Init

detect_opus ==
    \/ selected_module = "BytedanceASRV2" /\ Next /\ UNCHANGED <<selected_module, paraformerVars>>
    \/ selected_module = "Paraformer" /\ P!Next /\ UNCHANGED <<selected_module, vars>>

CreatedSpec == createASR /\ [][detect_opus]_allvars
-----------------------------------------------------------------------------
(* Properties: those of BytedanceV2 as they are, and *)

\* Type invariant of both recognisers.
StateTypeOK == TypeOK /\ P!TypeOK

\* Paraformer's chunks: each row of an utterance is weighed once and in order.
CentreRowsAreTheUtterance == P!CentreRowsAreTheUtterance

\* Paraformer's tokens are those of the whole utterance.
TokensFollowTheIntegral == P!TokensFollowTheIntegral

\* Paraformer forgets an utterance at its end mark.
NothingIsLeft == P!NothingIsLeft
=============================================================================
