---------------------------- MODULE InputsProofs ----------------------------
(***************************************************************************)
(* What the theorems about the inputs, one by one, say of all that a program *)
(* is given.                                                                *)
(***************************************************************************)
EXTENDS Inputs, EpochsProofs, CorrectionsProofs, TLAPS

\* Each of the seven goes on as if it were alone.
LEMMA EachInput ==
  InputsSpec => Spec /\ ChainSpec /\ HasSpec /\ BankSpec /\ PostSpec /\ BiasSpec /\ SbasSpec
<1>1. InputsInit => Init /\ ChainInit /\ PagesInit /\ BankInit /\ PostInit /\ BiasInit /\ SbasInit
  BY DEF InputsInit
<1>2. [InputsNext]_inputVars =>
        /\ [Next]_vars /\ [ChainNext]_chainVars /\ [PagesNext]_pagesVars /\ [BankNext]_bankVars
        /\ [PostNext]_postVars /\ [BiasNext]_biasVars /\ [SbasNext]_sbasVars
  BY DEF InputsNext, inputVars
<1>. QED  BY <1>1, <1>2, PTL DEF InputsSpec, Spec, ChainSpec, HasSpec, BankSpec, PostSpec, BiasSpec, SbasSpec

\* Whatever the inputs carry and whatever the constants are, no epoch is missed silently, a
\* correction is used with the ephemeris and the masks that it refers to, a HAS message is put
\* together of its own pages, and the filter gets the epochs and phases that it should: the
\* properties that the run of decoderaw's inputs and postpos's files checks.
THEOREM InputsSafe ==
  ASSUME OneMaskAnIssue
  PROVE  InputsSpec => /\ [](NoneMissedSilently /\ SsrBelongs /\ HasInv /\ BankInv /\ PostInv /\ BiasInv /\ SbasInv)
                       /\ EpochsInOrder /\ NoFlipFlop
<1>1. SbasSpec => []SbasInv
  BY SbasInvHolds
<1>. QED  BY <1>1, EachInput, NoneMissedSilentlyHolds, SsrBelongsHolds, HasInvHolds, BankInvHolds, PostInvHolds,
             BiasInvHolds, EpochsInOrderHolds, NoFlipFlopHolds, PTL
=============================================================================
