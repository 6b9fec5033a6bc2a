------------------------- MODULE CliCommands_proofs -------------------------
(***************************************************************************)
(* The commands of CliCommands, run as one system, implement each of the   *)
(* specifications that the proofs of its parts are about; what is proved   *)
(* of the parts holds of the whole.                                        *)
(***************************************************************************)
EXTENDS CliCommands, KeyStores_proofs, PivTool_proofs, Blobs_proofs, RootPolicy_proofs

LEMMA PartsInit == Init => StoresInit /\ PivInit /\ BlobInit /\ RootInit
BY DEF Init

LEMMA PartsNext ==
    [Next]_cliVars => /\ [StoresNext]_storeVars /\ [PivNext]_pivVars
                      /\ [BlobNext]_blobVars /\ [RootNext]_rootVars
<1>1. Next => [StoresNext]_storeVars
    BY DEF Next
<1>2. Next => [BlobNext]_blobVars
    BY DEF Next
<1>3. Next => [RootNext]_rootVars
    BY DEF Next
<1>4. Next => [PivNext]_pivVars
    BY DEF Next
<1>5. UNCHANGED cliVars => /\ UNCHANGED storeVars /\ UNCHANGED pivVars
                           /\ UNCHANGED blobVars /\ UNCHANGED rootVars
    BY DEF cliVars
<1> QED BY <1>1, <1>2, <1>3, <1>4, <1>5

\* A behaviour of the commands is one of the key stores, of the hardware token, of
\* the blobs and of the root policy.
THEOREM PartsImplemented == Spec => StoresSpec /\ PivSpec /\ BlobSpec /\ RootSpec
BY PartsInit, PartsNext, PTL DEF Spec, StoresSpec, PivSpec, BlobSpec, RootSpec

\* What is proved of the parts holds of the system that the run checks: nobody's
\* private key is overwritten unasked, a key store that works goes on working, no
\* command keeps the token, sget delivers what its key vouches for, and a published
\* root is signed by its maintainers only.
THEOREM CommandsCorrect ==
    Spec => /\ AskedBeforeOverwrite
            /\ UsableStaysUsable
            /\ []TokenReleased
            /\ []GotIsVouchedFor
            /\ []SignaturesAreOfMaintainers
BY PartsImplemented, AsksFirst, KeepsWorking, AlwaysReleased, DeliversVouched, MaintainersOnly, PTL
=============================================================================
