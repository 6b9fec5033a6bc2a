---------------------------- MODULE CliCommands ----------------------------
(***************************************************************************)
(* The commands that prepare and publish what signing and verification     *)
(* use: keys in stores (KeyStores), on hardware tokens (PivTool) and in    *)
(* PKCS#11 modules (Pkcs11), files in a registry (Blobs) and the root      *)
(* policy of a namespace (RootPolicy).  They share no state; a behaviour   *)
(* is one of one of them.                                                  *)
(***************************************************************************)
EXTENDS KeyStores, PivTool, Pkcs11, Blobs, RootPolicy

CONSTANT Parts

VARIABLE part    \* the commands that this behaviour is about

cliVars == <<part, storeVars, pivVars, tokVars, blobVars, rootVars>>

Init ==
    /\ part \in Parts
    /\ StoresInit /\ PivInit /\ BlobInit /\ RootInit
    /\ IF part = "pkcs11" THEN TokInit ELSE TokInit /\ hsm = CHOOSE h \in Hsms : TRUE

Next ==
    /\ UNCHANGED part
    /\ \/ part = "stores" /\ StoresNext /\ UNCHANGED <<pivVars, tokVars, blobVars, rootVars>>
       \/ part = "piv" /\ PivNext /\ UNCHANGED <<storeVars, tokVars, blobVars, rootVars>>
       \/ part = "pkcs11" /\ TokNext /\ UNCHANGED <<storeVars, pivVars, blobVars, rootVars>>
       \/ part = "blobs" /\ BlobNext /\ UNCHANGED <<storeVars, pivVars, tokVars, rootVars>>
       \/ part = "root" /\ RootNext /\ UNCHANGED <<storeVars, pivVars, tokVars, blobVars>>

Spec == Init /\ [][Next]_cliVars
=============================================================================
