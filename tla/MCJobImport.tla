---------------------------- MODULE MCJobImport ------------------------------
(* Small instances of JobImport. *)
EXTENDS JobImport

CONSTANTS d1, d2

\* The second document has a single draft.
MCDocumentOf == [r \in Lines |-> IF r = 3 THEN d2 ELSE d1]

\* finding_two_requisitions: nobody changes a requisition but those who confirm
\* drafts.
ConfirmationsOnly ==
    ImportInit /\ [][ImportNext /\ ~ \E j \in Jobs : AdminUpdatesJob(j)]_importVars
=============================================================================
