------------------------- MODULE MC_RecordValidation -------------------------
(***************************************************************************)
(* Records of every kind with each field at or next to the boundary its   *)
(* check tests: lengths 0, the maximum and one more, key 0 and a key,     *)
(* equal and ordered dates, and strings whose first or later characters   *)
(* are alphanumeric, allowed punctuation or other.                        *)
(***************************************************************************)
EXTENDS RecordValidation

MetaLens == {0, MaxMetadataLength, MaxMetadataLength + 1}

\* Strings of the given lengths over the character classes.
Strings(lens) ==
    {Empty} \cup
    {Str(1, f, {}) : f \in CharClass} \cup
    {Str(n, f, r) : n \in lens \ {0, 1}, f \in CharClass, r \in SUBSET CharClass \ {{}}}

ClassRecs ==
    [kind : {"Class"}, metadataLen : MetaLens, adminValid : BOOLEAN,
     idLen : {0, 3}, idValid : BOOLEAN, abbrevLen : {0, 1}]

ClassIssuerRecs == [kind : {"ClassIssuer"}, classKey : {0, 1}, issuerValid : BOOLEAN]

ProjectRecs ==
    [kind : {"Project"}, adminValid : BOOLEAN, classKey : {0, 1},
     jurisdictionValid : BOOLEAN, metadataLen : MetaLens, idValid : BOOLEAN]

BatchRecs ==
    [kind : {"Batch"}, denomValid : BOOLEAN, projectKey : {0, 1},
     startDate : {NoDate, 1, 2}, endDate : {NoDate, 1, 2}, issuerValid : BOOLEAN]

OriginTxRecs ==
    [kind : {"OriginTx"}, id : Strings({0, 1, 128, 129}), source : Strings({0, 1, 32, 33}),
     contract : {Empty, Str(42, "alnum", {"alnum"})}, contractValid : BOOLEAN,
     noteLen : {0, MaxNoteLength + 1}]

CreateProjectRecs ==
    [kind : {"MsgCreateProject"}, adminValid : BOOLEAN, classIdValid : BOOLEAN,
     metadataLen : MetaLens, jurisdictionValid : BOOLEAN,
     referenceIdLen : {0, MaxReferenceIdLength, MaxReferenceIdLength + 1}]

AllRecords ==
    ClassRecs \cup ClassIssuerRecs \cup ProjectRecs \cup BatchRecs \cup OriginTxRecs
    \cup CreateProjectRecs

MCBatchRecs == BatchRecs
=============================================================================
