-------------------------- MODULE RecordValidation --------------------------
(***************************************************************************)
(* The format checks of single records in x/ecocredit/core: the           *)
(* Validate methods that genesis import runs on every row (validateMsg in  *)
(* genesis.go: Class, ClassIssuer, Project, Batch), OriginTx.Validate      *)
(* (origin_tx.go) and MsgCreateProject.ValidateBasic                       *)
(* (msg_create_project.go).                                                *)
(*                                                                         *)
(* A string is abstracted to its length and the classes of its            *)
(* characters: the first one, and the set of the others.  A check this    *)
(* package calls but does not define (bech32 decoding, ValidateClassId,    *)
(* ValidateProjectId, ValidateBatchDenom, ValidateJurisdiction, the        *)
(* Ethereum address check) is a Boolean field of the record.  A record is *)
(* chosen in the initial state and validated in one step.                  *)
(***************************************************************************)
EXTENDS Integers

CONSTANTS
    Records,            \* the records that may be validated
    MaxMetadataLength,  \* ecocredit MaxMetadataLength
    MaxNoteLength       \* ecocredit MaxNoteLength

VARIABLES rec, verdict

vars == <<rec, verdict>>

NoErr == "none"

MaxReferenceIdLength == 32

\* Character classes: alphanumerics, the allowed punctuation " ", "_" and
\* "-", and anything else.
CharClass == {"alnum", "punct", "other"}

Str(n, first, rest) == [len |-> n, first |-> first, rest |-> rest]

Empty == Str(0, "none", {})

\* reOriginTxId / reOriginTxSource: ^[a-zA-Z0-9][a-zA-Z0-9 _\-]{0,max-1}$
MatchesOriginRegex(s, max) ==
    /\ 1 <= s.len /\ s.len <= max
    /\ s.first = "alnum"
    /\ s.rest \subseteq {"alnum", "punct"}

ClassValidate(c) ==
    CASE c.metadataLen > MaxMetadataLength -> "MaxLimit"
      [] ~c.adminValid                      -> "InvalidAddress"
      [] c.idLen = 0                        -> "InvalidRequest"
      [] ~c.idValid                         -> "InvalidClassId"
      [] c.abbrevLen = 0                    -> "InvalidRequest"
      [] OTHER                              -> NoErr

ClassIssuerValidate(ci) ==
    CASE ci.classKey = 0  -> "InvalidRequest"
      [] ~ci.issuerValid  -> "InvalidAddress"
      [] OTHER            -> NoErr

ProjectValidate(p) ==
    CASE ~p.adminValid                       -> "InvalidAddress"
      [] p.classKey = 0                      -> "InvalidRequest"
      [] ~p.jurisdictionValid                -> "InvalidJurisdiction"
      [] p.metadataLen > MaxMetadataLength   -> "MaxLimit"
      [] ~p.idValid                          -> "InvalidProjectId"
      [] OTHER                               -> NoErr

\* Dates are whole days; NoDate is a nil timestamp.
NoDate == -1

BatchValidate(b) ==
    CASE ~b.denomValid                        -> "InvalidBatchDenom"
      [] b.projectKey = 0                     -> "InvalidRequest"
      [] b.startDate = NoDate                 -> "InvalidRequest"
      [] b.endDate = NoDate                   -> "InvalidRequest"
      [] ~(b.endDate > b.startDate)           -> "InvalidRequest"
      [] ~b.issuerValid                       -> "InvalidAddress"
      [] OTHER                                -> NoErr

OriginTxValidate(o) ==
    CASE ~MatchesOriginRegex(o.id, 128)               -> "InvalidRequest"
      [] ~MatchesOriginRegex(o.source, 32)            -> "InvalidRequest"
      [] o.contract.len > 0 /\ ~o.contractValid       -> "InvalidAddress"
      [] o.noteLen > MaxNoteLength                    -> "InvalidRequest"
      [] OTHER                                        -> NoErr

\* (mutation) ValidateBasic without the metadata length check.
CreateProjectValidateBasicNoMetadata(m) ==
    CASE ~m.adminValid                                           -> "InvalidAddress"
      [] ~m.classIdValid                                         -> "InvalidClassId"
      [] ~m.jurisdictionValid                                    -> "InvalidJurisdiction"
      [] m.referenceIdLen # 0 /\ m.referenceIdLen > MaxReferenceIdLength -> "MaxLimit"
      [] OTHER                                                   -> NoErr

CreateProjectValidateBasic(m) ==
    CASE ~m.adminValid                                           -> "InvalidAddress"
      [] ~m.classIdValid                                         -> "InvalidClassId"
      [] m.metadataLen > MaxMetadataLength                       -> "MaxLimit"
      [] ~m.jurisdictionValid                                    -> "InvalidJurisdiction"
      [] m.referenceIdLen # 0 /\ m.referenceIdLen > MaxReferenceIdLength -> "MaxLimit"
      [] OTHER                                                   -> NoErr

\* validateMsg and the message check, by record kind.
ValidateRecord(r) ==
    CASE r.kind = "Class"            -> ClassValidate(r)
      [] r.kind = "ClassIssuer"      -> ClassIssuerValidate(r)
      [] r.kind = "Project"          -> ProjectValidate(r)
      [] r.kind = "Batch"            -> BatchValidate(r)
      [] r.kind = "OriginTx"         -> OriginTxValidate(r)
      [] r.kind = "MsgCreateProject" -> CreateProjectValidateBasic(r)

Init ==
    /\ rec \in Records
    /\ verdict = "pending"

Validate ==
    /\ verdict = "pending"
    /\ verdict' = ValidateRecord(rec)
    /\ UNCHANGED rec

Next == Validate

Spec == Init /\ [][Next]_vars

-----------------------------------------------------------------------------
(* The Project row the keeper stores for an accepted MsgCreateProject:     *)
(* the same admin, jurisdiction and metadata, the key of the class the     *)
(* class id names (keys start at 1), and an id it generates.               *)
ProjectRowOf(m, classKey) ==
    [kind |-> "Project", adminValid |-> m.adminValid, classKey |-> classKey,
     jurisdictionValid |-> m.jurisdictionValid, metadataLen |-> m.metadataLen,
     idValid |-> TRUE]

\* A project created from a MsgCreateProject that passed ValidateBasic is
\* a row that Project.Validate accepts, so exporting the chain's state and
\* importing it as genesis never rejects a row the chain itself created.
CreatedProjectsReimport ==
    verdict = NoErr /\ rec.kind = "MsgCreateProject" =>
        ProjectValidate(ProjectRowOf(rec, 1)) = NoErr

=============================================================================
