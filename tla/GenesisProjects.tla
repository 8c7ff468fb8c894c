-------------------------- MODULE GenesisProjects --------------------------
(***************************************************************************)
(* A genesis document imported by ValidateGenesis (GenesisValidator), and *)
(* then the Projects query (ProjectQuery) called on the state it imported. *)
(* ImportJSON fills the Project and Class tables with the document's rows; *)
(* a row's id is given by ProjectId and ClassId, as the genesis documents  *)
(* of GenesisValidator carry keys only.  The query is called only once the *)
(* audit has accepted the document, as a node starts from no other state.  *)
(***************************************************************************)
EXTENDS GenesisValidator

CONSTANTS
    ProjectId,  \* ProjectId[k]: the id of the project of key k
    ClassId,    \* ClassId[c]: the id of the class of key c
    Limit,      \* PageRequest.Limit of the client's calls
    NoKey       \* an empty page key

VARIABLES cursor, listed, done, qerr

clientVars == <<cursor, listed, done, qerr>>
allVars == <<genesis, result, cursor, listed, done, qerr>>

\* The Project and Class tables of the imported document.
ImportedProjects(g) ==
    [k \in DOMAIN g.projects |-> [key |-> k, id |-> ProjectId[k], classKey |-> g.projects[k]]]

ImportedClasses(g) == [c \in DOMAIN g.classes |-> ClassId[c]]

PQ == INSTANCE ProjectQuery
        WITH Stores <- {}, projects <- ImportedProjects(genesis),
             classes <- ImportedClasses(genesis)

ImportInit == Init /\ PQ!ClientInit

ImportNext ==
    \/ Validate /\ UNCHANGED clientVars
    \/ result = NoErr /\ PQ!ClientCall /\ UNCHANGED <<genesis, result>>

\* The node runs the audit when it starts from the document, and the client
\* keeps calling until it has the last page.
ImportFairness == WF_allVars(ImportNext)

ImportSpec == ImportInit /\ [][ImportNext]_allVars /\ ImportFairness

-----------------------------------------------------------------------------
\* Once the audit accepts a document, a client that pages through the
\* Projects query eventually holds every imported project, once each, in id
\* order and with the id of its class: the query never fails on a state
\* ValidateGenesis accepted (whose comment says it checks that "the credit
\* class referenced in each project exists").
ImportedProjectsListed == result = NoErr ~> PQ!AllListed
=============================================================================
