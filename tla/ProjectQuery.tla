---------------------------- MODULE ProjectQuery ----------------------------
(***************************************************************************)
(* The Projects query of x/ecocredit/server/core/query_projects.go, called *)
(* by a client that pages through all projects.                            *)
(*                                                                         *)
(* Keeper.Projects lists the Project table by its id index, one page per  *)
(* call, reads the class of every project on the page and answers with a   *)
(* ProjectInfo per project and the page response; the first class that    *)
(* cannot be read fails the whole call.  The ORM's paging (ormlist and the *)
(* ormutil conversions) is not part of the sources at hand: a page is the  *)
(* Limit projects from the request key on, in id order, and its next key   *)
(* is the id of the project after it.  A ProjectInfo is abstracted to the  *)
(* project id and class id; its other fields are copied from the row.      *)
(* The query never writes: the store is left unchanged by every step.      *)
(***************************************************************************)
EXTENDS Integers, Sequences, SequencesExt

CONSTANTS
    Stores,     \* the stores the query may be called on
    Limit,      \* PageRequest.Limit of every call
    NoKey       \* an empty page key (no Key in the request, no NextKey)

ASSUME Limit >= 1

VARIABLES
    projects,   \* ProjectTable: project key -> [key, id, classKey]
    classes,    \* ClassTable: class key -> class id
    cursor,     \* the key the client asks for next
    listed,     \* the ProjectInfos the client has received, in order
    done,       \* the client has received a page without a next key
    qerr        \* the error of the client's last call, or NoErr

storeVars == <<projects, classes>>
vars == <<projects, classes, cursor, listed, done, qerr>>

NoErr == "none"

\* The project keys in the order of ProjectIdIndexKey.
IdOrder ==
    LET n == Cardinality(DOMAIN projects)
    IN CHOOSE s \in [1..n -> DOMAIN projects] :
           /\ IsInjective(s)
           /\ \A i \in 1..(n - 1) : projects[s[i]].id < projects[s[i + 1]].id

\* ormlist.Paginate over the id index: the Limit rows from the first one
\* whose id is not below the key on, and the id of the row after them.
Page(key) ==
    LET order == IdOrder
        from  == IF key = NoKey THEN 1
                 ELSE LET after == {i \in 1..Len(order) : projects[order[i]].id >= key}
                      IN IF after = {} THEN Len(order) + 1 ELSE Min(after)
        last  == IF from + Limit - 1 < Len(order) THEN from + Limit - 1 ELSE Len(order)
    IN [rows |-> [i \in 1..(last - from + 1) |-> projects[order[from + i - 1]]],
        next |-> IF last < Len(order) THEN projects[order[last + 1]].id ELSE NoKey]

\* (mutation) the class read with the project's own key.
ClassKeyOfProjectKey(p) == p.key

\* The key ClassTable().Get is called with for a project row.
ClassKeyOf(p) == p.classKey

\* The core.ProjectInfo built from a row and its class.
Info(p) == [id |-> p.id, classId |-> classes[ClassKeyOf(p)]]

\* Keeper.Projects: the infos of the page in order and the next key, or
\* the NotFound of the first project whose class is not in the store.
Projects(key) ==
    LET pg == Page(key)
    IN IF \E i \in DOMAIN pg.rows : ClassKeyOf(pg.rows[i]) \notin DOMAIN classes
       THEN [err |-> "NotFound", infos |-> <<>>, next |-> NoKey]
       ELSE [err |-> NoErr, infos |-> [i \in DOMAIN pg.rows |-> Info(pg.rows[i])],
             next |-> pg.next]

ClientInit ==
    /\ cursor = NoKey
    /\ listed = <<>>
    /\ done = FALSE
    /\ qerr = NoErr

Init ==
    /\ \E s \in Stores : projects = s.projects /\ classes = s.classes
    /\ ClientInit

\* One call with the client's key.  On an answer the client appends the
\* page and goes on with its next key; after an error it keeps its key, so
\* its next call asks for the same page again.
ClientCall ==
    /\ ~done
    /\ LET r == Projects(cursor)
       IN /\ qerr' = r.err
          /\ IF r.err = NoErr
             THEN /\ listed' = listed \o r.infos
                  /\ cursor' = r.next
                  /\ done' = (r.next = NoKey)
             ELSE UNCHANGED <<listed, cursor, done>>

QueryPage == ClientCall /\ UNCHANGED storeVars

Next == QueryPage

\* The client keeps calling until it has the last page.
Fairness == WF_vars(QueryPage)

Spec == Init /\ [][Next]_vars /\ Fairness

-----------------------------------------------------------------------------
\* The client holds every project of the store exactly once, in id order,
\* each with the id of its class.
AllListed ==
    /\ done
    /\ \A k \in DOMAIN projects : projects[k].classKey \in DOMAIN classes
    /\ \A i, j \in DOMAIN listed : i < j => listed[i].id < listed[j].id
    /\ Range(listed) = {[id |-> projects[k].id, classId |-> classes[projects[k].classKey]]
                          : k \in DOMAIN projects}
=============================================================================
