------------------------ MODULE MC_GenesisProjects ------------------------
(***************************************************************************)
(* GenesisProjects on the documents of MC_GenesisValidator, with three     *)
(* projects whose id order (10, 20, 30 for keys 2, 1, 3) differs from      *)
(* their key order, so that a page size of 2 gives two pages.             *)
(***************************************************************************)
EXTENDS MC_GenesisValidator, GenesisProjects

MCProjectId == (1 :> 20) @@ (2 :> 10) @@ (3 :> 30)
MCClassId == (1 :> "C01") @@ (2 :> "BIO01") @@ (3 :> "X01")

WithProjects(D, ps) == {[g EXCEPT !.projects = ps] : g \in D}

\* Project 3 is a second project of class 1.
QueryDocs == WithProjects(AlignedDocs, (1 :> 1) @@ (2 :> 2) @@ (3 :> 1))

\* Project 3 names class key 4, which no class has, and no batch is of
\* project 3; the documents have no balances, supplies or baskets.
DanglingProjectDocs ==
    WithProjects({g \in AlignedDocs : DOMAIN g.balances = {}},
                 (1 :> 1) @@ (2 :> 2) @@ (3 :> 4))
=============================================================================
