------------------------------ MODULE MCOrgTree ------------------------------
EXTENDS OrgTree, TLC
CONSTANTS c1, c2, r1, r2, r3, w1, w2

\* Two changes and a build of one company.
OneCompany ==
  r1 :> [op |-> "add_user", company |-> c1] @@
  r2 :> [op |-> "del_user", company |-> c1] @@
  r3 :> [op |-> "build_cul_", company |-> c1]

\* Changes of two companies, and a build.
TwoCompanies ==
  r1 :> [op |-> "procedure", company |-> c1] @@
  r2 :> [op |-> "update", company |-> c2] @@
  r3 :> [op |-> "build_org_", company |-> c1]

\* A change of the tree of a company, another one, and a change of a card in it.
ChangedCard ==
  r1 :> [op |-> "procedure", company |-> c1] @@
  r2 :> [op |-> "card", company |-> c1] @@
  r3 :> [op |-> "update", company |-> c1]

ThreeLoads == {OneCompany, TwoCompanies, ChangedCard}

WorkerSymmetry == Permutations(Workers)
=============================================================================
