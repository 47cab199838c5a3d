------------------------------ MODULE TreeWalk ------------------------------
(***************************************************************************)
(* The units of RuleBase as clang builds them: every top-level declaration *)
(* is a node, and a node has a sequence of children.  What is proved about *)
(* the walk needs no more of a syntax tree than this.                      *)
(***************************************************************************)
EXTENDS RuleBase

CONSTANT Nodes              \* nodes of syntax trees, each with its children

LangOpts == {"ObjC1", "CPlusPlus", "C99"}
TopLevelDecls == [valid : BOOLEAN, main : BOOLEAN, tree : Nodes]

ASSUME TreeAssumption ==
    /\ \A n \in Nodes : n.kids \in Seq(Nodes)
    /\ \A h \in Histories :
         h \in Seq([lang : SUBSET LangOpts, decls : Seq(TopLevelDecls)])
=============================================================================
