---------------------------- MODULE MCFactorCache ----------------------------
(***************************************************************************)
(* Instances of FactorCache: the processes, the factors and the requests.  *)
(***************************************************************************)
EXTENDS FactorCache

Entry(factor, source, first, last) ==
    [factor |-> factor, source |-> source, dep |-> NoKey,
     first |-> first, last |-> last]

\* Two processes of the new code, and a reader of the old one.
NewAndOld == [p \in Procs |-> IF p = "reader" THEN "old" ELSE "new"]
ReaderRequires == [p \in Procs |-> IF p = "reader" THEN "require" ELSE "compute"]
OldEntry == {Entry("base", "old", 1, 2)}

\* A factor that looks back one day on its dependency, which the old code has left.
BaseAndTop == {"base", "top"}
TopUpstream == [f \in BaseAndTop |-> IF f = "top" THEN "base" ELSE NoFactor]
TopLookback == [f \in BaseAndTop |-> IF f = "top" THEN 1 ELSE 0]
TopRequests == {[factor |-> "base", first |-> 1, last |-> 2],
                [factor |-> "top", first |-> 2, last |-> 3]}

\* Three processes of one code that all want the same entry.
AllNew == [p \in Procs |-> "new"]
AllCompute == [p \in Procs |-> "compute"]
NoUpstream == [f \in Factors |-> NoFactor]
NoLookback == [f \in Factors |-> 0]
OneRequest == {[factor |-> "base", first |-> 1, last |-> 2]}
=============================================================================
