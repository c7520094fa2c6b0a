----------------------------- MODULE MCFixJobs -----------------------------
EXTENDS FixJobs, TLC

CONSTANTS f1, f2

\* f1 carries an id of its own, f2 neither id nor rule_id: the worker alone
\* has a name for it.
OwnIds == [f \in Findings |-> f]

\* A batch of both, and a batch of the finding with an id.
SomeBatches == {Findings, {f1}}

Symmetric == Permutations(Workers)
=============================================================================
