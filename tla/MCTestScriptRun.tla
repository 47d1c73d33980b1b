--------------------------- MODULE MCTestScriptRun ---------------------------
(* Model values for TestScriptRun.                                         *)
EXTENDS TestScriptRun

\* Three selected scripts: enough for one script to follow two others.
MCMaxSelected == 3

\* Two Run clicks: the lua state outlives a batch.
MCMaxBatches == 2

\* A chunk returns nothing, or one number of each kind ExecuteScript tells
\* apart: PASS, FAIL, ERROR, and one that is out of ScriptResult's range.
MCReturns == {<<>>, <<PASS>>, <<FAIL>>, <<ERROR>>, <<OutOfRange>>}

=============================================================================
