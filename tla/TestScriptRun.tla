---------------------------- MODULE TestScriptRun ----------------------------
(***************************************************************************)
(* The test script dialog (sw/src/scriptmgrdlg.cpp) running a batch of     *)
(* selected scripts through ScriptMgr::ExecuteScript (sw/src/scriptmgr.cpp)*)
(* and tallying Pass / Fail / Error.                                       *)
(*                                                                         *)
(* All scripts of all batches run in the one lua_State made by             *)
(* ScriptMgr::Init.  luaL_dofile leaves a script's return values, or its   *)
(* error message, on that state's stack and nothing ever pops them;        *)
(* ExecuteScript reads the verdict as lua_tonumber(L, -1), the top of the  *)
(* stack.  A stack slot is abstracted to the number lua_tonumber reads     *)
(* from it (0 for an error message, a string or nil), and a number whose   *)
(* cast to ScriptResult is 3 or more (3, 255, -1, ...) to OutOfRange.      *)
(***************************************************************************)
EXTENDS Naturals, Sequences

CONSTANTS
    MaxSelected,  \* scripts a user selects for one batch
    MaxBatches,   \* clicks of Run in one debugger session
    Returns       \* what a script's chunk may return: sequences of numbers

PASS == 0
FAIL == 1
ERROR == 2
OutOfRange == 3
Number == {PASS, FAIL, ERROR, OutOfRange}

ASSUME /\ MaxSelected \in Nat /\ MaxSelected > 0
       /\ MaxBatches \in Nat
       /\ Returns \subseteq Seq(Number)

\* How one execution of a script file ends: luaL_dofile fails (the file
\* does not load, or raises an error), or it returns the values rets.
Outcomes == {[err |-> TRUE, rets |-> <<>>]}
              \cup {[err |-> FALSE, rets |-> r] : r \in Returns}

VARIABLES
    dlg,        \* "Closed", "Idle" (dialog open), "Running" (inside Run) or "Crashed"
    luaStack,   \* the lua_State's stack, as lua_tonumber reads each slot
    scriptCnt,  \* scripts selected for the running batch
    i,          \* loop index of TestScriptDlgRun: scripts done in this batch
    passCnt, failCnt, errorCnt,
    progress,   \* testsDone last passed to TestScriptDlgSetProgress
    report,     \* the batch's results: [outcome, result] per script run
    batches     \* Run clicks so far

vars == <<dlg, luaStack, scriptCnt, i, passCnt, failCnt, errorCnt, progress,
          report, batches>>

Last(s) == s[Len(s)]

-----------------------------------------------------------------------------
(* ScriptMgr::ExecuteScript                                                *)

\* The stack after luaL_dofile: the error message, or the chunk's results,
\* pushed on whatever earlier scripts left there.
StackAfter(stack, o) == IF o.err THEN Append(stack, 0) ELSE stack \o o.rets

\* Plausible bug: the verdict read from the bottom of the stack (index 1).
ExecuteScriptBottom(stack, o) ==
    LET s == StackAfter(stack, o) IN
    IF o.err THEN ERROR ELSE IF s = <<>> THEN PASS ELSE s[1]

\* ExecuteScript's result: ERROR when luaL_dofile fails, otherwise the
\* number at the top of the stack (lua_tonumber of an empty stack is 0).
ExecuteScript(stack, o) ==
    LET s == StackAfter(stack, o) IN
    IF o.err THEN ERROR ELSE IF s = <<>> THEN PASS ELSE Last(s)

\* The verdict the same execution gets in a freshly opened lua_State.
FreshVerdict(o) == ExecuteScript(<<>>, o)

-----------------------------------------------------------------------------
(* The dialog (scriptmgrdlg.cpp)                                           *)

\* NesDbg::LaunchTestScriptDlg / WM_INITDIALOG: the dialog opens; the lua
\* state it uses is the one ScriptMgr::Init made when the debugger started.
OpenDialog ==
    /\ dlg = "Closed"
    /\ dlg' = "Idle"
    /\ UNCHANGED <<luaStack, scriptCnt, i, passCnt, failCnt, errorCnt, progress,
                   report, batches>>

\* IDC_TESTSCRIPTS_DONE / IDCANCEL: the dialog and its output text go away.
CloseDialog ==
    /\ dlg = "Idle"
    /\ dlg' = "Closed"
    /\ report' = <<>>
    /\ UNCHANGED <<luaStack, scriptCnt, i, passCnt, failCnt, errorCnt, progress, batches>>

\* IDC_TESTSCRIPTS_CLEAR: empty the output box.
ClearOutput ==
    /\ dlg = "Idle"
    /\ report # <<>>
    /\ report' = <<>>
    /\ UNCHANGED <<dlg, luaStack, scriptCnt, i, passCnt, failCnt, errorCnt, progress, batches>>

\* IDC_TESTSCRIPTS_RUN, TestScriptDlgRun up to the loop: with no script
\* selected it returns at once (no state changes); otherwise the tallies
\* start at zero and the loop starts at script 0.
StartBatch ==
    /\ dlg = "Idle"
    /\ batches < MaxBatches
    /\ \E n \in 1..MaxSelected : scriptCnt' = n
    /\ i' = 0
    /\ passCnt' = 0 /\ failCnt' = 0 /\ errorCnt' = 0
    /\ progress' = 0
    /\ dlg' = "Running"
    /\ batches' = batches + 1
    /\ UNCHANGED <<luaStack, report>>

\* Plausible bug: the last branch written as else-if (result == ERROR).
CountResultExact(r) ==
    /\ passCnt' = passCnt + (IF r = PASS THEN 1 ELSE 0)
    /\ failCnt' = failCnt + (IF r = FAIL THEN 1 ELSE 0)
    /\ errorCnt' = errorCnt + (IF r = ERROR THEN 1 ELSE 0)

\* The if / else-if / else tally: anything neither PASS nor FAIL is an error.
CountResult(r) ==
    /\ passCnt' = passCnt + (IF r = PASS THEN 1 ELSE 0)
    /\ failCnt' = failCnt + (IF r = FAIL THEN 1 ELSE 0)
    /\ errorCnt' = errorCnt + (IF r \notin {PASS, FAIL} THEN 1 ELSE 0)

\* Plausible bug: the loop bound written i <= scriptCnt.
LoopContinuesInclusive == i <= scriptCnt

\* TestScriptDlgRun's loop condition.
LoopContinues == i < scriptCnt

\* One turn of TestScriptDlgRun's loop: SetProgress(i, scriptCnt), run the
\* script, print scriptResultStrTbl[result] and tally it.  For a result of
\* 3 or more the table read is out of bounds (and the else branch's
\* assert fails in a debug build): the process may crash, or print
\* whatever the read produced and go on into the else branch.
RunScript ==
    /\ dlg = "Running"
    /\ LoopContinues
    /\ \E o \in Outcomes :
         LET r == ExecuteScript(luaStack, o) IN
         /\ luaStack' = StackAfter(luaStack, o)
         /\ report' = Append(report, [outcome |-> o, result |-> r])
         /\ progress' = i
         /\ \/ /\ dlg' = "Running"
               /\ CountResult(r)
               /\ i' = i + 1
            \/ /\ r = OutOfRange
               /\ dlg' = "Crashed"
               /\ UNCHANGED <<passCnt, failCnt, errorCnt, i>>
    /\ UNCHANGED <<scriptCnt, batches>>

\* After the loop: SetProgress(scriptCnt, scriptCnt); Run returns.
FinishBatch ==
    /\ dlg = "Running"
    /\ ~LoopContinues
    /\ progress' = scriptCnt
    /\ dlg' = "Idle"
    /\ UNCHANGED <<luaStack, scriptCnt, i, passCnt, failCnt, errorCnt, report, batches>>

\* A crashed debugger does nothing more.
Crashed ==
    /\ dlg = "Crashed"
    /\ UNCHANGED vars

\* The user stops clicking Run once the session's batches are used up.
SessionOver ==
    /\ dlg \in {"Idle", "Closed"}
    /\ batches = MaxBatches
    /\ UNCHANGED vars

Init ==
    /\ dlg = "Closed"
    /\ luaStack = <<>>
    /\ scriptCnt = 0
    /\ i = 0
    /\ passCnt = 0 /\ failCnt = 0 /\ errorCnt = 0
    /\ progress = 0
    /\ report = <<>>
    /\ batches = 0

Next ==
    \/ OpenDialog \/ CloseDialog \/ ClearOutput
    \/ StartBatch \/ RunScript \/ FinishBatch
    \/ Crashed \/ SessionOver

Spec == Init /\ [][Next]_vars

-----------------------------------------------------------------------------
(* Properties                                                              *)

TypeOK ==
    /\ dlg \in {"Closed", "Idle", "Running", "Crashed"}
    /\ luaStack \in Seq(Number)
    /\ scriptCnt \in 0..MaxSelected
    /\ i \in 0..scriptCnt
    /\ {passCnt, failCnt, errorCnt} \subseteq 0..MaxSelected
    /\ progress \in 0..scriptCnt
    /\ report \in Seq([outcome : Outcomes, result : Number])
    /\ batches \in 0..MaxBatches

\* The tallies TestScriptDlgSetResults shows add up to the scripts the
\* loop has run, even when a script returns a number outside 0..2.
TalliesAddUp == passCnt + failCnt + errorCnt = i

\* A script that raises an error or returns a value is recorded with the
\* verdict that value (or the error) gives it, whatever the scripts before
\* it left on the shared lua stack.
ReturnedVerdictIsOwn ==
    \A k \in 1..Len(report) :
        (report[k].outcome.err \/ report[k].outcome.rets # <<>>)
            => report[k].result = FreshVerdict(report[k].outcome)

\* Every script's verdict is its own: the one it gets when it is run alone
\* in a fresh lua state, independent of the scripts run before it.
VerdictIsOwn ==
    \A k \in 1..Len(report) : report[k].result = FreshVerdict(report[k].outcome)

=============================================================================
