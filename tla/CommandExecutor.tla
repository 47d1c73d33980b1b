-------------------------- MODULE CommandExecutor --------------------------
(***************************************************************************)
(* What the nesdbg script library promises a script (spec.md, Script       *)
(* Bridge and Command Executor), with the serial link abstracted away.     *)
(* A debugger process first connects to the device; then the script makes  *)
(* one call at a time, each with a fresh id.  A call that reads blocks     *)
(* until it returns, and the answer it returns is its own: the bytes the   *)
(* device sent for that call.  WaitForHlt polls and returns only while the *)
(* CPU is halted.  The CPU's halt state is changed by the device alone.    *)
(* The process may be killed at any point and started again.               *)
(***************************************************************************)
EXTENDS Naturals

CONSTANTS
    CallOps,    \* the library calls a script makes, WaitForHlt included
    ReadOps     \* the calls that return data: every other kind answers nothing

ASSUME ReadOps \subseteq CallOps /\ "WaitForHlt" \in ReadOps

VARIABLES
    pc,         \* "Start" (connecting), "Idle", "Busy" (in a read call), "Done" or "Failed"
    current,    \* the call made last: [id, op]
    answer,     \* the last answer handed back: [id, own]
    halted,     \* the NES CPU is halted
    issued      \* the id the next packet gets

vars == <<pc, current, answer, halted, issued>>

NoCall == [id |-> 0, op |-> "None"]
NoAnswer == [id |-> 0, own |-> TRUE]

Init ==
    /\ pc = "Start"
    /\ current = NoCall
    /\ answer = NoAnswer
    /\ halted \in BOOLEAN
    /\ issued = 1

\* The connection check sends a packet of its own.
Probe ==
    /\ pc = "Start"
    /\ issued' = issued + 1
    /\ UNCHANGED <<pc, current, answer, halted>>

\* The connection is established or refused.
Connect ==
    /\ pc = "Start"
    /\ pc' \in {"Idle", "Failed"}
    /\ UNCHANGED <<current, answer, halted, issued>>

\* The script makes a call; one that reads data blocks.
Issue ==
    /\ pc = "Idle"
    /\ \E o \in CallOps :
         /\ current' = [id |-> issued, op |-> o]
         /\ pc' = IF o \in ReadOps THEN "Busy" ELSE "Idle"
    /\ issued' = issued + 1
    /\ UNCHANGED <<answer, halted>>

\* WaitForHlt gets an answer of its own and polls again.
Poll ==
    /\ pc = "Busy"
    /\ current.op = "WaitForHlt"
    /\ answer' = [id |-> current.id, own |-> TRUE]
    /\ UNCHANGED <<pc, current, halted, issued>>

\* A read call returns its own answer; WaitForHlt only on a halted CPU.
Return ==
    /\ pc = "Busy"
    /\ current.op = "WaitForHlt" => halted
    /\ answer' = [id |-> current.id, own |-> TRUE]
    /\ pc' = "Idle"
    /\ UNCHANGED <<current, halted, issued>>

\* The device halts or resumes the CPU.
Device ==
    /\ halted' \in BOOLEAN
    /\ UNCHANGED <<pc, current, answer, issued>>

\* The script ends.
Finish ==
    /\ pc = "Idle"
    /\ pc' = "Done"
    /\ UNCHANGED <<current, answer, halted, issued>>

\* The process ends and a new one starts.
Restart ==
    /\ pc # "Start"
    /\ pc' = "Start"
    /\ current' = NoCall
    /\ answer' = NoAnswer
    /\ UNCHANGED <<halted, issued>>

Next == Probe \/ Connect \/ Issue \/ Poll \/ Return \/ Device \/ Finish \/ Restart

\* A call other than WaitForHlt returns once made.
ReadReturns == Return /\ current.op # "WaitForHlt"

Spec == Init /\ [][Next]_vars /\ WF_vars(ReadReturns)

=============================================================================
