------------------------------ MODULE RemoteExec ------------------------------
(***************************************************************************)
(* What ssh_exec promises its caller, whatever the network does: a command *)
(* starts at most once on the server, and success is reported only for a   *)
(* command that ran.  A reported failure promises nothing: the command may *)
(* have run, and a command that timed out may even start afterwards.       *)
(***************************************************************************)
EXTENDS Naturals

CONSTANT Calls      \* the calls of ssh_exec

VARIABLES
    runs,           \* how many times the command of each call has started
    reply           \* what the tool answered

Init ==
    /\ runs = [c \in Calls |-> 0]
    /\ reply = [c \in Calls |-> "none"]

Run(c) ==
    /\ runs[c] = 0
    /\ reply[c] # "ok"
    /\ runs' = [runs EXCEPT ![c] = 1]
    /\ UNCHANGED reply

ReplyOk(c) ==
    /\ reply[c] = "none"
    /\ runs[c] = 1
    /\ reply' = [reply EXCEPT ![c] = "ok"]
    /\ UNCHANGED runs

ReplyFailed(c) ==
    /\ reply[c] = "none"
    /\ reply' = [reply EXCEPT ![c] = "failed"]
    /\ UNCHANGED runs

Next == \E c \in Calls : Run(c) \/ ReplyOk(c) \/ ReplyFailed(c)

Spec == Init /\ [][Next]_<<runs, reply>>
=============================================================================
