------------------------------- MODULE Registry -------------------------------
(***************************************************************************)
(* What the configuration file is for: a registry of entries to which      *)
(* every edit is applied at once and as a whole.  Nothing is promised once *)
(* two edits have overlapped or one was cut short.                         *)
(***************************************************************************)
EXTENDS ConfigEdits

CONSTANT Editors    \* command invocations and tool calls that edit

VARIABLES
    task,           \* what each editor was asked to do
    registry,       \* the configuration
    finished,       \* the editors that are done
    disturbed       \* edits have overlapped, or one was cut short

Init ==
    /\ task \in [Editors -> Task]
    /\ registry \in Config
    /\ finished = {}
    /\ ~disturbed

Apply(e) ==
    /\ ~Rejected(task[e], registry)
    /\ registry' = Edited(task[e], registry)

Refuse(e) ==
    /\ \/ Rejected(task[e], registry)
       \/ registry = EmptyConfig /\ ~StartsFromNothing(task[e])
    /\ UNCHANGED registry

Finish(e) ==
    /\ ~disturbed'
    /\ e \notin finished
    /\ finished' = finished \union {e}
    /\ Apply(e) \/ Refuse(e)
    /\ UNCHANGED <<task, disturbed>>

\* A disturbance, and whatever follows it.
Disturbed == disturbed' /\ UNCHANGED task

Next == (\E e \in Editors : Finish(e)) \/ Disturbed

Spec == Init /\ [][Next]_<<task, registry, finished, disturbed>>
=============================================================================
