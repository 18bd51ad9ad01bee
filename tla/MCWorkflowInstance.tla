------------------------- MODULE MCWorkflowInstance -------------------------
EXTENDS WorkflowInstance

\* One branch waits for a signal and then for a person, the other for a timer.
TwoLanes == [lane \in {"a", "b", "root"} |->
    CASE lane = "a" -> <<"signal", "task">> [] lane = "b" -> <<"timer">>
      [] lane = "root" -> <<"task", "signal">>]
=============================================================================
