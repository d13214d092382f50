\* One thread, two agents, one message per edge: nobody competes for the lock.
SPECIFICATION AgentsSpec
CONSTANTS
    AgentIds = {a1, a2}
    Callers = {c1}
    MaxRecorded = 1
PROPERTY SummaryReturns
CHECK_DEADLOCK FALSE
