---------------------------- MODULE MCPrecision ----------------------------
\* Instances of Precision: tasks on threads of their own, or on one thread.
EXTENDS Precision

MCOwnThread == [t \in Tasks |-> t]
MCOneThread == [t \in Tasks |-> CHOOSE th \in Threads : TRUE]
MCDigitsOf == [c \in Contexts |-> 7 + c]
=============================================================================
