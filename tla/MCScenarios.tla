----------------------------- MODULE MCScenarios -----------------------------
(* Several instances of MemGraph in one run: Init picks a scenario, which     *)
(* fixes the lock strategies, the calls and the bounds of the behaviour.      *)
EXTENDS MCMemGraph

VARIABLE scenario

\* Clients one call at a time, with garbage collection.
Both == INSTANCE MemGraph WITH
    Strategy <- Mixed, Stored <- {v1}, MaxCalls <- 2, MaxWrites <- 1,
    Calls <- {"create", "set", "abort"}
Cascading == INSTANCE MemGraph WITH
    Strategy <- AllPessimistic, Stored <- Vertices, MaxCalls <- 2, MaxWrites <- 2,
    Calls <- {"create", "set", "delete"}
Deleting == INSTANCE MemGraph WITH
    Strategy <- AllOptimistic, Stored <- Records, MaxCalls <- 2, MaxWrites <- 2,
    Calls <- {"set", "delete"}

ClientsInit == \/ scenario = "both" /\ Both!Init
               \/ scenario = "cascading" /\ Cascading!Init
               \/ scenario = "deleting" /\ Deleting!Init
ClientsNext == \/ scenario = "both" /\ Both!Next /\ UNCHANGED scenario
               \/ scenario = "cascading" /\ Cascading!Next /\ begun' <= 2 /\ UNCHANGED scenario
               \/ scenario = "deleting" /\ Deleting!Next /\ begun' <= 2 /\ UNCHANGED scenario
ClientsSpec == ClientsInit /\ [][ClientsNext]_<<vars, scenario>>

\* Serializable clients one call at a time, and threads whose calls overlap, all of the same
\* strategy.
Validating == INSTANCE MemGraph WITH
    Strategy <- AllPessimistic, Serialized <- TRUE, MaxCalls <- 3, MaxWrites <- 1,
    Calls <- {"create", "set", "delete", "read"}
Locking == INSTANCE MemGraph WITH
    Strategy <- AllPessimistic, Stored <- {v1}, MaxCalls <- 1, MaxWrites <- 1
Staging == INSTANCE MemGraph WITH
    Strategy <- AllOptimistic, MaxCalls <- 2, MaxWrites <- 2

ThreadsInit == \/ scenario = "validating" /\ Validating!Init
               \/ scenario = "locking" /\ Locking!Init
               \/ scenario = "staging" /\ Staging!Init
ThreadsNext == \/ scenario = "validating" /\ Validating!Next /\ begun' <= 2 /\ UNCHANGED scenario
               \/ scenario = "locking" /\ Locking!Next /\ UNCHANGED scenario
               \/ scenario = "staging" /\ Staging!Next /\ begun' <= 2 /\ UNCHANGED scenario
ThreadsSpec == ThreadsInit /\ [][ThreadsNext]_<<vars, scenario>>
=============================================================================
