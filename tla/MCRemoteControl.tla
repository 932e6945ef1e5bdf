-------------------------- MODULE MCRemoteControl --------------------------
\* RemoteControl with short chats - a resume taken back, a pause and a
\* stranger who would like to resume, one decision - and losing closes of
\* one unit.
EXTENDS RemoteControl

Owner(command) == [from |-> "owner", command |-> command]
Stranger == [from |-> "stranger", command |-> "resume"]

MCChats == {<<Owner("resume"), Owner("pause")>>,
            <<Owner("pause"), Stranger>>,
            <<Owner("approve")>>,
            <<Owner("reject")>>}

MCPnls == {-1}
=============================================================================
