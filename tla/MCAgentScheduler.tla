-------------------------- MODULE MCAgentScheduler --------------------------
(* Small instances of AgentScheduler for TLC. *)
EXTENDS AgentScheduler, TLC

CONSTANTS a1, a2, w1, r1

Request(task, parent, strategy, caps) ==
    [spec |-> [task |-> task, parent |-> parent, workspace |-> w1,
               strategy |-> strategy, route |-> r1],
     caps |-> caps]

(* Two readers, as the first release dispatches them. *)
ReaderRequests ==
    {Request("scan", Root, "read_only", {"read", "navigate"}),
     Request("review", Root, "read_only", {"read"})}

(* Two writers of one shared workspace. *)
WriterRequests ==
    {Request("fix", Root, "shared", {"read", "write"}),
     Request("port", Root, "shared", {"read", "write"})}

(* The two agents are interchangeable where no request names one as parent. *)
Symmetry == Permutations(Agents)
=============================================================================
