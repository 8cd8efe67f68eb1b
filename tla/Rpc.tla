----------------------------------- MODULE Rpc -----------------------------------
(***************************************************************************)
(* The generated gRPC code (proto/systemtestrs/src/lib.rs, and the         *)
(* runner's stubs in proto/systemtestpb/systemtest_grpc.pb.go): the path   *)
(* each client stub calls, and the method of the service a server calls    *)
(* for a path. A path is named by its last part; the services have no      *)
(* socket in common. A server answers UNIMPLEMENTED to a path it has no    *)
(* method for.                                                             *)
(***************************************************************************)

CoordinatorServiceClient ==
    [take_lease |-> "TakeLease", keepalive |-> "Keepalive",
     release_lease |-> "ReleaseLease", status |-> "Status"]

\* Fault: ReleaseLease is routed to the method of the block it was copied from.
CoordinatorServiceServerCopied ==
    [TakeLease |-> "take_lease", Keepalive |-> "keepalive",
     ReleaseLease |-> "keepalive", Status |-> "status"]

CoordinatorServiceServer ==
    [TakeLease |-> "take_lease", Keepalive |-> "keepalive",
     ReleaseLease |-> "release_lease", Status |-> "status"]

CoordinatorPluginClient ==
    [describe_plugin |-> "DescribePlugin",
     get_resource_pool |-> "GetResourcePool",
     get_resource_requests |-> "GetResourceRequests",
     create_fixture |-> "CreateFixture",
     destroy_fixture |-> "DestroyFixture", health_check |-> "HealthCheck"]

CoordinatorPluginServer ==
    [DescribePlugin |-> "describe_plugin",
     GetResourcePool |-> "get_resource_pool",
     GetResourceRequests |-> "get_resource_requests",
     CreateFixture |-> "create_fixture",
     DestroyFixture |-> "destroy_fixture", HealthCheck |-> "health_check"]

\* The method of the service that handles a call of a stub.
Handler(client, server, stub) ==
    IF client[stub] \in DOMAIN server THEN server[client[stub]] ELSE "unimplemented"
================================================================================
