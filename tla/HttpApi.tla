------------------------------ MODULE HttpApi -------------------------------
(***************************************************************************)
(* The northbound HTTP surface (adapters/http_api/routers): which          *)
(* permission each endpoint asks of the caller's role before it runs its   *)
(* use case.                                                               *)
(*                                                                         *)
(* An endpoint is known by its handler.  What a handler does beyond the    *)
(* check - building the command, calling the use case, rendering the       *)
(* answer - is the use case's action in the module of its component.       *)
(***************************************************************************)
EXTENDS Access

\* NULL is no permission: who needs none is told apart from all others.
ASSUME SurfaceAssumption == None \notin AllPermissions

Endpoints(permission, changes, handlers) ==
    {[handler |-> h, permission |-> permission, changes |-> changes] : h \in handlers}

Shows(permission, handlers) == Endpoints(permission, FALSE, handlers)
Changes(permission, handlers) == Endpoints(permission, TRUE, handlers)

-----------------------------------------------------------------------------
(* Networks, nodes, IPAM. *)

NetworkEndpoints ==
    Shows("network:read", {"list_networks", "get_network"})
    \cup Changes("network:write", {"create_network", "update_network", "assign_nodes"})
    \cup Changes("network:apply", {"apply_network"})

NodeEndpoints ==
    Shows("node:read", {"list_nodes", "get_node"})
    \cup Changes("node:write", {"register_node"})
    \cup Changes("node:admin", {"delete_node", "issue_enrollment_token", "enter_maintenance",
                                "exit_maintenance"})

SubnetEndpoints ==
    Shows("ipam:read", {"list_subnets", "get_subnet", "list_allocations"})
    \cup Changes("ipam:write", {"upsert_subnet", "create_allocation"})

AllocationEndpoints ==
    Shows("ipam:read", {"get_allocation"}) \cup Changes("ipam:write", {"release_allocation"})

-----------------------------------------------------------------------------
(* Accounts, projects, operation of the controller. *)

AccountEndpoints ==
    Shows("service_account:read", {"list_service_accounts", "get_service_account"})
    \cup Changes("service_account:write", {"create_service_account", "disable_service_account"})
    \cup Shows("service_token:read", {"list_service_tokens"})
    \cup Changes("service_token:write", {"issue_service_token"})

TokenEndpoints == Changes("service_token:write", {"revoke_service_token"})

ProjectEndpoints ==
    Shows("project:read", {"list_projects", "get_project", "list_members"})
    \cup Changes("project:write", {"create_project", "update_project"})
    \cup Changes("project:admin", {"delete_project", "add_member", "remove_member"})

WebhookEndpoints ==
    Shows("webhook:read", {"list_webhooks", "get_webhook"})
    \cup Changes("webhook:write", {"create_webhook", "delete_webhook"})

EventEndpoints == Shows("webhook:read", {"get_snapshot", "list_events"})

OperationEndpoints == Shows("operation:read", {"list_operations", "get_operation", "get_operation_events"})

AuditEndpoints == Shows("audit:read", {"list_audit_events"})

TopologyEndpoints == Shows("topology:read", {"get_topology"}) \cup Shows("drift:read", {"scan_drift"})

BackupEndpoints == Shows("backup:export", {"export_bundle"}) \cup Changes("backup:import", {"import_bundle"})

NodeSnapshotEndpoints ==
    Shows("snapshot:read", {"list_node_snapshots"})
    \cup Changes("snapshot:write", {"take_node_snapshot", "restore_node_snapshot"})

\* No permission: an agent is let in by its enrollment or session token.
AgentEndpoints == Changes(None, {"enroll", "heartbeat"})

HealthEndpoints == Shows(None, {"health", "livez", "readyz", "version"})

-----------------------------------------------------------------------------
(* The resources of N1 to N5: network:read to look, network:write to change. *)

Resource(shows, changes) == Shows("network:read", shows) \cup Changes("network:write", changes)

LogicalPortEndpoints ==
    Resource({"list_logical_ports", "get_logical_port"},
             {"create_logical_port", "update_logical_port", "attach_logical_port",
              "detach_logical_port", "delete_logical_port"})

SecurityGroupEndpoints ==
    Resource({"list_security_groups", "get_security_group", "list_sg_members"},
             {"create_security_group", "update_security_group", "delete_security_group",
              "add_sg_member", "remove_sg_member"})

AddressPoolEndpoints ==
    Resource({"list_address_pools", "get_address_pool"},
             {"create_address_pool", "update_address_pool", "delete_address_pool"})

ServiceObjectEndpoints ==
    Resource({"list_service_objects", "get_service_object"},
             {"create_service_object", "update_service_object", "delete_service_object"})

QosPolicyEndpoints ==
    Resource({"list_qos_policies", "get_qos_policy"},
             {"create_qos_policy", "update_qos_policy", "delete_qos_policy"})

PolicyEndpoints ==
    Resource({"list_security_policies", "get_security_policy"},
             {"create_security_policy", "update_security_policy", "delete_security_policy"})

PolicyRuleEndpoints ==
    Resource({}, {"add_policy_rule", "remove_policy_rule", "compile_security_policy",
                  "apply_security_policy"})

TrunkPortEndpoints ==
    Resource({"list_trunk_ports", "get_trunk_port"},
             {"create_trunk_port", "update_trunk_port", "delete_trunk_port"})

RouterEndpoints ==
    Resource({"list_routers", "get_router"}, {"create_router", "update_router", "delete_router"})

RouterPartEndpoints ==
    Resource({}, {"add_static_route", "remove_static_route", "add_internal_network",
                  "remove_internal_network", "apply_router", "set_router_admin_state"})

FloatingIpEndpoints ==
    Resource({"list_floating_ips", "get_floating_ip"},
             {"allocate_floating_ip", "associate_floating_ip", "disassociate_floating_ip",
              "release_floating_ip"})

BgpPeerEndpoints ==
    Resource({"list_bgp_peers", "get_bgp_peer"},
             {"create_bgp_peer", "delete_bgp_peer", "update_bgp_peer_state"})

QuotaEndpoints == Resource({"get_quota", "check_usage"}, {"set_quota", "delete_quota"})

PreflightEndpoints == Resource({"preflight_router_handler"}, {})

ResourceSnapshotEndpoints ==
    Resource({"list_snapshots", "get_snapshot"}, {"create_snapshot", "delete_snapshot"})

BondEndpoints ==
    Resource({"list_bonds", "get_bond"}, {"create_bond", "update_bond", "delete_bond", "apply_bond"})

RetentionEndpoints ==
    Resource({"list_retention_policies", "get_retention_policy"},
             {"set_retention_policy", "delete_retention_policy"})

BalancerEndpoints ==
    Resource({"list_lbs", "get_lb"},
             {"create_lb", "update_lb", "delete_lb", "apply_lb", "set_lb_admin_state"})

ListenerEndpoints ==
    Resource({"list_listeners", "get_listener"}, {"create_listener", "update_listener", "delete_listener"})

PoolEndpoints == Resource({"list_pools", "get_pool"}, {"create_pool", "update_pool", "delete_pool"})

BackendEndpoints == Resource({"list_members", "get_member"}, {"add_member", "update_member", "remove_member"})

MonitorEndpoints == Resource({"get_monitor"}, {"create_monitor", "update_monitor", "delete_monitor"})

ScheduleEndpoints ==
    Resource({"list_schedules", "get_schedule"},
             {"create_schedule", "update_schedule", "delete_schedule", "toggle_schedule"})

MirrorEndpoints ==
    Resource({"list_mirror_sessions", "get_mirror_session"},
             {"create_mirror_session", "delete_mirror_session", "apply_mirror_session"})

TunnelEndpoints ==
    Resource({"list_vpn_tunnels", "get_vpn_tunnel"},
             {"create_vpn_tunnel", "update_vpn_tunnel", "delete_vpn_tunnel", "apply_vpn_tunnel"})

VpnPeerEndpoints ==
    Resource({"list_vpn_peers", "get_vpn_peer"}, {"add_vpn_peer", "update_vpn_peer", "delete_vpn_peer"})

-----------------------------------------------------------------------------
\* N1 to N5.
ResourceEndpoints ==
    UNION {LogicalPortEndpoints, SecurityGroupEndpoints, AddressPoolEndpoints, ServiceObjectEndpoints,
           QosPolicyEndpoints, PolicyEndpoints, PolicyRuleEndpoints, TrunkPortEndpoints, RouterEndpoints,
           RouterPartEndpoints, FloatingIpEndpoints, BgpPeerEndpoints, QuotaEndpoints, PreflightEndpoints,
           ResourceSnapshotEndpoints, BondEndpoints, RetentionEndpoints, BalancerEndpoints,
           ListenerEndpoints, PoolEndpoints, BackendEndpoints, MonitorEndpoints, ScheduleEndpoints,
           MirrorEndpoints, TunnelEndpoints, VpnPeerEndpoints}

\* What create_app includes.
Surface ==
    UNION {NetworkEndpoints, NodeEndpoints, SubnetEndpoints, AllocationEndpoints, AccountEndpoints,
           TokenEndpoints, ProjectEndpoints, WebhookEndpoints, EventEndpoints, OperationEndpoints,
           AuditEndpoints, TopologyEndpoints, BackupEndpoints, NodeSnapshotEndpoints, AgentEndpoints,
           HealthEndpoints, ResourceEndpoints}

\* NULL: the endpoint asks for no permission.
May(role, e) == e.permission = None \/ e.permission \in RolePermissions[role]

-----------------------------------------------------------------------------
(* Properties. *)

\* What the user guide gives to operators (docs/user-guide.md:313-316): networks,
\* with the resources of N1 to N5 that came after it, and IPAM.
Operated == UNION {NetworkEndpoints, SubnetEndpoints, AllocationEndpoints, ResourceEndpoints}

\* What it shows to everybody.
Public == Operated \cup UNION {NodeEndpoints, OperationEndpoints, TopologyEndpoints}

\* What it keeps for administrators.
Reserved == UNION {AccountEndpoints, TokenEndpoints, AuditEndpoints, BackupEndpoints}

\* Every endpoint that asks for a permission is open to the roles that the user
\* guide names and to no other; each picks its permission by hand.  An admin may
\* call all; an operator, or automation, changes what is operated, and beyond the
\* guide registers nodes and opens projects; a viewer changes nothing, and sees
\* what is public.  The guide is silent on who sees projects, webhooks, events and
\* node snapshots.
RolesAsDocumented ==
    \A e \in Surface : e.permission # None =>
        /\ May("admin", e)
        /\ May("automation", e) <=> May("network_operator", e)
        /\ e \in Operated => May("network_operator", e)
        /\ e.changes /\ May("network_operator", e) =>
             e \in Operated \/ e.handler \in {"register_node", "create_project", "update_project"}
        /\ May("viewer", e) => ~ e.changes
        /\ e \in Public /\ ~ e.changes => May("viewer", e)
        /\ e \in Reserved => ~ May("viewer", e) /\ ~ May("network_operator", e)

=============================================================================
