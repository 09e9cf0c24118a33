-------------------------- MODULE DeploymentTopology ---------------------------
(***************************************************************************)
(* From what a scan collects on a server to the deployments on display and *)
(* the changes between two scans: normalizers.ts, inferrer.ts,             *)
(* clusterer.ts, insights.ts, health.ts, diff.ts (services/deployments).   *)
(*                                                                         *)
(* These are pure functions of the collected facts.  The machine around    *)
(* them changes a small server step by step and scans it, so that the      *)
(* functions meet every server within reach and every pair of scans.       *)
(* Left out: certificates, static files and Unix sockets (leaves of the    *)
(* graph), failing units, several listeners on one port.                   *)
(***************************************************************************)
EXTENDS Null, Naturals, Sequences, FiniteSets, FiniteSetsExt

CONSTANTS
    Domain, Block,          \* server names, nginx server blocks
    BackendPort,            \* ports applications listen on
    Container, Project,     \* containers and compose projects, by their names
    Network,                \* docker networks other than the default ones
    MaxChanges              \* bound: changes of the server

ASSUME TpBoundAssumption == MaxChanges \in Nat

VARIABLES
    tpServer,      \* the facts a scan would collect now
    tpRecorded,    \* the facts behind the last recorded snapshot
    tpChanges,     \* changes of the server so far
    tpRestarted    \* since that snapshot processes were restarted, nothing else (history)

tpVars == <<tpServer, tpRecorded, tpChanges, tpRestarted>>

(***************************************************************************)
(* What a scan collects.  A port is free, or a process holds it: nginx     *)
(* (the web port), an application, or docker for a running container that  *)
(* publishes it - unless docker runs without its userland proxy.           *)
(***************************************************************************)
Web == "web"
ListenPort == BackendPort \cup {Web}
Free == [comm |-> "none", pid |-> 0, at |-> "any"]
NoBlock == [names |-> {}, proxy |-> None]
NoContainer == [state |-> "absent", group |-> <<>>, ports |-> {}]
Group == {<<>>} \cup ({"compose"} \X Project) \cup ({"network"} \X Network)

Containers(server) == {c \in Container : server.containers[c].state # "absent"}
Blocks(server) == {b \in Block : server.blocks[b].names # {}}
Listening(server) == {p \in ListenPort : server.listeners[p].comm # "none"}
Proxied(server) == {server.blocks[b].proxy : b \in Blocks(server)} \ {None}
Grouped(server, group) == {c \in Containers(server) : server.containers[c].group = group}
Projects(server) == {x \in Project : Grouped(server, <<"compose", x>>) # {}}

(***************************************************************************)
(* Ids.  The id of a port names the address its listener is bound to; a    *)
(* backend nobody listens on is looked for on the loopback address.        *)
(***************************************************************************)
Kind(id) == id[1]
DomainId(d) == <<"domain", d>>
SiteId(b) == <<"nginx_site", b>>
PortId(server, p) ==
    <<"port", p, IF p \in Listening(server) THEN server.listeners[p].at ELSE "local">>
ProcessId(server, p) == <<"process", p, server.listeners[p].pid>>
UnitId(server, p) == <<"systemd_unit", server.listeners[p].comm>>
ContainerId(c) == <<"docker_container", c>>
ComposeId(x) == <<"docker_compose_service", x>>

(***************************************************************************)
(* normalizeEntities, ensurePortEntity: status and sourceRef by id.        *)
(***************************************************************************)
Rank == [healthy |-> 0, discovering |-> 1, unknown |-> 2, degraded |-> 3, failed |-> 4]
Worst(statuses) == CHOOSE s \in statuses : \A t \in statuses : Rank[t] <= Rank[s]

ContainerStatus(state) == IF state = "exited" THEN "failed" ELSE "healthy"

StatusOf(server, id) ==
    CASE Kind(id) = "nginx_site" -> IF Web \in Listening(server) THEN "healthy" ELSE "degraded"
      [] Kind(id) = "port" -> IF id[2] \in Listening(server) THEN "healthy" ELSE "failed"
      [] Kind(id) = "docker_container" -> ContainerStatus(server.containers[id[2]].state)
      [] Kind(id) = "docker_compose_service" ->
             Worst({ContainerStatus(server.containers[c].state) :
                    c \in Grouped(server, <<"compose", id[2]>>)})
      [] OTHER -> "healthy"

SourceOf(server, id) ==
    CASE Kind(id) = "port" -> Tail(id)
      [] Kind(id) = "docker_container" ->
             <<server.containers[id[2]].state>> \o server.containers[id[2]].group
      [] Kind(id) = "process" -> <<server.listeners[id[2]].comm>>
      [] OTHER -> <<>>

Normalized(server) ==
    LET ids == {DomainId(d) : d \in UNION {server.blocks[b].names : b \in Block}}
               \cup {SiteId(b) : b \in Blocks(server)}
               \cup {PortId(server, p) : p \in Listening(server) \cup Proxied(server)}
               \cup {ProcessId(server, p) : p \in Listening(server)}
               \cup {UnitId(server, p) : p \in Listening(server)}
               \cup {ContainerId(c) : c \in Containers(server)}
               \cup {ComposeId(x) : x \in Projects(server)}
    IN [id \in ids |-> [status |-> StatusOf(server, id), source |-> SourceOf(server, id)]]

(***************************************************************************)
(* inferRelationships: the id of a relationship is its type and its ends.  *)
(***************************************************************************)
Link(type, from, to) == [type |-> type, from |-> from, to |-> to]

\* A published port is linked by its listener, or by docker ps when the port is known
\* from a proxy_pass alone.
Published(server) ==
    {x \in BackendPort \X Containers(server) :
        /\ x[1] \in Listening(server) \cup Proxied(server)
        /\ server.containers[x[2]].state = "running" /\ x[1] \in server.containers[x[2]].ports}

Relationships(server) ==
    UNION {{Link("serves", DomainId(d), SiteId(b)) : d \in server.blocks[b].names} : b \in Block}
    \cup {Link("listens_on", SiteId(b), PortId(server, Web)) :
              b \in {x \in Blocks(server) : Web \in Listening(server)}}
    \cup {Link("proxies_to", SiteId(b), PortId(server, server.blocks[b].proxy)) :
              b \in {x \in Blocks(server) : server.blocks[x].proxy # None}}
    \cup {Link("bound_to", PortId(server, p), ProcessId(server, p)) : p \in Listening(server)}
    \cup {Link("managed_by", ProcessId(server, p), UnitId(server, p)) : p \in Listening(server)}
    \cup {Link("published_by", PortId(server, x[1]), ContainerId(x[2])) : x \in Published(server)}
    \cup UNION {{Link("member_of", ContainerId(c), ComposeId(x)) :
                     c \in Grouped(server, <<"compose", x>>)} : x \in Projects(server)}

(***************************************************************************)
(* applyEntityHealth: a failed port fails what it leads to, a failed       *)
(* container the ports it publishes.                                       *)
(***************************************************************************)
WithHealth(entities, links) ==
    LET Failing(table, ids) == [id \in DOMAIN table |->
            IF id \in ids THEN [table[id] EXCEPT !.status = "failed"] ELSE table[id]]
        Failed(table) == {id \in DOMAIN table : table[id].status = "failed"}
        down == Failing(entities,
                    {l.to : l \in {k \in links : /\ k.type \in {"published_by", "bound_to"}
                                                 /\ k.from \in Failed(entities)}})
    IN Failing(down, {l.from : l \in {k \in links : /\ k.type = "published_by"
                                                    /\ k.to \in Failed(down)}})

(***************************************************************************)
(* clusterDeployments.                                                     *)
(***************************************************************************)
\* Breadth-first search: what is reached from the seeds, entering only some entities
\* and going on only from some.
Ends(links) == UNION {{l.from, l.to} : l \in links}

Reached(seeds, links, entered, passed) ==
    LET Further(set) == set \cup {id \in entered :
            \E l \in links : \/ l.from = id /\ l.to \in set \cap passed
                             \/ l.to = id /\ l.from \in set \cap passed}
        round[n \in Nat] == IF n = 0 THEN seeds ELSE Further(round[n - 1])
    IN round[Cardinality(links)]

\* nginxSitesForDomain: the sites that proxy somewhere, if there are any.
SitesFor(d, links) ==
    LET sites == {l.to : l \in {k \in links : k.type = "serves" /\ k.from = DomainId(d)}}
        apps == {s \in sites : \E l \in links : l.type = "proxies_to" /\ l.from = s}
    IN IF apps # {} THEN apps ELSE sites

\* collectRelatedEntityIds.
OfDomain(d, links) ==
    Reached({DomainId(d)}, links,
            {id \in Ends(links) : /\ Kind(id) # "domain"
                                  /\ Kind(id) = "nginx_site" => id \in SitesFor(d, links)},
            {id \in Ends(links) : Kind(id) \notin {"systemd_unit", "docker_compose_service"}})

\* collectContainerDeploymentEntities.
OfContainers(members, links) ==
    Reached({ContainerId(c) : c \in members}, links,
            {id \in Ends(links) : Kind(id) \notin {"domain", "nginx_site"}},
            {id \in Ends(links) : Kind(id) # "systemd_unit"})

Deployment(name, suffix, entry, entities) ==
    [id |-> <<name, suffix>>, entry |-> entry, entities |-> entities]

DomainDeployments(entities, links) ==
    {Deployment(id[2], 1, id, OfDomain(id[2], links)) :
        id \in {x \in DOMAIN entities : Kind(x) = "domain"}}

\* Compose projects, then networks, then containers on their own.
Cluster(name, members, entry) == [name |-> name, members |-> members, entry |-> entry]

Entry(members, links) ==
    LET ports == {l.from : l \in {k \in links : /\ k.type = "published_by"
                                                /\ \E c \in members : k.to = ContainerId(c)}}
    IN IF ports # {} THEN CHOOSE id \in ports : TRUE ELSE ContainerId(CHOOSE c \in members : TRUE)

Clusters(server, links) ==
    <<{Cluster(x, Grouped(server, <<"compose", x>>), ComposeId(x)) : x \in Projects(server)},
      {Cluster(x, Grouped(server, <<"network", x>>),
               Entry(Grouped(server, <<"network", x>>), links)) :
           x \in {n \in Network : Grouped(server, <<"network", n>>) # {}}},
      {Cluster(c, {c}, Entry({c}, links)) : c \in Grouped(server, <<>>)}>>

Footprint == {"docker_container", "port", "docker_compose_service"}

\* (mutant) A cluster is kept as long as one of its containers is free.
ClaimsForOne(cluster, claimed, links) ==
    \E c \in cluster.members : ContainerId(c) \notin claimed

\* A cluster is dropped when one of its containers, or of the ports and containers it
\* leads to, belongs to a deployment already.
Claims(cluster, claimed, links) ==
    /\ \A c \in cluster.members : ContainerId(c) \notin claimed
    /\ \A id \in OfContainers(cluster.members, links) : Kind(id) \in Footprint => id \notin claimed

Clustered(cluster, deployments, links) ==
    LET claimed == UNION {d.entities : d \in deployments}
        \* uniqueDeploymentId knows the ids given to containers only.
        taken == {d.id : d \in {x \in deployments : Kind(x.entry) # "domain"}}
        suffix == CHOOSE n \in 1..3 : /\ <<cluster.name, n>> \notin taken
                                      /\ \A m \in 1..(n - 1) : <<cluster.name, m>> \in taken
    IN IF Claims(cluster, claimed, links)
       THEN deployments \cup {Deployment(cluster.name, suffix, cluster.entry,
                                         OfContainers(cluster.members, links))}
       ELSE deployments

Deployments(server, entities, links) ==
    LET Add(cluster, deployments) == Clustered(cluster, deployments, links)
        clusters == Clusters(server, links)
        stage[n \in 0..3] == IF n = 0 THEN DomainDeployments(entities, links)
                             ELSE FoldSet(Add, stage[n - 1], clusters[n])
    IN stage[3]

(***************************************************************************)
(* computeDeploymentHealth: the worst along the way from the entrypoint to *)
(* the backend.                                                            *)
(***************************************************************************)
Around(deployment, links) == {l \in links : {l.from, l.to} \cap deployment.entities # {}}

\* deploymentSiteId: a proxying site first.
MainSite(deployment, links) ==
    LET served == {l.to : l \in {k \in links : k.type = "serves" /\ k.from = deployment.entry}}
        apps == {s \in served : \E l \in links : l.type = "proxies_to" /\ l.from = s}
    IN IF apps # {} THEN {CHOOSE s \in apps : TRUE}
       ELSE IF served # {} THEN {CHOOSE s \in served : TRUE} ELSE {}

From(ids, types, links) == {l.to : l \in {k \in links : k.type \in types /\ k.from \in ids}}

\* containerBackendPort.
ContainerPort(entry, links) ==
    LET containers == IF Kind(entry) = "docker_compose_service"
                      THEN {l.from : l \in {k \in links : k.type = "member_of" /\ k.to = entry}}
                      ELSE {entry}
        ports == {l.from : l \in {k \in links : k.type = "published_by" /\ k.to \in containers}}
    IN IF Kind(entry) = "port" THEN {entry}
       ELSE IF ports = {} THEN {} ELSE {CHOOSE id \in ports : TRUE}

Components(deployment, links) ==
    LET around == Around(deployment, links)
        site == MainSite(deployment, around)
        backend == IF site = {} THEN ContainerPort(deployment.entry, around)
                   ELSE From(site, {"proxies_to"}, around)
        container == From(backend, {"published_by"}, around)
        service == IF site = {} THEN {}
                   ELSE From(From(backend, {"bound_to"}, around), {"managed_by"}, around)
    IN site \cup backend \cup container \cup service

HealthOf(deployment, entities, links) ==
    LET statuses == {entities[id].status : id \in Components(deployment, links)}
    IN IF statuses = {} THEN "unknown" ELSE Worst(statuses)

(***************************************************************************)
(* buildTopologySnapshot: the entrypoints take the health of their         *)
(* deployments (syncEntrypointEntityHealth).                               *)
(***************************************************************************)
Snapshot(server) ==
    LET links == Relationships(server)
        entities == WithHealth(Normalized(server), links)
        deployments == Deployments(server, entities, links)
        Health(d) == HealthOf(d, entities, links)
        entries == {d.entry : d \in deployments}
    IN [links |-> links, deployments |-> deployments,
        health |-> [d \in deployments |-> Health(d)],
        entities |-> [id \in DOMAIN entities |->
            IF id \in entries
            THEN [entities[id] EXCEPT !.status = Health(CHOOSE d \in deployments : d.entry = id)]
            ELSE entities[id]]]

\* detectSharedBackends.
SharedBackends(snapshot) ==
    LET Using(p) == {d.id : d \in {x \in snapshot.deployments :
                        \E l \in Around(x, snapshot.links) : l.type = "proxies_to" /\ l.to[2] = p}}
    IN {[port |-> p, deployments |-> Using(p)] :
            p \in {q \in BackendPort : Cardinality(Using(q)) >= 2}}

(***************************************************************************)
(* diffTopology, filterProcessChurn, diffTopologyForDeployment.            *)
(***************************************************************************)
OwnersOf(snapshot, ids) == {d.id : d \in {x \in snapshot.deployments : x.entities \cap ids # {}}}

EntityChanges(before, after) ==
    {[kind |-> "added", id |-> id, was |-> <<>>, is |-> <<after.entities[id]>>,
      owners |-> OwnersOf(after, {id})] : id \in DOMAIN after.entities \ DOMAIN before.entities}
    \cup
    {[kind |-> "modified", id |-> id,
      was |-> <<before.entities[id]>>, is |-> <<after.entities[id]>>,
      owners |-> OwnersOf(after, {id})] :
        id \in {x \in DOMAIN after.entities \cap DOMAIN before.entities :
                    before.entities[x] # after.entities[x]}}
    \cup
    {[kind |-> "removed", id |-> id, was |-> <<before.entities[id]>>, is |-> <<>>,
      owners |-> OwnersOf(before, {id})] : id \in DOMAIN before.entities \ DOMAIN after.entities}

LinkChanges(before, after) ==
    {[kind |-> "linked", id |-> <<"link", l>>, was |-> <<>>, is |-> <<>>,
      owners |-> OwnersOf(after, {l.from, l.to})] : l \in after.links \ before.links}
    \cup
    {[kind |-> "unlinked", id |-> <<"link", l>>, was |-> <<>>, is |-> <<>>,
      owners |-> OwnersOf(before, {l.from, l.to})] : l \in before.links \ after.links}

Diff(before, after) == EntityChanges(before, after) \cup LinkChanges(before, after)

\* A process that goes while one of the same name comes is a restart.
WithoutChurn(changes) ==
    LET Comms(kind) == {(c.was \o c.is)[1].source :
                            c \in {x \in changes : x.kind = kind /\ Kind(x.id) = "process"}}
        churn == Comms("added") \cap Comms("removed")
    IN {c \in changes : ~(/\ Kind(c.id) = "process" /\ c.kind \in {"added", "removed"}
                          /\ (c.was \o c.is)[1].source \in churn)}

DiffFor(deployment, before, after) ==
    WithoutChurn({c \in Diff(before, after) : deployment \in c.owners})

(***************************************************************************)
(* The server changes: nginx sites, applications, containers.              *)
(***************************************************************************)
FreshPid(p) == CHOOSE n \in 1..3 : n \notin {tpServer.listeners[p].pid, tpRecorded.listeners[p].pid}
Listener(p, comm, at) == [comm |-> comm, pid |-> FreshPid(p), at |-> at]

Becomes(server) ==
    /\ tpChanges < MaxChanges /\ tpChanges' = tpChanges + 1
    /\ tpServer' = server /\ tpRestarted' = FALSE
    /\ UNCHANGED tpRecorded

TpSiteAdded(b, names, proxy) ==
    /\ tpServer.blocks[b] = NoBlock /\ names # {}
    /\ Becomes([tpServer EXCEPT !.blocks[b] = [names |-> names, proxy |-> proxy]])

TpSiteRemoved(b) ==
    /\ tpServer.blocks[b] # NoBlock
    /\ Becomes([tpServer EXCEPT !.blocks[b] = NoBlock])

TpStarts(p, comm, at) ==
    /\ p \notin Listening(tpServer)
    /\ comm = IF p = Web THEN "nginx" ELSE "app"
    /\ p = Web => at = "any"
    /\ Becomes([tpServer EXCEPT !.listeners[p] = Listener(p, comm, at)])

TpStops(p) ==
    /\ tpServer.listeners[p].comm \in {"nginx", "app"}
    /\ Becomes([tpServer EXCEPT !.listeners[p] = Free])

TpRestarts(p) ==
    /\ p \in Listening(tpServer) /\ tpChanges < MaxChanges
    /\ tpChanges' = tpChanges + 1
    /\ tpServer' = [tpServer EXCEPT !.listeners[p].pid = FreshPid(p)]
    /\ tpRestarted' = (tpRestarted \/ tpServer = tpRecorded)
    /\ UNCHANGED tpRecorded

\* docker's proxies listen on the ports of a running container.
WithProxies(ports) ==
    [p \in ListenPort |-> IF p \in ports /\ tpServer.proxies THEN Listener(p, "docker", "any")
                    ELSE tpServer.listeners[p]]

Unpublished(ports) ==
    \A p \in ports : /\ p \notin Listening(tpServer)
                     /\ \A c \in Container : tpServer.containers[c].state = "running" =>
                            p \notin tpServer.containers[c].ports

TpContainerRuns(c, group, ports) ==
    /\ tpServer.containers[c].state = "absent" /\ Unpublished(ports)
    /\ Becomes([tpServer EXCEPT
           !.containers[c] = [state |-> "running", group |-> group, ports |-> ports],
           !.listeners = WithProxies(ports)])

TpContainerStops(c) ==
    /\ tpServer.containers[c].state = "running"
    /\ Becomes([tpServer EXCEPT
           !.containers[c].state = "exited",
           !.listeners = [p \in ListenPort |->
               IF p \in tpServer.containers[c].ports THEN Free ELSE @[p]]])

TpContainerRemoved(c) ==
    /\ tpServer.containers[c].state = "exited"
    /\ Becomes([tpServer EXCEPT !.containers[c] = NoContainer])

(***************************************************************************)
(* A scan is recorded when it differs from the last recorded one by more   *)
(* than restarts (TopologyHistoryService).                                 *)
(***************************************************************************)
TpScan ==
    /\ WithoutChurn(Diff(Snapshot(tpRecorded), Snapshot(tpServer))) # {}
    /\ tpRecorded' = tpServer /\ tpRestarted' = FALSE
    /\ UNCHANGED <<tpServer, tpChanges>>

\* The first scan meets a server with nothing on it, or with an application behind
\* nginx.
TpInit ==
    /\ \E proxies \in BOOLEAN,
          blocks \in [Block -> {NoBlock} \cup [names : {{d} : d \in Domain}, proxy : BackendPort]] :
        /\ Cardinality({b \in Block : blocks[b] # NoBlock}) <= 1
        /\ tpServer = [blocks |-> blocks,
                       listeners |-> [p \in ListenPort |->
                           IF \A b \in Block : blocks[b] = NoBlock THEN Free
                           ELSE IF p = Web THEN [comm |-> "nginx", pid |-> 1, at |-> "any"]
                           ELSE IF \E b \in Block : blocks[b].proxy = p
                                THEN [comm |-> "app", pid |-> 1, at |-> "local"] ELSE Free],
                       containers |-> [c \in Container |-> NoContainer],
                       proxies |-> proxies]
    /\ tpRecorded = tpServer /\ tpChanges = 0 /\ tpRestarted = FALSE

TpNext ==
    \/ TpScan
    \/ \E b \in Block :
           \/ TpSiteRemoved(b)
           \/ \E names \in SUBSET Domain, proxy \in BackendPort \cup {None} :
                  TpSiteAdded(b, names, proxy)
    \/ \E p \in ListenPort :
           \/ TpStops(p) \/ TpRestarts(p)
           \/ \E comm \in {"nginx", "app"}, at \in {"any", "local"} : TpStarts(p, comm, at)
    \/ \E c \in Container :
           \/ TpContainerStops(c) \/ TpContainerRemoved(c)
           \/ \E group \in Group, ports \in SUBSET BackendPort : TpContainerRuns(c, group, ports)

TpSpec == TpInit /\ [][TpNext]_tpVars

(***************************************************************************)
(* Properties.                                                             *)
(***************************************************************************)
TpTypeOK ==
    /\ DOMAIN tpServer.listeners = ListenPort /\ DOMAIN tpRecorded.listeners = ListenPort
    /\ \A p \in ListenPort : tpServer.listeners[p].pid \in 0..3
    /\ tpChanges \in 0..MaxChanges /\ tpRestarted \in BOOLEAN

\* Laid over the earlier snapshot, the changes give the later one, for entities and
\* relationships.
DiffIsComplete(before, after) ==
    LET changes == Diff(before, after)
        Ids(kinds) == {c.id : c \in {x \in changes : x.kind \in kinds}}
        Linked(snapshot) == {<<"link", l>> : l \in snapshot.links}
    IN /\ DOMAIN after.entities = (DOMAIN before.entities \ Ids({"removed"})) \cup Ids({"added"})
       /\ \A id \in DOMAIN after.entities :
              IF id \in Ids({"added", "modified"})
              THEN \E c \in changes : c.id = id /\ c.is = <<after.entities[id]>>
              ELSE after.entities[id] = before.entities[id]
       /\ Linked(after) = (Linked(before) \ Ids({"unlinked"})) \cup Ids({"linked"})

\* The changes of a deployment all touch what it owned before or owns now; and when it
\* has none, it consists of the same parts as before - unless its name is borne by
\* several: their numbers move up when one goes.
ChangesStayHome(before, after) ==
    \A d \in before.deployments, e \in after.deployments :
        /\ d.id = e.id
        /\ <<d.id[1], 2>> \notin {x.id : x \in before.deployments \cup after.deployments}
        => LET changes == DiffFor(d.id, before, after)
               Touched(c) == IF c.id[1] = "link" THEN {c.id[2].from, c.id[2].to} ELSE {c.id}
           IN /\ \A c \in changes : Touched(c) \cap (d.entities \cup e.entities) # {}
              /\ changes = {} => d.entities = e.entities

\* No container or port of a container deployment is in a second deployment, and no
\* other deployment has its id.  A container in no deployment at all has a neighbour,
\* of its project or network, in the one of a domain.
ClustersAreApart(server, snapshot) ==
    LET ofContainers == {d \in snapshot.deployments : Kind(d.entry) # "domain"}
        Resources(d) == {id \in d.entities : Kind(id) \in Footprint}
        ofDomains == UNION {Resources(d) : d \in snapshot.deployments \ ofContainers}
        Neighbours(c) == {c} \cup {x \in Containers(server) : server.containers[c].group # <<>> /\
                                       server.containers[x].group = server.containers[c].group}
    IN /\ \A d \in ofContainers, e \in snapshot.deployments :
              d # e => d.id # e.id /\ Resources(d) \cap Resources(e) = {}
       /\ \A c \in Containers(server) :
              \/ \E d \in ofContainers : ContainerId(c) \in d.entities
              \/ \E x \in Neighbours(c) : ContainerId(x) \in ofDomains

\* A domain whose backend answers is shown with the health of nginx, one whose backend
\* does not as failed, when one site serves it and docker runs its userland proxy.
HealthIsHonest(server, snapshot) ==
    server.proxies =>
        \A d \in snapshot.deployments, b \in Blocks(server) :
            LET site == server.blocks[b] IN
            /\ Kind(d.entry) = "domain" /\ d.entry[2] \in site.names /\ site.proxy # None
            /\ \A x \in Block \ {b} : d.entry[2] \notin server.blocks[x].names
            => snapshot.health[d] = IF site.proxy \notin Listening(server) THEN "failed"
                                    ELSE IF Web \in Listening(server) THEN "healthy" ELSE "degraded"

\* Two domains with sites that proxy to one port are told that they share it.
SharingIsTold(server, snapshot) ==
    \A b, x \in Blocks(server) :
        server.blocks[b].proxy # None /\ server.blocks[b].proxy = server.blocks[x].proxy =>
            \A d \in server.blocks[b].names, e \in server.blocks[x].names : d # e =>
                \E shared \in SharedBackends(snapshot) :
                    /\ shared.port = server.blocks[b].proxy
                    /\ {<<d, 1>>, <<e, 1>>} \subseteq shared.deployments

\* What a scan shows is what is there, and what changed since the recorded snapshot.
TpShowsTheServer ==
    LET before == Snapshot(tpRecorded)
        after == Snapshot(tpServer)
    IN /\ DiffIsComplete(before, after)
       /\ ChangesStayHome(before, after)
       /\ ClustersAreApart(tpServer, after)
       /\ HealthIsHonest(tpServer, after)
       /\ SharingIsTold(tpServer, after)

\* A restart is no change: processes that come back under another id alone never
\* lead to a recorded snapshot.
TpRestartsAreQuiet ==
    tpRestarted => WithoutChurn(Diff(Snapshot(tpRecorded), Snapshot(tpServer))) = {}
===============================================================================
