------------------------------- MODULE StateNet -------------------------------
(***************************************************************************)
(* StateNet: what each descriptor of each process is, in versions, and     *)
(* which descriptor carries each direction of an SSL object.  Its state is *)
(* a record net; every Apply is one call of StateNet::apply.               *)
(***************************************************************************)
EXTENDS Normalizer

CONSTANTS
    FdCapacity,        \* max_fd_identities, max_fd_versions
    EndpointCapacity,  \* max_endpoint_snapshots
    AssocCapacity      \* max_tls_associations

ASSUME StateNetAssumption ==
    FdCapacity \in Nat \ {0} /\ EndpointCapacity \in Nat \ {0} /\ AssocCapacity \in Nat \ {0}

NoEndpoint == "no endpoint"

EmptyNet == [versions |-> EmptyMap, fds |-> <<>>, endpoints |-> <<>>, assocs |-> <<>>]

VersionOr(net, key, first) == IF key \in DOMAIN net.versions THEN net.versions[key] ELSE first

\* bump_version
BumpVersion(net, key) == VersionOr(net, key, 0) + 1

\* remove_tls_associations_for_fd
WithoutAssocsOf(assocs, keys) ==
    Picked(assocs, {i \in DOMAIN assocs :
                       <<assocs[i].key[1], assocs[i].value.fd>> \notin keys})

\* remember_fd, under the version taken for it: a descriptor pushed out takes
\* its associations along.
RememberFd(net, key, version, endpoint) ==
    LET fds == InsertYoungest(net.fds, key, [version |-> version, endpoint |-> endpoint],
                              FdCapacity)
    IN  [net EXCEPT !.versions = Put(@, key, version),
                    !.fds = fds,
                    !.assocs = WithoutAssocsOf(@, KeysIn(net.fds) \ KeysIn(fds))]

\* close_fd
CloseFd(net, key) ==
    [net EXCEPT !.versions = Put(@, key, BumpVersion(net, key)),
                !.fds = RemoveKeys(@, {key}),
                !.assocs = WithoutAssocsOf(@, {key})]

\* A slip: a duplicate of a descriptor nothing is known of leaves the target's.
ApplyFdDupOfKnown(net, ev) ==
    LET effect == FdDupEffect(ev.oldfd, ev.newfd, ev.ret)
    IN  CASE effect.effect = "Close" -> CloseFd(net, <<ev.pid, effect.fd>>)
          [] effect.effect = "Duplicate" /\ <<ev.pid, effect.oldfd>> \in KeysIn(net.fds) ->
                LET new == <<ev.pid, effect.newfd>>
                IN  RememberFd(net, new, BumpVersion(net, new),
                        ValueOf(net.fds, <<ev.pid, effect.oldfd>>).endpoint)
          [] OTHER -> net

\* apply_fd_dup
ApplyFdDup(net, ev) ==
    LET effect == FdDupEffect(ev.oldfd, ev.newfd, ev.ret)
    IN  CASE effect.effect = "Close" -> CloseFd(net, <<ev.pid, effect.fd>>)
          [] effect.effect = "Duplicate" ->
                LET new == <<ev.pid, effect.newfd>>
                    old == <<ev.pid, effect.oldfd>>
                IN  RememberFd(net, new, BumpVersion(net, new),
                        IF old \in KeysIn(net.fds) THEN ValueOf(net.fds, old).endpoint
                        ELSE NoEndpoint)
          [] OTHER -> net

\* A slip: every connect is taken for a new descriptor.
ApplyConnectAnew(net, ev) ==
    LET key == <<ev.pid, ev.fd>>
        version == BumpVersion(net, key)
    IN  [RememberFd(net, key, version, ev.peer) EXCEPT
            !.endpoints = Append(@, [key |-> key, version |-> version, dst |-> ev.peer])]

\* apply_connect: whatever the call returned, and under the version the
\* descriptor has.
ApplyConnect(net, ev) ==
    LET key == <<ev.pid, ev.fd>>
        version == VersionOr(net, key, 1)
    IN  [RememberFd(net, key, version, ev.peer) EXCEPT
            !.endpoints = Append(@, [key |-> key, version |-> version, dst |-> ev.peer])]

\* apply_tls_assoc
ApplyTlsAssoc(net, ev) ==
    LET key == <<ev.pid, ev.fd>>
        version == VersionOr(net, key, 1)
    IN  [net EXCEPT !.versions = Put(@, key, version),
                    !.assocs = InsertYoungest(@, <<ev.pid, ev.ssl, ev.direction>>,
                                              [fd |-> ev.fd, version |-> version], AssocCapacity)]

\* prune: the oldest endpoints, and versions of descriptors that are not open,
\* the smallest keys first.
Below(a, b) == a[1] < b[1] \/ (a[1] = b[1] /\ a[2] < b[2])

PrunedVersions(net) ==
    LET closed == DOMAIN net.versions \ KeysIn(net.fds)
        over == Cardinality(DOMAIN net.versions) - FdCapacity
        rank(key) == Cardinality({other \in closed : Below(other, key)})
    IN  Keep(net.versions,
             {key \in DOMAIN net.versions : key \in closed => rank(key) >= over})

Prune(net) ==
    [net EXCEPT !.versions = PrunedVersions(net),
                !.endpoints = IF Len(@) > EndpointCapacity THEN Tail(@) ELSE @]

\* StateNet::apply
ApplyNet(net, ev) ==
    Prune(CASE ev.kind = "open" /\ ev.ret >= 0 ->
                  LET key == <<ev.pid, ev.ret>>
                  IN  RememberFd(net, key, BumpVersion(net, key), NoEndpoint)
            [] ev.kind = "dup" -> ApplyFdDup(net, ev)
            [] ev.kind = "connect" -> ApplyConnect(net, ev)
            [] ev.kind = "assoc" -> ApplyTlsAssoc(net, ev)
            [] OTHER -> net)

Partial(reason) == [endpoint |-> NoEndpoint, reason |-> reason]

\* record_tls_fragment
RecordTlsFragment(net, pid, ssl, direction) ==
    LET link == <<pid, ssl, direction>>
    IN  IF link \notin KeysIn(net.assocs) THEN Partial("missing_tls_association")
        ELSE LET assoc == ValueOf(net.assocs, link)
                 key == <<pid, assoc.fd>>
             IN  IF key \notin KeysIn(net.fds) THEN Partial("missing_tls_endpoint")
                 ELSE IF ValueOf(net.fds, key).version # assoc.version
                 THEN Partial("stale_tls_association")
                 ELSE IF ValueOf(net.fds, key).endpoint = NoEndpoint
                 THEN Partial("missing_tls_endpoint")
                 ELSE [endpoint |-> ValueOf(net.fds, key).endpoint, reason |-> "none"]
=============================================================================
