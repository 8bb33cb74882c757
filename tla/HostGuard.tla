------------------------------ MODULE HostGuard ------------------------------
(***************************************************************************)
(* Which Animus hosts the queue serves (src/host_guard.rs).                *)
(*                                                                         *)
(* A version is the semver triple with its pre-release identifiers, each   *)
(* taken as its rank among identifiers (numbers before words); <<>> is a   *)
(* release.  None stands for a version that is missing or does not parse.  *)
(***************************************************************************)
EXTENDS Naturals, Sequences

CONSTANT None

Version == [major : Nat, minor : Nat, patch : Nat, pre : Seq(Nat)]

(* A host announces its plugin protocol and its own version. *)
Host == [protocol : Version \cup {None}, version : Version \cup {None}]

V(a, b, c) == [major |-> a, minor |-> b, patch |-> c, pre |-> <<>>]

MIN_HOST_VERSION == V(0, 7, 0)
MIN_HOST_PROTOCOL_VERSION == V(1, 1, 0)
HOST_PROTOCOL_WITHOUT_VERSION_CHECK == V(1, 2, 0)

(* Pre-release order: identifier by identifier, a list before its           *)
(* extensions, every pre-release before its release.                       *)
PreAtLeast(p, q) ==
    \/ p = <<>>
    \/ /\ q # <<>>
       /\ \/ /\ Len(p) >= Len(q)
             /\ \A n \in 1..Len(q) : p[n] = q[n]
          \/ \E n \in 1..Len(q) :
                /\ n <= Len(p)
                /\ p[n] > q[n]
                /\ \A k \in 1..(n - 1) : p[k] = q[k]

AtLeast(v, w) ==
    \/ v.major > w.major
    \/ v.major = w.major /\ v.minor > w.minor
    \/ v.major = w.major /\ v.minor = w.minor /\ v.patch > w.patch
    \/ /\ v.major = w.major /\ v.minor = w.minor /\ v.patch = w.patch
       /\ PreAtLeast(v.pre, w.pre)

(* 0.7.0-0, the lowest pre-release of MIN_HOST_VERSION. *)
MinimumHostVersion == [MIN_HOST_VERSION EXCEPT !.pre = <<0>>]

(* Mutant: the release itself is the minimum, so its candidates are old.    *)
CheckHostReleaseOnly(h) ==
    /\ h.protocol # None
    /\ \/ AtLeast(h.protocol, HOST_PROTOCOL_WITHOUT_VERSION_CHECK)
       \/ /\ AtLeast(h.protocol, MIN_HOST_PROTOCOL_VERSION)
          /\ h.version # None
          /\ AtLeast(h.version, MIN_HOST_VERSION)

(* Mutant: the version counts whatever the protocol. *)
CheckHostEitherCounts(h) ==
    /\ h.protocol # None
    /\ \/ AtLeast(h.protocol, HOST_PROTOCOL_WITHOUT_VERSION_CHECK)
       \/ /\ h.protocol.major = MIN_HOST_PROTOCOL_VERSION.major
          /\ h.protocol.minor = MIN_HOST_PROTOCOL_VERSION.minor
          /\ h.protocol.patch = MIN_HOST_PROTOCOL_VERSION.patch
          /\ h.protocol.pre = <<>>
          /\ h.version # None
          /\ AtLeast(h.version, MinimumHostVersion)

(* check_host accepts h. *)
CheckHost(h) ==
    /\ h.protocol # None
    /\ \/ AtLeast(h.protocol, HOST_PROTOCOL_WITHOUT_VERSION_CHECK)
       \/ /\ AtLeast(h.protocol, MIN_HOST_PROTOCOL_VERSION)
          /\ h.version # None
          /\ AtLeast(h.version, MinimumHostVersion)

-----------------------------------------------------------------------------
(* A machine whose Animus is upgraded: what it announces only grows.        *)

CONSTANT Hosts

ASSUME HostsAssumption == None \notin Version /\ Hosts \subseteq Host

VARIABLE host

NewerField(x, y) == y # None => x # None /\ AtLeast(x, y)

Upgrade ==
    /\ host' \in Hosts
    /\ NewerField(host'.protocol, host.protocol)
    /\ NewerField(host'.version, host.version)

HostSpec == host \in Hosts /\ [][Upgrade]_host

(* An upgrade of Animus never costs it its queue: once accepted, a host     *)
(* stays accepted whatever newer protocol and version it announces, across *)
(* release candidates, releases and the handshake that no longer announces *)
(* its Animus version first.                                               *)
UpgradeKeepsQueue == [][CheckHost(host) => CheckHost(host')]_host

(* "Its release candidates (0.7.0-rc.N) count as 0.7 too" (host_guard.rs:19)*)
(* and "Animus 0.6.x and older ... must stay on v0.3.3": of the hosts that *)
(* announce protocol 1.1, exactly those of 0.7.0 and later, candidates     *)
(* included, are served.                                                   *)
CandidatesCount ==
    host.protocol = V(1, 1, 0) /\ host.version # None =>
        (CheckHost(host) <=>
            host.version.major > 0 \/ host.version.minor >= 7)

=============================================================================
