---------------------------- MODULE BlastRadius ----------------------------
(***************************************************************************)
(* map_blast_radius of tools/blast_radius.py: which hosts a compromised    *)
(* host reaches, from three signals asked one after the other.  A signal   *)
(* whose query fails is noted under errors and adds nothing.  The map is a *)
(* dictionary from peers to a connection type, "none" where it has no key. *)
(*                                                                         *)
(* A peer is a name as the alerts carry it (an agent name or an address):  *)
(* the code cannot tell that two of them are one machine, and neither can  *)
(* this module.  The score, the sum of the reachable hosts' criticality,   *)
(* is left out.                                                            *)
(***************************************************************************)
EXTENDS Naturals, Sequences, FiniteSets

CONSTANTS
    Peer,        \* names and addresses in the alerts
    Account,     \* users seen logging in
    GroupLists   \* what rule.groups of a peer's alerts may hold, in bucket order

ASSUME BlastRadiusAssumption == GroupLists \subseteq Seq(STRING) /\ Peer # {}

VARIABLE blast

PROTOCOL_GROUPS == {"sshd", "ssh", "smb", "cifs", "rdp", "web", "http"}
AUTH_GROUPS == {"authentication_success", "authentication_failed"}
Protocols == {"SSH", "SMB", "RDP", "HTTP"}
ConnectionTypes == Protocols \union {"AUTH", "subnet", "unknown"}
Unspecific == {"unknown", "subnet"}

ConnTypeOf(group) ==
    CASE group \in {"sshd", "ssh"} -> "SSH"
      [] group \in {"smb", "cifs"} -> "SMB"
      [] group = "rdp" -> "RDP"
      [] group \in {"web", "http"} -> "HTTP"

\* Mutant: the group itself stands for the protocol.
InferRawGroup(groups) ==
    LET protocol == {i \in DOMAIN groups : groups[i] \in PROTOCOL_GROUPS}
    IN IF protocol # {} THEN groups[CHOOSE i \in protocol : \A j \in protocol : i <= j]
       ELSE IF \E i \in DOMAIN groups : groups[i] \in AUTH_GROUPS THEN "AUTH"
       ELSE "unknown"

(* _infer_connection_type: the first protocol group wins, an authentication *)
(* group counts only when there is none.                                   *)
InferConnectionType(groups) ==
    LET protocol == {i \in DOMAIN groups : groups[i] \in PROTOCOL_GROUPS}
        first == CHOOSE i \in protocol : \A j \in protocol : i <= j
    IN IF protocol # {} THEN ConnTypeOf(groups[first])
       ELSE IF \E i \in DOMAIN groups : groups[i] \in AUTH_GROUPS THEN "AUTH"
       ELSE "unknown"

-----------------------------------------------------------------------------
(* How each signal changes the map; the compromised host is never a peer.  *)

MayTake(edges, p, replaceable) == edges[p] = "none" \/ edges[p] \in replaceable

(* One aggregation of signal 1: seen maps the peers in it to their groups. *)
AddConnections(edges, host, seen) ==
    [p \in Peer |->
        IF p \in DOMAIN seen \ {host} /\ MayTake(edges, p, {"unknown"})
        THEN InferConnectionType(seen[p]) ELSE edges[p]]

AddSubnet(edges, host, seen) ==
    [p \in Peer |->
        IF p \in seen \ {host} /\ MayTake(edges, p, {}) THEN "subnet" ELSE edges[p]]

\* Mutant: the last signal wins.
AddSharedUserAlways(edges, host, seen) ==
    [p \in Peer |-> IF p \in seen \ {host} THEN "AUTH" ELSE edges[p]]

AddSharedUser(edges, host, seen) ==
    [p \in Peer |->
        IF p \in seen \ {host} /\ MayTake(edges, p, Unspecific) THEN "AUTH" ELSE edges[p]]

ReachableHosts == {p \in Peer : blast.edges[p] # "none"}

-----------------------------------------------------------------------------

NoEdges == [p \in Peer |-> "none"]
BlastIdle == [phase |-> "idle", host |-> CHOOSE p \in Peer : TRUE, edges |-> NoEdges,
              errors |-> {}, todo |-> {}]
Buckets == UNION {[S -> GroupLists] : S \in SUBSET Peer}

BlastTypeOK ==
    blast \in [phase : {"idle", "connections", "subnet", "users", "hosts", "mapped"},
               host : Peer, edges : [Peer -> ConnectionTypes \union {"none"}],
               errors : SUBSET ({"connections", "subnet", "users"} \union Account),
               todo : SUBSET Account]

BlastInit == blast = BlastIdle

MapBlastRadius(host) ==
    /\ blast.phase = "idle"
    /\ blast' = [BlastIdle EXCEPT !.phase = "connections", !.host = host]

(* Signal 1 answers two aggregations, by agent name and by source address. *)
QueryRecentConnections ==
    /\ blast.phase = "connections"
    /\ \/ blast' = [blast EXCEPT !.phase = "subnet", !.errors = blast.errors \union {"connections"}]
       \/ \E names, addresses \in Buckets :
            blast' = [blast EXCEPT !.phase = "subnet",
                !.edges = AddConnections(AddConnections(blast.edges, blast.host, names),
                                         blast.host, addresses)]

(* Signal 2 is also an error when the host is a name, not an address, and  *)
(* no prefix was given: the chain simulator's case.                        *)
QuerySameSubnet ==
    /\ blast.phase = "subnet"
    /\ \/ blast' = [blast EXCEPT !.phase = "users", !.errors = blast.errors \union {"subnet"}]
       \/ \E seen \in SUBSET Peer :
            blast' = [blast EXCEPT !.phase = "users",
                                   !.edges = AddSubnet(blast.edges, blast.host, seen)]

\* Mutant: without users, the next loop is entered all the same.
QueryUsersWaits ==
    /\ blast.phase = "users"
    /\ \/ blast' = [blast EXCEPT !.phase = "mapped", !.errors = blast.errors \union {"users"}]
       \/ \E users \in SUBSET Account :
            blast' = [blast EXCEPT !.phase = "hosts", !.todo = users]

(* Signal 3, step A: the users active on the host.                         *)
QueryUsers ==
    /\ blast.phase = "users"
    /\ \/ blast' = [blast EXCEPT !.phase = "mapped", !.errors = blast.errors \union {"users"}]
       \/ \E users \in SUBSET Account :
            blast' = [blast EXCEPT !.phase = IF users = {} THEN "mapped" ELSE "hosts",
                                   !.todo = users]

(* Step B, for each user: the other hosts they logged in to.  One user's   *)
(* failed query leaves the others' answers in place.                       *)
QueryUserHosts(u) ==
    /\ blast.phase = "hosts" /\ u \in blast.todo
    /\ LET rest == blast.todo \ {u}
           next == IF rest = {} THEN "mapped" ELSE "hosts"
       IN \/ blast' = [blast EXCEPT !.phase = next, !.todo = rest,
                                    !.errors = blast.errors \union {u}]
          \/ \E seen \in SUBSET (Peer \ {blast.host}) :
               blast' = [blast EXCEPT !.phase = next, !.todo = rest,
                                      !.edges = AddSharedUser(blast.edges, blast.host, seen)]

BlastStep ==
    \/ QueryRecentConnections \/ QuerySameSubnet \/ QueryUsers
    \/ \E u \in Account : QueryUserHosts(u)
=============================================================================
