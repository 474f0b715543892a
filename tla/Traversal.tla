------------------------------ MODULE Traversal ------------------------------
(***************************************************************************)
(* NAT traversal (src/traverse/).  A node learns its public address from   *)
(* what others see (ReflexiveState), publishes it, and a peer gathers the  *)
(* addresses it knows of into candidates, punches towards the best two and *)
(* keeps the path that answered for a while (PeerSession).                 *)
(*                                                                         *)
(* Abstractions.  An address is its family, whether it is seen on the      *)
(* internet or on a LAN, the network it belongs to and, behind a NAT, the  *)
(* binding.  Two LANs may have one subnet.  The probe, the ack and the     *)
(* record by which the peer learns the node's addresses are the            *)
(* application's, and so is telling the state that the interface changed.  *)
(***************************************************************************)
EXTENDS Integers, Sequences, FiniteSets, SequencesExt

CONSTANTS
  Net,          \* networks the node moves between
  Family,       \* the address family of each network's internet side
  Subnet,       \* the subnet of each LAN, the peer's included
  Observer,     \* devices that tell the node where they see it
  Trusted,      \* those that are contacts
  Site,         \* the network each observer is on
  PeerNet,      \* the network the peer is on
  QUORUM, MAX_PENDING,
  PATH_TTL, KEEPALIVE_INTERVAL,
  MappingLife,  \* how long a NAT keeps a silent mapping open
  MaxMoves      \* bound: moves, rebindings and Wi-Fi Direct groups

ASSUME TraversalAssumption ==
  /\ Family \in [Net -> {4, 6}]
  /\ Net \cup {PeerNet} \subseteq DOMAIN Subnet
  /\ Trusted \subseteq Observer /\ IsFiniteSet(Observer)
  /\ DOMAIN Site = Observer
  /\ QUORUM \in Nat \ {0} /\ MAX_PENDING \in Nat \ {0}
  /\ KEEPALIVE_INTERVAL < MappingLife /\ KEEPALIVE_INTERVAL \in Nat \ {0}
  /\ PATH_TTL \in Nat \ {0} /\ MappingLife \in Nat /\ MaxMoves \in Nat

VARIABLES
  net, binding,  \* where the node is
  group,         \* whether node and peer share a Wi-Fi Direct group
  moves,         \* how often any of that changed
  echo,          \* what each observer saw last, on its way to the node
  slot, votes,   \* ReflexiveState: the address of each family, and the claims
  reflexive,     \* the address the application was last told to announce
  policy,        \* the LanPolicy the peer gathers under
  known,         \* the node's record, as the peer last read it
  path,          \* the peer's ValidatedPath
  (* history, read by properties only *)
  claims         \* which stranger has claimed what since the state was cleared

nodeVars == <<slot, votes, reflexive, claims>>
placeVars == <<net, binding, group, moves>>
peerVars == <<policy, known, path>>
traversalVars == <<placeVars, echo, nodeVars, peerVars>>

-----------------------------------------------------------------------------
(* Addresses. *)

Address(family, scope, n, b) == [family |-> family, scope |-> scope, net |-> n, binding |-> b]
None == Address(0, "none", "nowhere", 0)
\* What a relayed message carries in place of its source.
RELAY_ADDR == Address(4, "unspecified", "nowhere", 0)
P2p == Address(4, "p2p", "group", 0)

PublicOf(n, b) == Address(Family[n], "public", n, b)
LanOf(n) == Address(Family[n], "lan", n, 0)
\* The node's own IPv4 LAN address, which goes into its record.
LocalV4(n) == Address(4, "lan", n, 0)

is_bogus_addr(a) == a.scope = "unspecified"
is_lan_scope(a) == a.scope = "lan"
is_private_ipv4(a) == a.family = 4 /\ a.scope = "lan"
is_usable_lan_ipv4(a) == a.family = 4 /\ a.scope # "unspecified"
\* Without a LAN of its own the peer vouches for none.
peer_lan_reachable(a, our_v4) == our_v4 # None /\ Subnet[a.net] = Subnet[our_v4.net]

-----------------------------------------------------------------------------
(* The node's reflexive address. *)

\* One entry per address, oldest first; a full list drops its oldest.
Tally(a, from) ==
  LET kept == IF Len(votes) >= MAX_PENDING THEN Tail(votes) ELSE votes
      listed == IF \E i \in DOMAIN votes : votes[i].addr = a
                THEN votes ELSE Append(kept, [addr |-> a, voters |-> {}])
  IN  [i \in DOMAIN listed |->
         IF listed[i].addr = a THEN [listed[i] EXCEPT !.voters = @ \cup {from}] ELSE listed[i]]

HasQuorum(tally, a) ==
  \E i \in DOMAIN tally : tally[i].addr = a /\ Cardinality(tally[i].voters) >= QUORUM

\* "Public beats private."
Bug_NothingOutranks(a) == FALSE
Outranked(a) == is_lan_scope(a) /\ slot[a.family] # None /\ ~is_lan_scope(slot[a.family])

\* The claim counts but changes nothing.
Ignores(tally) ==
  votes' = tally /\ UNCHANGED <<slot, reflexive>>

\* An address has one entry at most.
Without(tally, a) ==
  LET at == {i \in DOMAIN tally : tally[i].addr = a}
  IN  IF at = {} THEN tally ELSE RemoveAt(tally, CHOOSE i \in at : TRUE)

Adopts(a, tally) ==
  /\ slot' = [slot EXCEPT ![a.family] = a]
  /\ votes' = Without(tally, a)
  /\ reflexive' = a

record(a, from) ==
  LET tally == IF from \in Trusted THEN votes ELSE Tally(a, from)
  IN  IF is_bogus_addr(a) THEN Ignores(votes)
      ELSE IF /\ from \in Trusted \/ HasQuorum(tally, a)
              /\ ~Outranked(a) /\ slot[a.family] # a
           THEN Adopts(a, tally)
           ELSE Ignores(tally)

\* An echo arrives.
Hear(o) ==
  /\ echo[o] # None
  /\ echo' = [echo EXCEPT ![o] = None]
  /\ record(echo[o], o)
  /\ claims' = IF o \in Trusted \/ is_bogus_addr(echo[o]) THEN claims ELSE claims \cup {<<echo[o], o>>}
  /\ UNCHANGED <<placeVars, peerVars>>

-----------------------------------------------------------------------------
(* The world: what observers see, and the node on the move. *)

\* An observer on the node's network sees its LAN address, others its public
\* one; what a contact is sent over the relay has no address.
Sees(o) ==
  {IF Site[o] = net THEN LanOf(net) ELSE PublicOf(net, binding)}
    \cup (IF o \in Trusted THEN {RELAY_ADDR} ELSE {})

Echo(o) ==
  /\ echo[o] = None
  /\ \E a \in Sees(o) : echo' = [echo EXCEPT ![o] = a]
  /\ UNCHANGED <<placeVars, nodeVars, peerVars>>

EchoLost(o) ==
  /\ echo[o] # None
  /\ echo' = [echo EXCEPT ![o] = None]
  /\ UNCHANGED <<placeVars, nodeVars, peerVars>>

Changes ==
  /\ moves < MaxMoves
  /\ moves' = moves + 1
  /\ UNCHANGED <<echo, peerVars>>

Bug_clearKeepsVotes ==
  /\ slot' = [f \in {4, 6} |-> None]
  /\ reflexive' = None
  /\ claims' = {}
  /\ UNCHANGED votes
clear ==
  /\ slot' = [f \in {4, 6} |-> None]
  /\ votes' = <<>>
  /\ reflexive' = None
  /\ claims' = {}

\* The interface changes, and the application clears what it learned.
Move(n) ==
  /\ n # net
  /\ Changes
  /\ net' = n /\ binding' = binding + 1
  /\ clear
  /\ UNCHANGED group

\* The NAT gives the node another binding; nothing tells the node.
Rebind ==
  /\ Changes
  /\ binding' = binding + 1
  /\ UNCHANGED <<net, group, nodeVars>>

GroupChanges ==
  /\ Changes
  /\ group' = ~group
  /\ UNCHANGED <<net, binding, nodeVars>>

-----------------------------------------------------------------------------
(* The peer. *)

Candidate(a, kind) == [addr |-> a, kind |-> kind]
priority(c) ==
  CASE c.kind = "HostV6" -> 100
    [] c.kind = "HostV4Lan" -> 60
    [] c.kind = "HostV4P2p" -> 50
    [] c.kind = "Reflexive" -> IF c.addr.family = 6 THEN 80 ELSE 40

\* An address is listed once, with the better of its kinds.
add(set, c) ==
  IF \E e \in set : e.addr = c.addr
  THEN {IF e.addr = c.addr /\ priority(c) > priority(e) THEN c ELSE e : e \in set}
  ELSE set \cup {c}

public_kind(a) == IF a.family = 6 THEN "HostV6" ELSE "Reflexive"

\* How strictly the peer takes a LAN address: any, or those of its own subnet,
\* where it knows one.
AnyUsable == [arm |-> "AnyUsable", our_v4 |-> None]
SameSubnetAs(our_v4) == [arm |-> "SameSubnetAs", our_v4 |-> our_v4]
LanPolicy == {AnyUsable, SameSubnetAs(None), SameSubnetAs(LocalV4(PeerNet))}

admits(v4) ==
  /\ is_usable_lan_ipv4(v4)
  /\ policy = AnyUsable \/ peer_lan_reachable(v4, policy.our_v4)

AddsLan(set, a) ==
  IF a # None /\ admits(a) THEN add(set, Candidate(a, "HostV4Lan")) ELSE set
AddsP2p(set, p2p) == IF p2p = None THEN set ELSE add(set, Candidate(p2p, "HostV4P2p"))

\* A private address is a LAN address, whatever column it arrived in.
Bug_TrustsTheColumn(set, a) ==
  IF a = None \/ is_bogus_addr(a) THEN set ELSE add(set, Candidate(a, public_kind(a)))
AddsPublic(set, a) ==
  IF a = None \/ is_bogus_addr(a) THEN set
  ELSE IF is_private_ipv4(a) THEN AddsLan(set, a)
  ELSE add(set, Candidate(a, public_kind(a)))

gather_peer_candidates(endpoint, p2p) ==
  AddsP2p(AddsLan(AddsPublic({}, endpoint.public), endpoint.lan), p2p)

\* The best candidate and the next best.
Bug_PrimaryOnly(set) ==
  {c.addr : c \in {x \in set : \A y \in set : priority(y) <= priority(x)}}
best_pair(set) ==
  {c.addr : c \in {x \in set : Cardinality({y \in set : priority(y) > priority(x)}) < 2}}

\* The node publishes, and the peer reads, the node's record.
ReadRecord ==
  /\ known' = [public |-> reflexive, lan |-> LocalV4(net)]
  /\ UNCHANGED <<placeVars, echo, nodeVars, policy, path>>

NoPath == [remote |-> None, age |-> 0, silent |-> 0]
is_still_valid(p) == p.age < PATH_TTL
cached_remote == IF path # NoPath /\ is_still_valid(path) THEN path.remote ELSE None
keepalive_due(p) == p.silent >= KEEPALIVE_INTERVAL

\* Where a probe would reach the node now.
Reaches(a) ==
  \/ a = PublicOf(net, binding) /\ PeerNet # net
  \/ a = LocalV4(net) /\ PeerNet = net
  \/ a = P2p /\ group

Candidates == gather_peer_candidates(known, IF group THEN P2p ELSE None)

\* Without a fresh path the peer probes the best pair, and the first answer wins.
Punch ==
  /\ cached_remote = None
  /\ \E a \in best_pair(Candidates) :
       Reaches(a) /\ path' = [remote |-> a, age |-> 0, silent |-> 0]
  /\ UNCHANGED <<placeVars, echo, nodeVars, policy, known>>

\* The NAT forgets a mapping that was silent for too long.
Works == path # NoPath /\ Reaches(path.remote) /\ path.silent < MappingLife

\* The keepalive that is due is answered while the path works.
Keepalive ==
  /\ cached_remote # None /\ keepalive_due(path) /\ Works
  /\ path' = [path EXCEPT !.silent = 0]
  /\ UNCHANGED <<placeVars, echo, nodeVars, policy, known>>

\* Time passes, but not before a keepalive that is due.
Tick ==
  /\ cached_remote # None
  /\ ~(keepalive_due(path) /\ Works)
  /\ path' = [path EXCEPT !.age = @ + 1, !.silent = @ + 1]
  /\ UNCHANGED <<placeVars, echo, nodeVars, policy, known>>

-----------------------------------------------------------------------------
TraversalInit ==
  /\ net \in Net /\ binding = 0 /\ group = FALSE /\ moves = 0
  /\ echo = [o \in Observer |-> None]
  /\ slot = [f \in {4, 6} |-> None] /\ votes = <<>> /\ reflexive = None /\ claims = {}
  /\ policy \in LanPolicy
  /\ known = [public |-> None, lan |-> None]
  /\ path = NoPath

TraversalNext ==
  \/ \E o \in Observer : Echo(o) \/ Hear(o) \/ EchoLost(o)
  \/ \E n \in Net : Move(n)
  \/ Rebind
  \/ GroupChanges
  \/ ReadRecord
  \/ Punch
  \/ Keepalive
  \/ Tick

TraversalSpec == TraversalInit /\ [][TraversalNext]_traversalVars

\* Observers keep answering and are heard now and then, the node keeps
\* publishing, the peer punches when it has no path, and time passes.
FairTraversalSpec ==
  /\ TraversalSpec
  /\ \A o \in Observer : WF_traversalVars(Echo(o)) /\ SF_traversalVars(Hear(o))
  /\ WF_traversalVars(ReadRecord)
  /\ SF_traversalVars(Punch)
  /\ WF_traversalVars(Tick)
  /\ WF_traversalVars(Keepalive)

-----------------------------------------------------------------------------
(* Properties. *)

Addresses ==
  {PublicOf(n, b) : n \in Net, b \in 0..MaxMoves} \cup {LanOf(n) : n \in Net}

\* Every variable has its type.
TraversalTypeOK ==
  /\ net \in Net /\ binding \in 0..MaxMoves /\ moves \in 0..MaxMoves /\ group \in BOOLEAN
  /\ \A f \in {4, 6} : slot[f] = None \/ (slot[f] \in Addresses /\ slot[f].family = f)
  /\ Len(votes) <= MAX_PENDING
  /\ \A i \in DOMAIN votes :
       votes[i].addr \in Addresses /\ votes[i].voters \subseteq Observer \ Trusted
  /\ \A i, j \in DOMAIN votes : votes[i].addr = votes[j].addr => i = j
  /\ Cardinality({c.addr : c \in Candidates}) = Cardinality(Candidates)
  /\ policy \in LanPolicy
  /\ path.age \in 0..PATH_TTL

\* An address is adopted on the word of a contact, or when QUORUM strangers have
\* claimed it since the state was cleared: one stranger that repeats itself, or
\* claims made before the interface changed, never make a quorum.
AdoptionIsCorroborated ==
  [][\A f \in {4, 6} :
       slot'[f] \notin {slot[f], None} =>
         \/ \E o \in Trusted : echo[o] = slot'[f] /\ echo'[o] = None
         \/ Cardinality({o \in Observer : <<slot'[f], o>> \in claims'}) >= QUORUM]_traversalVars

\* Whatever the node adopted and published, and on whichever network it was by
\* then, no private address passes for a public one, and a peer that asks for its
\* own subnet aims at no private address of another: "a phone on cellular aimed a
\* wave at 192.168.1.163".
NobodyAimsAtAForeignLan ==
  \A c \in Candidates :
    /\ is_private_ipv4(c.addr) =>
         c.kind = "HostV4Lan" /\ (policy = AnyUsable \/ peer_lan_reachable(c.addr, policy.our_v4))
    /\ c.addr.scope # "unspecified"

\* Once the node stays where it is, the address it adopted becomes the one the
\* internet sees, although echoes of older addresses, of its LAN and of the relay
\* are still about, and then stays.
ReflexiveSettles == <>[](slot[Family[net]] = PublicOf(net, binding))

\* Node and peer have a working path again and again, whatever the record the
\* peer read, the LANs that share a subnet and the path that died.
PeersConnect == []<>(Works /\ cached_remote # None)
=============================================================================
