----------------------------- MODULE Handshake -----------------------------
(***************************************************************************)
(* The handshake (crates/host/src/network/handshake.rs and the first five   *)
(* message kinds of handshake_runner.rs): the table of pending handshakes,  *)
(* the list of trusted peers and the keys of the sessions that come of it.  *)
(* The node is one; its peers are the messages that may arrive, in any      *)
(* order, lost or repeated.  One action is one message handled by the       *)
(* listener, which awaits the locks of the table and of the list one after  *)
(* the other, or one round of the cleanup task.  Keys are symbolic: a       *)
(* handshake has a number, its ephemeral secret is there or taken, and the  *)
(* key it derives bears its number.                                         *)
(***************************************************************************)
EXTENDS Integers, FiniteSets, Sequences, SequencesExt

CONSTANTS
  Addrs,                    \* socket addresses of the peers
  Keys,                     \* Ed25519 keys a peer may announce in a Hello
  Bootstrap,                \* NEXOIA_BOOTSTRAP_PEERS, a sequence
  Exchanges,                \* the sequences of addresses of a PeerExchange
  OnDisk,                   \* trusted peers of network.json, a sequence of [addr, key]
  MAX_PENDING_HANDSHAKES,   \* 1024 in the code
  MAX_PEERS,                \* 10 by default, at most 512
  MAX_SESSIONS,             \* 4096 in the code
  SEED_SIZE,                \* length of an ML-KEM seed: 64 in the ml_kem crate
  \* bound of the model:
  MaxHandshakes             \* handshakes begun

NoKey == <<"no key">>

ASSUME HandshakeAssumption ==
  /\ IsFiniteSet(Addrs)
  /\ Bootstrap \in Seq(Addrs) /\ Exchanges \subseteq Seq(Addrs)
  /\ OnDisk \in Seq([addr : Addrs, key : Keys \cup {NoKey}])
  /\ MAX_PENDING_HANDSHAKES \in Nat \ {0}
  /\ MAX_PEERS \in Nat \ {0} /\ MAX_SESSIONS \in Nat \ {0}
  /\ SEED_SIZE \in Nat /\ MaxHandshakes \in Nat

VARIABLES
  pending,          \* address -> PendingHandshake
  trusted,          \* the TrustedPeerList, by authenticated_at
  sessions,         \* address -> number of the handshake that made its key
  listening,        \* the listener task runs
  authenticating,   \* the handshake the listener completes, or none
  begun,            \* handshakes begun: the next number
  derived           \* history: the numbers of the keys derived, in order

handshakeVars ==
  <<pending, trusted, sessions, listening, authenticating, begun, derived>>

-----------------------------------------------------------------------------
Phases == {"HelloReceived", "ChallengeSent", "ResponseReceived", "Complete"}

PendingHandshake ==
  [number : Nat, ed25519 : Keys \cup {NoKey}, challenged : BOOLEAN,
   secret : BOOLEAN, session_key : BOOLEAN, phase : Phases, expired : BOOLEAN]

\* new_initiator() and, with what a Hello fills in, new_responder().
new_initiator(n) ==
  [number |-> n, ed25519 |-> NoKey, challenged |-> FALSE, secret |-> TRUE,
   session_key |-> FALSE, phase |-> "HelloReceived", expired |-> FALSE]
new_responder(n, key) ==
  [new_initiator(n) EXCEPT !.ed25519 = key, !.challenged = TRUE,
                           !.phase = "ChallengeSent"]

Put(map, a, x) ==
  [b \in DOMAIN map \cup {a} |-> IF b = a THEN x ELSE map[b]]
Without(map, a) == [b \in DOMAIN map \ {a} |-> map[b]]

Full(map, limit) == Cardinality(DOMAIN map) >= limit

\* A Hello to every address of a sequence that is not known; once the table is full an
\* address is skipped, also when it has an entry that would only be replaced.
Greeted(table, addrs, known) ==
  {k \in DOMAIN addrs :
     /\ addrs[k] \notin known
     /\ Cardinality(DOMAIN table \cup ({addrs[i] : i \in 1..(k - 1)} \ known))
          < MAX_PENDING_HANDSHAKES}
Before(greeted, k) == {j \in greeted : j < k}
LastOf(greeted, addrs, a) ==
  CHOOSE k \in greeted : addrs[k] = a /\ \A j \in greeted : addrs[j] = a => j <= k
Initiate(table, number, addrs, greeted) ==
  [a \in DOMAIN table \cup {addrs[k] : k \in greeted} |->
     IF a \in {addrs[k] : k \in greeted}
     THEN new_initiator(number + Cardinality(Before(greeted, LastOf(greeted, addrs, a))))
     ELSE table[a]]

\* MlKemKeyPair::from_bytes(ek, &[]): the seed it is given is empty.
KeyPairRebuilt == Len(<<>>) = SEED_SIZE

\* TrustedPeerList: an address it has is refused, at the limit the oldest makes room.
AddrsOf(list) == {list[i].addr : i \in DOMAIN list}
add(list, peer) ==
  IF peer.addr \in AddrsOf(list) THEN list
  ELSE Append(IF Len(list) >= MAX_PEERS THEN Tail(list) ELSE list, peer)

\* remove() of several addresses: what is left keeps its order.
Nth(S, n) == CHOOSE k \in S : Cardinality({j \in S : j <= k}) = n
remove(list, gone) ==
  LET kept == {i \in DOMAIN list : list[i].addr \notin gone}
  IN [n \in 1..Cardinality(kept) |-> list[Nth(kept, n)]]

\* The list is taken up from the disk, where a peer without a node_id is left out;
\* the handshake that made such a peer trusted was of another run of the node.
FromDisk == -1
persisted_to_trusted(list) ==
  FoldLeft(LAMBDA l, p : add(l, [addr |-> p.addr, number |-> FromDisk, key |-> p.key]), <<>>,
           SelectSeq(list, LAMBDA p : p.key # NoKey))

\* What an entry leaves of a peer.  An initiator never learns the key, nor the
\* node_id that comes with it.
TrustedPeer == [addr : Addrs, number : Nat \cup {FromDisk}, key : Keys \cup {NoKey}]
NewPeer(a) ==
  [addr |-> a, number |-> pending[a].number, key |-> pending[a].ed25519]

\* The list the node starts with is one that add() may have made.
ASSUME DiskAssumption ==
  /\ persisted_to_trusted(OnDisk) \in Seq(TrustedPeer)
  /\ Len(persisted_to_trusted(OnDisk)) <= MAX_PEERS

TrustedAddrs == AddrsOf(trusted)

-----------------------------------------------------------------------------
HandshakeInit ==
  LET none == [a \in {} |-> 0]
      greeted == Greeted(none, Bootstrap, {})
  IN /\ pending = Initiate(none, 0, Bootstrap, greeted) /\ begun = Cardinality(greeted)
     /\ trusted = persisted_to_trusted(OnDisk) /\ sessions = [a \in {} |-> 0]
     /\ listening = TRUE /\ authenticating = {} /\ derived = <<>>

\* The listener awaits the next message.
Receiving == listening /\ authenticating = {}

\* Phase 1.  The answer is a Challenge.
Hello(a, key) ==
  /\ Receiving /\ begun < MaxHandshakes
  /\ IF Full(pending, MAX_PENDING_HANDSHAKES) THEN UNCHANGED <<pending, begun>>
     ELSE /\ pending' = Put(pending, a, new_responder(begun, key))
          /\ begun' = begun + 1
  /\ UNCHANGED <<trusted, sessions, listening, authenticating, derived>>

\* Phase 2, whatever the role of the entry.  The answer is a signed response.
Challenge(a) ==
  /\ Receiving /\ a \in DOMAIN pending
  /\ pending' = [pending EXCEPT ![a].phase = "ChallengeSent"]
  /\ UNCHANGED <<trusted, sessions, listening, authenticating, begun, derived>>

\* Phase 3.  The response is signed with a key over the challenge of some
\* handshake; what fails removes the entry.
Verified(hs, key, challenge) ==
  hs.ed25519 = key /\ hs.challenged /\ hs.number = challenge
ChallengeResponse(a, key, challenge, wellFormed) ==
  /\ Receiving /\ a \in DOMAIN pending
  /\ LET hs == pending[a]
     IN IF /\ Verified(hs, key, challenge) /\ wellFormed
           /\ KeyPairRebuilt /\ hs.secret
        THEN /\ pending' = [pending EXCEPT ![a].secret = FALSE,
                                           ![a].session_key = TRUE,
                                           ![a].phase = "ResponseReceived"]
             /\ derived' = Append(derived, hs.number)
        ELSE pending' = Without(pending, a) /\ UNCHANGED derived
  /\ UNCHANGED <<trusted, sessions, listening, authenticating, begun>>

\* Mutant: the secret is used and kept.
ExchangeKeepingSecret(a, wellFormed) ==
  /\ Receiving
  /\ IF a \in DOMAIN pending /\ wellFormed /\ pending[a].secret
     THEN /\ pending' = [pending EXCEPT ![a].phase = "Complete"]
          /\ derived' = Append(derived, pending[a].number)
          /\ authenticating' = {NewPeer(a)}
          /\ UNCHANGED listening
     ELSE /\ listening' = FALSE
          /\ UNCHANGED <<pending, derived, authenticating>>
  /\ UNCHANGED <<trusted, sessions, begun>>

\* Phase 4: return, where the code means to skip the message, ends the
\* listener.  The entry stays in the table.
SessionKeyExchange(a, wellFormed) ==
  /\ Receiving
  /\ IF a \in DOMAIN pending /\ wellFormed /\ pending[a].secret
     THEN /\ pending' = [pending EXCEPT ![a].secret = FALSE,
                                        ![a].phase = "Complete"]
          /\ derived' = Append(derived, pending[a].number)
          /\ authenticating' = {NewPeer(a)}
          /\ UNCHANGED listening
     ELSE /\ listening' = FALSE
          /\ UNCHANGED <<pending, derived, authenticating>>
  /\ UNCHANGED <<trusted, sessions, begun>>

\* Phase 5, with a ciphertext that is OK under the key of the entry or is not.
SessionKeyConfirm(a, isOk) ==
  /\ Receiving
  /\ IF a \in DOMAIN pending /\ pending[a].session_key
     THEN /\ pending' = Without(pending, a)
          /\ authenticating' = IF isOk THEN {NewPeer(a)} ELSE {}
          /\ UNCHANGED listening
     ELSE listening' = FALSE /\ UNCHANGED <<pending, authenticating>>
  /\ UNCHANGED <<trusted, sessions, begun, derived>>

\* The second half of phases 4 and 5, under the lock of the list: only a peer that
\* add() took has a session.  Which session insert() evicts is module Session's matter.
InsertSession(peer) ==
  IF Full(sessions, MAX_SESSIONS)
  THEN \E a \in DOMAIN sessions :
         sessions' = Put(Without(sessions, a), peer.addr, peer.number)
  ELSE sessions' = Put(sessions, peer.addr, peer.number)

\* Mutant: a session also for a peer that add() refused.
AuthenticateAlways ==
  /\ \E peer \in authenticating :
       trusted' = add(trusted, peer) /\ InsertSession(peer)
  /\ authenticating' = {}
  /\ UNCHANGED <<pending, listening, begun, derived>>

Authenticate ==
  /\ \E peer \in authenticating :
       IF peer.addr \in TrustedAddrs THEN UNCHANGED <<trusted, sessions>>
       ELSE trusted' = add(trusted, peer) /\ InsertSession(peer)
  /\ authenticating' = {}
  /\ UNCHANGED <<pending, listening, begun, derived>>

\* A peer with a session shares addresses: those not trusted get a Hello.
PeerExchange(a, addrs) ==
  /\ Receiving /\ a \in DOMAIN sessions
  /\ LET greeted == Greeted(pending, addrs, TrustedAddrs \cup {a})
     IN /\ begun + Cardinality(greeted) <= MaxHandshakes
        /\ pending' = Initiate(pending, begun, addrs, greeted)
        /\ begun' = begun + Cardinality(greeted)
  /\ UNCHANGED <<trusted, sessions, listening, authenticating, derived>>

\* Five minutes pass for an entry, and the round that removes it.
PendingExpires(a) ==
  /\ a \in DOMAIN pending /\ ~pending[a].expired
  /\ pending' = [pending EXCEPT ![a].expired = TRUE]
  /\ UNCHANGED <<trusted, sessions, listening, authenticating, begun, derived>>

\* Mutant: what is complete is kept.
CleanupIncomplete ==
  LET gone == {b \in DOMAIN pending :
                 pending[b].expired /\ pending[b].phase # "Complete"}
  IN /\ gone # {}
     /\ pending' = [a \in DOMAIN pending \ gone |-> pending[a]]
     /\ UNCHANGED <<trusted, sessions, listening, authenticating, begun, derived>>

PendingCleanup ==
  /\ \E a \in DOMAIN pending : pending[a].expired
  /\ pending' = [a \in {b \in DOMAIN pending : ~pending[b].expired} |-> pending[a]]
  /\ UNCHANGED <<trusted, sessions, listening, authenticating, begun, derived>>

\* SessionManager::cleanup(300) of the monitor finds the session idle.
SessionExpires(a) ==
  /\ a \in DOMAIN sessions
  /\ sessions' = Without(sessions, a)
  /\ UNCHANGED <<pending, trusted, listening, authenticating, begun, derived>>

HandshakeMessage ==
  \/ \E a \in Addrs :
       \/ Challenge(a)
       \/ \E key \in Keys : Hello(a, key)
       \/ \E key \in Keys, n \in 0..(begun - 1), wellFormed \in BOOLEAN :
            ChallengeResponse(a, key, n, wellFormed)
       \/ \E wellFormed \in BOOLEAN : SessionKeyExchange(a, wellFormed)
       \/ \E isOk \in BOOLEAN : SessionKeyConfirm(a, isOk)
       \/ \E addrs \in Exchanges : PeerExchange(a, addrs)
  \/ Authenticate

HandshakeNext ==
  \/ HandshakeMessage
  \/ \E a \in Addrs : PendingExpires(a) \/ SessionExpires(a)
  \/ PendingCleanup

HandshakeSpec == HandshakeInit /\ [][HandshakeNext]_handshakeVars

-----------------------------------------------------------------------------
\* Type invariant: the table and the list never outgrow their limits, whatever
\* Hellos and exchanges arrive.
HandshakeTypeOK ==
  /\ DOMAIN pending \subseteq Addrs /\ Cardinality(DOMAIN pending) <= MAX_PENDING_HANDSHAKES
  /\ \A a \in DOMAIN pending : pending[a] \in PendingHandshake
  /\ trusted \in Seq(TrustedPeer)
  /\ Len(trusted) <= MAX_PEERS
  /\ DOMAIN sessions \subseteq Addrs
  /\ \A a \in DOMAIN sessions : sessions[a] \in Nat
  /\ listening \in BOOLEAN
  /\ \A p \in authenticating : p \in TrustedPeer /\ p.number # FromDisk
  /\ begun \in Nat /\ derived \in Seq(Nat)

\* handshake.rs: "X25519 efemero para forward secrecy (chaves descartadas apos
\* sessao)".  An ephemeral secret makes one key at most: not when a message
\* comes twice, nor when an entry serves as initiator and as responder.
EphemeralOnce == IsInjective(derived)

\* A peer that is trusted and has a session has it from the handshake it is
\* trusted for: no later handshake at the address changes one without the
\* other, although they are updated under different locks and each may be
\* evicted or expire alone.
SessionOfTrust ==
  \A i \in DOMAIN trusted :
    trusted[i].addr \in DOMAIN sessions
      => sessions[trusted[i].addr] = trusted[i].number

\* INV-2: every pending handshake leaves the table, whether it completes, fails
\* or is abandoned at any phase, also after the listener ended.
PendingLeaves ==
  \A n \in 0..(MaxHandshakes - 1) :
    (\E a \in DOMAIN pending : pending[a].number = n)
      ~> ~(\E a \in DOMAIN pending : pending[a].number = n)

=============================================================================
