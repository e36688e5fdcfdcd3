------------------------------ MODULE Session ------------------------------
(***************************************************************************)
(* Sessions (crates/host/src/network/session.rs): the counters and the      *)
(* anti-replay window of a SessionState, and the SessionManager that keeps  *)
(* one per address behind a RwLock.  An action is one call of the manager,  *)
(* atomic under the lock, or one draw of a send counter from a clone that   *)
(* get() returned.  A word of the window is the set of its bits.            *)
(***************************************************************************)
EXTENDS Integers, FiniteSets

CONSTANTS
  Addrs,          \* socket addresses of the peers
  WINDOW_WORDS,   \* 16 in the code
  MAX_SESSIONS,   \* 4096 in the code
  Timeouts,       \* the arguments of cleanup()
  \* bounds of the model:
  Counters,       \* counters a message may bear
  MaxKeys,        \* handshakes completed
  MaxDraws,       \* send counters drawn
  MaxNow          \* the clock

ASSUME SessionAssumption ==
  /\ WINDOW_WORDS \in Nat \ {0} /\ MAX_SESSIONS \in Nat \ {0}
  /\ Timeouts \subseteq Nat /\ Counters \subseteq Nat
  /\ MaxKeys \in Nat /\ MaxDraws \in Nat /\ MaxNow \in Nat
  /\ IsFiniteSet(Addrs)

VARIABLES
  sessions,     \* the map of the manager
  clone,        \* the session a caller of get() works on, or none
  now,          \* what Instant::now() returns
  \* history, read by no action:
  keys,         \* sessions inserted; a session_key is a number below it
  delivered,    \* pairs <<session_key, counter>> that were accepted
  deliveries,   \* how many messages were accepted
  draws         \* how many send counters were drawn

sessionVars ==
  <<sessions, clone, now, keys, delivered, deliveries, draws>>

-----------------------------------------------------------------------------
WORD_BITS == 64
Words == 0..(WINDOW_WORDS - 1)
ANTI_REPLAY_WINDOW_SIZE == WORD_BITS * WINDOW_WORDS
Bits == 0..(WORD_BITS - 1)
Window == [Words -> SUBSET Bits]
EmptyWindow == [i \in Words |-> {}]

\* word << n and word >> n.
ShiftUp(word, n) == {b + n : b \in word} \cap Bits
ShiftDown(word, n) == {b - n : b \in word} \cap Bits

\* Mutant: the bits that leave a word are lost.
shift_words_alone(window, bits) ==
  IF bits >= ANTI_REPLAY_WINDOW_SIZE THEN EmptyWindow
  ELSE LET word_shift == bits \div WORD_BITS
           bit_shift == bits % WORD_BITS
       IN [i \in Words |->
             IF i < word_shift THEN {}
             ELSE ShiftUp(window[i - word_shift], bit_shift)]

\* The loop runs from the top word down, so it reads words not yet written.
shift_window_left(window, bits) ==
  IF bits >= ANTI_REPLAY_WINDOW_SIZE THEN EmptyWindow
  ELSE LET word_shift == bits \div WORD_BITS
           bit_shift == bits % WORD_BITS
       IN [i \in Words |->
             IF i < word_shift THEN {}
             ELSE ShiftUp(window[i - word_shift], bit_shift)
                    \cup IF bit_shift > 0 /\ i > word_shift
                         THEN ShiftDown(window[i - word_shift - 1],
                                        WORD_BITS - bit_shift)
                         ELSE {}]

get_bit(window, pos) ==
  /\ pos \div WORD_BITS < WINDOW_WORDS
  /\ pos % WORD_BITS \in window[pos \div WORD_BITS]

set_bit(window, pos) ==
  IF pos \div WORD_BITS < WINDOW_WORDS
  THEN [window EXCEPT ![pos \div WORD_BITS] = @ \cup {pos % WORD_BITS}]
  ELSE window

-----------------------------------------------------------------------------
SessionState ==
  [session_key : Nat, send_counter : Nat, recv_counter : Nat,
   recv_window : Window, last_activity : Nat]

NewSession(key) ==
  [session_key |-> key, send_counter |-> 0, recv_counter |-> 0,
   recv_window |-> EmptyWindow, last_activity |-> now]

\* check_counter() of a session: is the counter accepted, and what it leaves.
Ahead(s, counter) == counter > s.recv_counter
Accepts(s, counter) ==
  \/ Ahead(s, counter)
  \/ /\ ~Ahead(s, counter)
     /\ s.recv_counter - counter < ANTI_REPLAY_WINDOW_SIZE
     /\ ~get_bit(s.recv_window, s.recv_counter - counter)

\* Mutant: a jump past the window does not clear it.
ReceivedKeeping(s, counter) ==
  IF Ahead(s, counter)
  THEN [s EXCEPT
         !.recv_window =
            IF counter - s.recv_counter < ANTI_REPLAY_WINDOW_SIZE
            THEN set_bit(shift_window_left(@, counter - s.recv_counter), 0)
            ELSE set_bit(@, 0),
         !.recv_counter = counter, !.last_activity = now]
  ELSE [s EXCEPT
         !.recv_window = set_bit(@, s.recv_counter - counter),
         !.last_activity = now]

Received(s, counter) ==
  IF Ahead(s, counter)
  THEN [s EXCEPT
         !.recv_window =
            set_bit(shift_window_left(@, counter - s.recv_counter), 0),
         !.recv_counter = counter, !.last_activity = now]
  ELSE [s EXCEPT
         !.recv_window = set_bit(@, s.recv_counter - counter),
         !.last_activity = now]

-----------------------------------------------------------------------------
SessionInit ==
  /\ sessions = [a \in {} |-> NewSession(0)]
  /\ clone = {} /\ now = 0
  /\ keys = 0
  /\ delivered = {} /\ deliveries = 0 /\ draws = 0

\* The map with the session of a set or replaced, the map without some.
Put(map, a, s) ==
  [b \in DOMAIN map \cup {a} |-> IF b = a THEN s ELSE map[b]]
Without(map, gone) == [b \in DOMAIN map \ gone |-> map[b]]

\* The addresses insert() may evict: those longest without activity.
Oldest ==
  {a \in DOMAIN sessions :
     \A b \in DOMAIN sessions :
       sessions[a].last_activity <= sessions[b].last_activity}

\* insert(): at the limit a session is evicted first, also when the address
\* has one already.
insert(a) ==
  /\ keys < MaxKeys
  /\ IF Cardinality(DOMAIN sessions) >= MAX_SESSIONS
     THEN \E old \in Oldest :
            sessions' = Put(Without(sessions, {old}), a, NewSession(keys))
     ELSE sessions' = Put(sessions, a, NewSession(keys))
  /\ keys' = keys + 1
  /\ UNCHANGED <<clone, now, delivered, deliveries, draws>>

\* get() returns a copy, of which callers use the key and the send counter:
\* what happens to it does not reach the map.
get(a) ==
  /\ a \in DOMAIN sessions
  /\ clone' = {[session_key |-> sessions[a].session_key,
                send_counter |-> sessions[a].send_counter]}
  /\ UNCHANGED <<sessions, now, keys, delivered, deliveries, draws>>

\* next_send_counter() of a copy.
next_send_counter ==
  /\ draws < MaxDraws
  /\ \E s \in clone :
       clone' = {[s EXCEPT !.send_counter = @ + 1]}
  /\ draws' = draws + 1
  /\ UNCHANGED <<sessions, now, keys, delivered, deliveries>>

\* check_counter() of the manager: false where there is no session.
check_counter(a, counter) ==
  /\ a \in DOMAIN sessions
  /\ Accepts(sessions[a], counter)
  /\ sessions' = [sessions EXCEPT ![a] = Received(@, counter)]
  /\ delivered' = delivered \cup {<<sessions[a].session_key, counter>>}
  /\ deliveries' = deliveries + 1
  /\ UNCHANGED <<clone, now, keys, draws>>

remove(a) ==
  /\ a \in DOMAIN sessions
  /\ sessions' = Without(sessions, {a})
  /\ UNCHANGED <<clone, now, keys, delivered, deliveries, draws>>

\* cleanup(): every session without activity for more than the timeout.
Expired(timeout) ==
  {a \in DOMAIN sessions : now - sessions[a].last_activity > timeout}

cleanup(timeout) ==
  /\ sessions' = Without(sessions, Expired(timeout))
  /\ UNCHANGED <<clone, now, keys, delivered, deliveries, draws>>

Tick ==
  /\ now < MaxNow
  /\ now' = now + 1
  /\ UNCHANGED <<sessions, clone, keys, delivered, deliveries, draws>>

SessionNext ==
  \/ \E a \in Addrs : insert(a) \/ get(a) \/ remove(a)
  \/ \E a \in Addrs, counter \in Counters : check_counter(a, counter)
  \/ next_send_counter
  \/ \E timeout \in Timeouts : cleanup(timeout)
  \/ Tick

SessionSpec == SessionInit /\ [][SessionNext]_sessionVars

-----------------------------------------------------------------------------
\* Type invariant: the map never outgrows its limit, whatever is inserted.
SessionTypeOK ==
  /\ DOMAIN sessions \subseteq Addrs
  /\ \A a \in DOMAIN sessions : sessions[a] \in SessionState
  /\ Cardinality(DOMAIN sessions) <= MAX_SESSIONS
  /\ clone \subseteq [session_key : Nat, send_counter : Nat]
  /\ now \in Nat /\ keys \in Nat
  /\ delivered \subseteq (Nat \X Nat) /\ deliveries \in Nat
  /\ draws \in Nat

\* The bits of the window are the messages accepted: position p is set if and
\* only if the counter p below the highest was accepted in this session, across
\* every shift over word boundaries and every jump past the window, and also
\* when the address had another session before.
WindowExact ==
  \A a \in DOMAIN sessions : \A p \in 0..(ANTI_REPLAY_WINDOW_SIZE - 1) :
    get_bit(sessions[a].recv_window, p)
      <=> <<sessions[a].session_key, sessions[a].recv_counter - p>> \in delivered

\* No message is accepted twice: there are as many accepted counters as there
\* were acceptances, in whatever order the counters come, repeat and fall out
\* of the window.
ReplayRefused == deliveries = Cardinality(delivered)

=============================================================================
