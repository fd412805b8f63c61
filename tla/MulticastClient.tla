--------------------------- MODULE MulticastClient ---------------------------
(***************************************************************************)
(* MulticastClientApplicationv4: which EIDs its Write and Read chains make   *)
(* of the counter m_sent, how many, and when they end.  SeanetMulticast has   *)
(* what the switches do with the packets.                                    *)
(*                                                                          *)
(* Bytes 16 to 18 of the EID are counted from '1', the character they start  *)
(* from; the others are the same in every EID.                               *)
(***************************************************************************)
EXTENDS Naturals, FiniteSets

CONSTANTS
  Client,
  function_type,     \* [Client -> {"Write", "Read", "All"}]
  switch_index,      \* [Client -> Nat]
  total_switch_num,  \* attribute total_write_switch_num
  MaxPackets,        \* the value m_count has as an attribute
  EID_UNIT,          \* groups of a writer (7000)
  Base,              \* range of the lowest byte (100)
  Byte,              \* range of uint8_t (256)
  AllCount,          \* m_count of a client that writes and reads (10)
  Stoppable          \* clients whose stop time lies within the run

ASSUME ClientAssumption ==
  /\ function_type \in [Client -> {"Write", "Read", "All"}]
  /\ switch_index \in [Client -> Nat]
  /\ {total_switch_num, EID_UNIT, Base, AllCount, Byte} \subseteq Nat \ {0}
  /\ EID_UNIT % Base = 0 /\ EID_UNIT \div Base < Byte /\ Base <= Byte
  /\ AllCount <= EID_UNIT
  /\ MaxPackets \in Nat
  /\ Stoppable \subseteq Client

VARIABLES
  status,     \* start and stop of each client
  m_sent,
  m_count,
  scheduled,  \* per client: the calls that the simulator has yet to make
  sent        \* observer: the packets sent

vars == <<status, m_sent, m_count, scheduled, sent>>

Init ==
  /\ status = [c \in Client |-> "created"]
  /\ m_sent = [c \in Client |-> 0]
  /\ m_count = [c \in Client |-> MaxPackets]
  /\ scheduled = [c \in Client |-> {}]
  /\ sent = {}

-----------------------------------------------------------------------------
StartApplication(c) ==
  /\ status[c] = "created"
  /\ status' = [status EXCEPT ![c] = "running"]
  /\ m_sent' = [m_sent EXCEPT ![c] = 0]
  /\ m_count' = [m_count EXCEPT ![c] = CASE function_type[c] = "Read"  -> total_switch_num * EID_UNIT
                                         [] function_type[c] = "Write" -> EID_UNIT
                                         [] function_type[c] = "All"   -> AllCount]
  /\ scheduled' = [scheduled EXCEPT ![c] = IF function_type[c] = "All" THEN {"Write", "Read"}
                                           ELSE {function_type[c]}]
  /\ UNCHANGED sent

\* m_sendEvent and m_readEvent, which it cancels, were never set: the events
\* scheduled by Start, Write and Read are kept nowhere.
StopApplication(c) ==
  /\ c \in Stoppable
  /\ status[c] = "running"
  /\ status' = [status EXCEPT ![c] = "stopped"]
  /\ UNCHANGED <<m_sent, m_count, scheduled, sent>>

\* Mutant of WriteEID: the writer's number is left out.
WriteNoIndex(c, n) == <<0, n \div Base, n % Base>>

WriteEID(c, n) ==
  <<switch_index[c] % Byte, (n \div Base) % Byte, n % Base>>

\* Mutant of ReadEID: the second digit runs on.
ReadUnreduced(c, n) ==
  <<((n \div EID_UNIT + switch_index[c]) % Byte) % total_switch_num,
    (n \div Base) % Byte, n % Base>>

\* Mutant of ReadEID: always the same writer's groups.
ReadOneWriter(c, n) ==
  <<(switch_index[c] % Byte) % total_switch_num,
    ((n \div Base) % Byte) % (EID_UNIT \div Base), n % Base>>

\* The casts to uint8_t come before the moduli.
ReadEID(c, n) ==
  <<((n \div EID_UNIT + switch_index[c]) % Byte) % total_switch_num,
    ((n \div Base) % Byte) % (EID_UNIT \div Base), n % Base>>

\* Mutant of Call: at m_count it goes on scheduling itself.
CallForever(c, kind, eid) ==
  /\ kind \in scheduled[c]
  /\ m_sent[c] < m_count[c]
  /\ m_sent' = [m_sent EXCEPT ![c] = @ + 1]
  /\ sent' = sent \cup {[kind |-> kind, who |-> c, n |-> m_sent[c] + 1, eid |-> eid]}
  /\ UNCHANGED <<status, m_count, scheduled>>

\* One call of a chain: at m_count the chain ends, else it counts, sends and
\* schedules itself.
Call(c, kind, eid) ==
  /\ kind \in scheduled[c]
  /\ \/ /\ m_sent[c] < m_count[c]
        /\ m_sent' = [m_sent EXCEPT ![c] = @ + 1]
        /\ sent' = sent \cup {[kind |-> kind, who |-> c, n |-> m_sent[c] + 1, eid |-> eid]}
        /\ UNCHANGED scheduled
     \/ /\ m_sent[c] >= m_count[c]
        /\ scheduled' = [scheduled EXCEPT ![c] = @ \ {kind}]
        /\ UNCHANGED <<m_sent, sent>>
  /\ UNCHANGED <<status, m_count>>

Write(c) == Call(c, "Write", WriteEID(c, m_sent[c] + 1))
Read(c)  == Call(c, "Read", ReadEID(c, m_sent[c] + 1))

Next == \E c \in Client : StartApplication(c) \/ StopApplication(c) \/ Write(c) \/ Read(c)

Spec == Init /\ [][Next]_vars

\* The simulator makes every call that is scheduled.
FairSpec == Spec /\ \A c \in Client : WF_vars(Write(c)) /\ WF_vars(Read(c))

-----------------------------------------------------------------------------
(* Properties.                                                               *)

\* No group is written twice, by one writer or by two: EID_UNIT / 100 and the
\* number of writers fit into a byte.
GroupsWrittenOnce ==
  \A x, y \in sent : x.kind = "Write" /\ y.kind = "Write" /\ x.eid = y.eid => x = y

\* The groups of the writers that readers are told of.
Groups == {WriteEID(c, n) : c \in {w \in Client : /\ function_type[w] = "Write"
                                                  /\ switch_index[w] < total_switch_num},
                            n \in 1 .. EID_UNIT}

\* A reader asks for groups that some writer writes.  The exception is a number
\* with both digits 0: Write starts from 1 and ends at EID_UNIT, Read wraps there.
ReadsNameGroups ==
  \A x \in sent : x.kind = "Read" /\ <<x.eid[2], x.eid[3]>> # <<0, 0>> => x.eid \in Groups

ReadBy(c) == {x.eid : x \in {y \in sent : y.who = c /\ y.kind = "Read"}}

\* A reader that is through has asked for every group but the last of each
\* writer.  This needs the hundreds of all the groups to fit into a byte, as in
\* MCClient and in the theorem: beyond three writers of 7000 groups the cast to
\* uint8_t wraps.
SweepComplete ==
  \A c \in Client :
    function_type[c] = "Read" /\ status[c] # "created" /\ m_sent[c] = m_count[c]
    => \A w \in 0 .. total_switch_num - 1 : \A n \in 1 .. EID_UNIT - 1 :
         <<w, n \div Base, n % Base>> \in ReadBy(c)

\* A client that was started falls silent in the end, whether it is stopped or
\* not: the two chains of "All" share one counter, and each of them has to see
\* that it has reached m_count.
ChainsEnd ==
  \A c \in Client : (status[c] # "created") ~> (scheduled[c] = {})
=============================================================================
