----------------------------- MODULE PoseRelay -----------------------------
(***************************************************************************)
(* What the way of a pose promises, without sockets, retries or locks.     *)
(* Each frame that is produced is on its way to one reader or lost; a      *)
(* reader takes the frames on their way to it oldest first and skips none, *)
(* unless it loses all of them with its connection; and an application     *)
(* that is not taking frames itself is given a copy of the broker's pose,  *)
(* which only goes forward until the broker is started again.              *)
(***************************************************************************)
EXTENDS Naturals

CONSTANTS Apps, Broker

Readers == Apps \cup {Broker}

VARIABLES produced,    \* frames produced so far
          pending,     \* frames on their way to each reader
          brokerPose,  \* the frame the broker took last
          latest,      \* the frame each application has
          rows         \* applications that have a frame of the broker's

relayVars == <<produced, pending, brokerPose, latest, rows>>

RelayInit == /\ produced = 0
             /\ pending = [c \in Readers |-> {}]
             /\ brokerPose = 0
             /\ latest = [a \in Apps |-> 0]
             /\ rows = {}

Produce == /\ produced' = produced + 1
           /\ \/ UNCHANGED pending
              \/ \E c \in Readers :
                    pending' = [pending EXCEPT ![c] = @ \cup {produced + 1}]
           /\ UNCHANGED <<brokerPose, latest, rows>>

Oldest(c, f) == f \in pending[c] /\ \A g \in pending[c] : f <= g

Take(c, f) == /\ Oldest(c, f)
              /\ pending' = [pending EXCEPT ![c] = @ \ {f}]

BrokerTakes(f) == /\ Take(Broker, f)
                  /\ f > brokerPose
                  /\ brokerPose' = f
                  /\ UNCHANGED <<produced, latest, rows>>

AppTakes(a, f) == /\ Take(a, f)
                  /\ f > latest[a]
                  /\ latest' = [latest EXCEPT ![a] = f]
                  /\ rows' = rows \ {a}
                  /\ UNCHANGED <<produced, brokerPose>>

CopyRow(a) == /\ pending[a] = {}
              /\ latest' = [latest EXCEPT ![a] = brokerPose]
              /\ rows' = rows \cup {a}
              /\ UNCHANGED <<produced, pending, brokerPose>>

LoseAll(c) == pending' = [pending EXCEPT ![c] = {}]

HangUp(c) == LoseAll(c) /\ UNCHANGED <<produced, brokerPose, latest, rows>>

RestartBroker == /\ LoseAll(Broker)
                 /\ brokerPose' = 0
                 /\ rows' = {}
                 /\ UNCHANGED <<produced, latest>>

RestartApp(a) == /\ LoseAll(a)
                 /\ latest' = [latest EXCEPT ![a] = 0]
                 /\ rows' = rows \ {a}
                 /\ UNCHANGED <<produced, brokerPose>>

RelayNext == \/ Produce
             \/ \E f \in pending[Broker] : BrokerTakes(f)
             \/ \E c \in Readers : HangUp(c)
             \/ RestartBroker
             \/ \E a \in Apps : \/ \E f \in pending[a] : AppTakes(a, f)
                                \/ CopyRow(a)
                                \/ RestartApp(a)

RelaySpec == RelayInit /\ [][RelayNext]_relayVars
=============================================================================
