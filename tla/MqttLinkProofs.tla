---------------------------- MODULE MqttLinkProofs ----------------------------
(***************************************************************************)
(* Theorems about the connection to the broker, for every value of the     *)
(* constants: no session lacks a subscription, and the client implements   *)
(* module Link, on which the controllers rely.                             *)
(***************************************************************************)
EXTENDS MqttLink, DivisionLemmas

(* What both need at every step: where main is and what it has reached.    *)
(* A connect begins without a socket, and outside of mqttConnect() setup() *)
(* is over.                                                                *)
LinkInv ==
  /\ NeverDeaf
  /\ pc = "tcp" => ~socket
  /\ guarded \in BOOLEAN /\ (pc \notin Connecting => guarded)

LEMMA LinkInvInit == Init => LinkInv
BY DEF Init, LinkInv, NeverDeaf, Connecting

(* The steps of main ...                                                   *)
LEMMA LinkInvProgram == LinkInv /\ Program => LinkInv'
<1> SUFFICES ASSUME LinkInv, Program PROVE LinkInv'
  OBVIOUS
<1> USE DEF LinkInv, NeverDeaf, Connecting, Goto, netVars
<1>1. CASE Connected BY <1>1 DEF Connected
<1>2. CASE Attempt BY <1>2 DEF Attempt
<1>3. CASE TooEarly BY <1>3 DEF TooEarly, progVars
<1>4. CASE Accept BY <1>4 DEF Accept
<1>5. CASE Refuse BY <1>5 DEF Refuse, Return
<1>6. CASE GotConnack BY <1>6 DEF GotConnack
<1>7. CASE NoConnack BY <1>7 DEF NoConnack, Return, Close
<1>8. CASE Delayed BY <1>8 DEF Delayed
<1>9. CASE Subscribe BY <1>9 DEF Subscribe
<1>10. CASE SubscribedAll BY <1>10 DEF SubscribedAll, Return
<1>11. CASE InTime BY <1>11 DEF InTime
<1>12. CASE Ping BY <1>12 DEF Ping
<1>13. CASE GiveUp BY <1>13 DEF GiveUp, Close
<1>14. CASE NothingToRead BY <1>14 DEF NothingToRead
<1>15. CASE Read BY <1>15 DEF Read
<1>16. CASE Report BY <1>16 DEF Report
<1> QED
  BY <1>1, <1>2, <1>3, <1>4, <1>5, <1>6, <1>7, <1>8, <1>9, <1>10, <1>11, <1>12, <1>13,
     <1>14, <1>15, <1>16 DEF Program

(* ... and those around it.                                                *)
LEMMA LinkInvNext == LinkInv /\ [Next]_vars => LinkInv'
<1> SUFFICES ASSUME LinkInv, [Next]_vars PROVE LinkInv'
  OBVIOUS
<1>1. CASE Program BY <1>1, LinkInvProgram
<1> USE DEF LinkInv, NeverDeaf, Connecting, netVars, progVars
<1>2. CASE Time BY <1>2 DEF Time
<1>3. CASE Answer \/ Message BY <1>3 DEF Answer, Message, Arrives
<1>4. CASE BrokerFails BY <1>4 DEF BrokerFails, Vanish, Decline, Arrives
<1>5. CASE Closed BY <1>5 DEF Closed
<1>6. CASE Network BY <1>6 DEF Network
<1>7. CASE PowerLoss BY <1>7 DEF PowerLoss
<1>8. CASE UNCHANGED vars BY <1>8 DEF vars
<1> QED
  BY <1>1, <1>2, <1>3, <1>4, <1>5, <1>6, <1>7, <1>8 DEF Next

THEOREM LinkInvariant == Spec => []LinkInv
BY LinkInvInit, LinkInvNext, PTL DEF Spec

(* loop() never runs on a connection that lacks a subscription.            *)
THEOREM SessionsSubscribed == Spec => []NeverDeaf
<1>1. LinkInv => NeverDeaf
  BY DEF LinkInv
<1> QED
  BY <1>1, LinkInvariant, PTL
-----------------------------------------------------------------------------
(* A step of main is a step of Link, or shows loop() no change.            *)
LEMMA ProgramSimulates ==
  LinkInv /\ LinkInv' /\ Program => Promise!Next \/ UNCHANGED LinkState
<1> SUFFICES ASSUME LinkInv, LinkInv', Program PROVE Promise!Next \/ UNCHANGED LinkState
  OBVIOUS
<1> USE DEF LinkInv, LinkState, Connecting, Goto, netVars
<1>1. CASE Connected BY <1>1 DEF Connected
<1>2. CASE Attempt BY <1>2 DEF Attempt, Promise!Next, Promise!Attempt
<1>3. CASE TooEarly BY <1>3 DEF TooEarly, progVars
<1>4. CASE Accept BY <1>4 DEF Accept
<1>5. CASE Refuse BY <1>5 DEF Refuse, Return, Promise!Next, Promise!Result
<1>6. CASE GotConnack BY <1>6 DEF GotConnack
<1>7. CASE NoConnack BY <1>7 DEF NoConnack, Return, Close, Promise!Next, Promise!Result
<1>8. CASE Delayed BY <1>8 DEF Delayed
<1>9. CASE Subscribe BY <1>9 DEF Subscribe
<1>10. CASE SubscribedAll BY <1>10 DEF SubscribedAll, Return, Promise!Next, Promise!Result
<1>11. CASE InTime BY <1>11 DEF InTime
<1>12. CASE Ping BY <1>12 DEF Ping
<1>13. CASE GiveUp BY <1>13 DEF GiveUp, Close, Promise!Next, Promise!Lose
<1>14. CASE NothingToRead BY <1>14 DEF NothingToRead
<1>15. CASE Read BY <1>15 DEF Read
<1>16. CASE Report BY <1>16 DEF Report
<1> QED
  BY <1>1, <1>2, <1>3, <1>4, <1>5, <1>6, <1>7, <1>8, <1>9, <1>10, <1>11, <1>12, <1>13,
     <1>14, <1>15, <1>16 DEF Program

LEMMA StepSimulates ==
  LinkInv /\ LinkInv' /\ [Next]_vars => [Promise!Next]_LinkState
<1> SUFFICES ASSUME LinkInv, LinkInv', [Next]_vars PROVE [Promise!Next]_LinkState
  OBVIOUS
<1>1. CASE Program BY <1>1, ProgramSimulates
<1> USE DEF LinkInv, LinkState, Connecting, netVars, progVars
<1>2. CASE Time BY <1>2 DEF Time
<1>3. CASE Answer \/ Message BY <1>3 DEF Answer, Message, Arrives
<1>4. CASE BrokerFails BY <1>4 DEF BrokerFails, Vanish, Decline, Arrives
<1>5. CASE Closed BY <1>5 DEF Closed, Promise!Next, Promise!Lose
<1>6. CASE Network BY <1>6 DEF Network
<1>7. CASE PowerLoss BY <1>7 DEF PowerLoss, Promise!Next, Promise!Reset
<1>8. CASE UNCHANGED vars BY <1>8 DEF vars
<1> QED
  BY <1>1, <1>2, <1>3, <1>4, <1>5, <1>6, <1>7, <1>8 DEF Next

(* The client gives loop() the link that module Link describes.            *)
THEOREM ClientImplementsLink == Spec => LinkSpec
<1>1. Init => Promise!Init
  BY DEF Init, Promise!Init, LinkState, Connecting
<1> QED
  BY <1>1, LinkInvariant, StepSimulates, PTL DEF Spec, LinkSpec, Promise!Spec

-----------------------------------------------------------------------------
(* The constants, and the sums of them that the bounds are made of.        *)
LEMMA Constants ==
  /\ W \in Nat \ {0} /\ W \div 2 \in Nat /\ 2 * (W \div 2) = W
  /\ MQTT_KEEPALIVE \in Nat /\ MQTT_SOCKET_TIMEOUT \in Nat
  /\ ReconnectPeriod \in Nat /\ ConnectDelay \in Nat /\ PassTicks \in Nat
  /\ WDTO \in Nat /\ Topics \in Nat \ {0} /\ MaxInbox \in Nat \ {0}
  /\ MQTT_SOCKET_TIMEOUT <= MQTT_KEEPALIVE
  /\ PassTicks <= ConnectDelay /\ ConnectDelay <= PassTicks + PassTicks
  /\ ConnectDelay <= MQTT_KEEPALIVE
  /\ WDTO + PassTicks < W \div 2 /\ WDTO < W - 1
  /\ ReconnectPeriod + PassTicks + 1 < W \div 2 /\ ReconnectPeriod < W - 1
  /\ OutBound \in Nat /\ OutBound = MQTT_KEEPALIVE + PassTicks + PassTicks
  /\ WaitBound \in Nat
  /\ SilenceBound \in Nat /\ SilenceBound = OutBound + OutBound + WaitBound
  /\ SilenceBound + 1 < W /\ OutBound + 1 < W
  /\ IdleBound = ReconnectPeriod + PassTicks /\ LongAgo = ReconnectPeriod + 1
<1>1. W \in Nat \ {0} /\ W \div 2 \in Nat /\ 2 * (W \div 2) = W
  <2>1. W \in Nat \ {0} /\ W % 2 = 0
    <3>1. W \in Nat /\ W % 2 = 0
      BY LinkAssumption
    <3>2. WDTO \in Nat /\ PassTicks \in Nat /\ 2 * (WDTO + PassTicks) < W
      BY LinkAssumption
    <3> QED
      BY <3>1, <3>2
  <2>2. W \div 2 \in Nat /\ W = 2 * (W \div 2) + (W % 2)
    BY <2>1, Division
  <2> QED
    BY <2>1, <2>2
<1>2. WaitBound \in Nat
  BY LinkAssumption DEF WaitBound
<1>3. /\ MQTT_KEEPALIVE \in Nat /\ MQTT_SOCKET_TIMEOUT \in Nat
      /\ ReconnectPeriod \in Nat /\ ConnectDelay \in Nat /\ PassTicks \in Nat
      /\ WDTO \in Nat /\ Topics \in Nat \ {0} /\ MaxInbox \in Nat \ {0}
      /\ MQTT_SOCKET_TIMEOUT <= MQTT_KEEPALIVE
      /\ PassTicks <= ConnectDelay /\ ConnectDelay <= 2 * PassTicks
      /\ ConnectDelay <= MQTT_KEEPALIVE
      /\ 2 * (WDTO + PassTicks) < W /\ 2 * (ReconnectPeriod + 2 * PassTicks + 1) < W
  BY LinkAssumption
<1>4. /\ OutBound \in Nat /\ OutBound = MQTT_KEEPALIVE + PassTicks + PassTicks
      /\ SilenceBound \in Nat /\ SilenceBound = OutBound + OutBound + WaitBound
      /\ SilenceBound + 1 < W
  <2>1. OutBound \in Nat /\ OutBound = MQTT_KEEPALIVE + PassTicks + PassTicks
    BY <1>3 DEF OutBound
  <2>2. SilenceBound = 2 * OutBound + WaitBound /\ SilenceBound + 1 < W
    BY LinkAssumption DEF SilenceBound, OutBound, WaitBound
  <2> QED
    BY <1>2, <2>1, <2>2
<1>5. IdleBound = ReconnectPeriod + PassTicks /\ LongAgo = ReconnectPeriod + 1
  BY DEF IdleBound, LongAgo
<1> QED
  BY <1>1, <1>2, <1>3, <1>4, <1>5

(* The time since a reading of the clock, one tick later and as a signed   *)
(* number.                                                                 *)
LEMMA SinceNow ==
  ASSUME now \in 0 .. W - 1, NEW time \in 0 .. W - 1
  PROVE  /\ Since(time) \in 0 .. W - 1 /\ Since(time) \in Nat
         /\ time = now => Since(time) = 0
         /\ time = 0 => Since(time) = now
<1>1. W \in Nat \ {0}
  BY Constants
<1>2. /\ Since(time) \in 0 .. W - 1
      /\ time <= now => Since(time) = now - time
  BY <1>1, Difference DEF Since
<1> QED
  BY <1>1, <1>2

LEMMA SinceLater ==
  ASSUME now \in 0 .. W - 1, NEW time \in 0 .. W - 1, Since(time) < W - 1
  PROVE  (((now + 1) % W) - time) % W = Since(time) + 1
BY Constants, Elapse DEF Since

LEMMA SignedSmall ==
  ASSUME NEW n \in 0 .. W - 1
  PROVE  /\ n < W \div 2 => Signed(n) = n
         /\ n >= W \div 2 => Signed(n) < 0
BY Constants DEF Signed

(* What a tick does to a history variable.                                 *)
LEMMA OlderBounds ==
  ASSUME NEW bound \in Nat, NEW n \in 0 .. bound + 1
  PROVE  /\ Older(n, bound) \in 0 .. bound + 1
         /\ Older(n, bound) <= n + 1
         /\ Older(n, bound) <= bound => Older(n, bound) = n + 1 /\ n <= bound
         /\ Older(n, bound) > 0
BY DEF Older

-----------------------------------------------------------------------------
(* The types, in three parts.                                              *)
Packet == {"CONNACK", "REFUSED", "PINGRESP", "PUBLISH"}
InboxType == inbox \in Seq(Packet) /\ Len(inbox) <= MaxInbox

FlagTypes ==
  /\ pingOutstanding \in BOOLEAN /\ guarded \in BOOLEAN /\ steady \in BOOLEAN
  /\ socket \in BOOLEAN /\ peer \in BOOLEAN /\ reach \in BOOLEAN

OtherTypes ==
  /\ now \in 0 .. W - 1 /\ t \in 0 .. W - 1
  /\ lastAttempt \in 0 .. W - 1 /\ lastIn \in 0 .. W - 1 /\ lastOut \in 0 .. W - 1
  /\ pc \in {"loop", "keepalive", "read", "report"} \union Connecting
  /\ subscribed \in 0 .. Topics
  /\ wdt \in 0 .. WDTO /\ busy \in 0 .. ConnectDelay + PassTicks
  /\ owes \in {"nothing", "CONNACK", "PINGRESP"}
  /\ quietIn \in 0 .. SilenceBound + 1 /\ quietOut \in 0 .. OutBound + 1
  /\ sinceTry \in 0 .. LongAgo /\ idle \in 0 .. IdleBound + 1

LEMMA Types == TypeOK <=> InboxType /\ FlagTypes /\ OtherTypes
BY DEF TypeOK, InboxType, FlagTypes, OtherTypes, Packet

LEMMA Empty == <<>> \in Seq(Packet) /\ Len(<<>>) = 0
OBVIOUS

LEMMA TypeInit == Init => TypeOK
<1>1. Init => InboxType
  BY Constants, Empty DEF Init, InboxType
<1>2. Init => FlagTypes
  BY DEF Init, FlagTypes
<1>3. Init => OtherTypes
  BY Constants DEF Init, OtherTypes, Connecting
<1> QED
  BY <1>1, <1>2, <1>3, Types

LEMMA InboxNext == TypeOK /\ [Next]_vars => InboxType'
<1> SUFFICES ASSUME InboxType, OtherTypes, [Next]_vars PROVE InboxType'
  BY Types
<1> USE Empty, Constants DEF InboxType, netVars
<1>1. CASE Program
  <2>1. inbox' = inbox \/ inbox' = <<>> \/ (inbox # <<>> /\ inbox' = Tail(inbox))
    BY <1>1 DEF Program, Connected, Attempt, TooEarly, Accept, Refuse, GotConnack, NoConnack,
                Close, Delayed, Subscribe, SubscribedAll, InTime, Ping, GiveUp, NothingToRead,
                Read, Report
  <2>2. CASE inbox' = inbox
    BY <2>2
  <2>4. CASE inbox' = <<>>
    BY <2>4
  <2>3. CASE inbox # <<>> /\ inbox' = Tail(inbox)
    <3>1. Tail(inbox) \in Seq(Packet) /\ Len(Tail(inbox)) = Len(inbox) - 1 /\ Len(inbox) \in Nat
      BY <2>3
    <3> QED
      BY <2>3, <3>1
  <2> QED
    BY <2>1, <2>2, <2>3, <2>4
<1>2. CASE Time BY <1>2 DEF Time
<1>3. CASE Answer BY <1>3 DEF Answer, Arrives, OtherTypes, Packet
<1>4. CASE Message BY <1>4 DEF Message, Arrives, Packet
<1>5. CASE BrokerFails BY <1>5 DEF BrokerFails, Vanish, Decline, Arrives, Packet
<1>6. CASE Closed BY <1>6 DEF Closed
<1>7. CASE Network BY <1>7 DEF Network
<1>8. CASE PowerLoss BY <1>8 DEF PowerLoss
<1>9. CASE UNCHANGED vars BY <1>9 DEF vars
<1> QED
  BY <1>1, <1>2, <1>3, <1>4, <1>5, <1>6, <1>7, <1>8, <1>9 DEF Next

LEMMA FlagsNext == TypeOK /\ [Next]_vars => FlagTypes'
<1> SUFFICES ASSUME FlagTypes, [Next]_vars PROVE FlagTypes'
  BY Types
<1> USE DEF FlagTypes, progVars, netVars, pastVars
<1>1. CASE Program
  BY <1>1 DEF Program, Connected, Attempt, TooEarly, Accept, Refuse, Return, GotConnack,
              NoConnack, Close, Delayed, Subscribe, SubscribedAll, InTime, Ping, GiveUp,
              NothingToRead, Read, Report
<1>2. CASE Time \/ Answer \/ Message \/ BrokerFails
  BY <1>2 DEF Time, Answer, Message, BrokerFails, Vanish, Decline, Arrives
<1>3. CASE Closed \/ Network \/ PowerLoss \/ UNCHANGED vars
  BY <1>3 DEF Closed, Network, PowerLoss, vars
<1> QED
  BY <1>1, <1>2, <1>3 DEF Next

LEMMA OthersProgram == OtherTypes /\ Program => OtherTypes'
<1> SUFFICES ASSUME OtherTypes, Program PROVE OtherTypes'
  OBVIOUS
<1> USE Constants
    DEF OtherTypes, Connecting, Goto, progVars, timeVars, netVars, pastVars
<1>1. CASE Connected BY <1>1 DEF Connected
<1>2. CASE Attempt BY <1>2 DEF Attempt
<1>3. CASE TooEarly BY <1>3 DEF TooEarly
<1>4. CASE Accept BY <1>4 DEF Accept
<1>5. CASE Refuse BY <1>5 DEF Refuse, Return
<1>6. CASE GotConnack BY <1>6 DEF GotConnack
<1>7. CASE NoConnack BY <1>7 DEF NoConnack, Return, Close
<1>8. CASE Delayed BY <1>8 DEF Delayed
<1>9. CASE Subscribe BY <1>9 DEF Subscribe
<1>10. CASE SubscribedAll BY <1>10 DEF SubscribedAll, Return
<1>11. CASE InTime BY <1>11 DEF InTime
<1>12. CASE Ping BY <1>12 DEF Ping
<1>13. CASE GiveUp BY <1>13 DEF GiveUp, Close
<1>14. CASE NothingToRead BY <1>14 DEF NothingToRead
<1>15. CASE Read BY <1>15 DEF Read
<1>16. CASE Report BY <1>16 DEF Report
<1> QED
  BY <1>1, <1>2, <1>3, <1>4, <1>5, <1>6, <1>7, <1>8, <1>9, <1>10, <1>11, <1>12, <1>13,
     <1>14, <1>15, <1>16 DEF Program

LEMMA OthersTime == OtherTypes /\ Time => OtherTypes'
<1> SUFFICES ASSUME OtherTypes, Time PROVE OtherTypes'
  OBVIOUS
<1>1. now' \in 0 .. W - 1
  <2>1. now' = IF now + 1 = W THEN 0 ELSE now + 1
    BY Constants, Successor DEF OtherTypes, Time
  <2> QED
    BY <2>1, Constants DEF OtherTypes
<1>2. wdt' \in 0 .. WDTO /\ busy' \in 0 .. ConnectDelay + PassTicks
  BY Constants DEF OtherTypes, Time, MayPass
<1>3. quietIn' \in 0 .. SilenceBound + 1 /\ quietOut' \in 0 .. OutBound + 1
  BY Constants, OlderBounds DEF OtherTypes, Time
<1>4. sinceTry' \in 0 .. LongAgo /\ idle' \in 0 .. IdleBound + 1
  BY Constants DEF OtherTypes, Time, Older
<1>5. UNCHANGED <<progVars, netVars>>
  BY DEF Time
<1> QED
  BY <1>1, <1>2, <1>3, <1>4, <1>5 DEF OtherTypes, progVars, netVars

LEMMA OthersNext == OtherTypes /\ [Next]_vars => OtherTypes'
<1> SUFFICES ASSUME OtherTypes, [Next]_vars PROVE OtherTypes'
  OBVIOUS
<1>1. CASE Program BY <1>1, OthersProgram
<1>2. CASE Time BY <1>2, OthersTime
<1> USE Constants
    DEF OtherTypes, Connecting, progVars, timeVars, netVars, pastVars
<1>3. CASE Answer BY <1>3 DEF Answer, Arrives
<1>4. CASE Message BY <1>4 DEF Message, Arrives
<1>5. CASE Vanish BY <1>5 DEF Vanish
<1>6. CASE Decline BY <1>6 DEF Decline, Arrives
<1>7. CASE Closed BY <1>7 DEF Closed
<1>8. CASE Network BY <1>8 DEF Network
<1>9. CASE PowerLoss BY <1>9 DEF PowerLoss
<1>10. CASE UNCHANGED vars BY <1>10 DEF vars
<1> QED
  BY <1>1, <1>2, <1>3, <1>4, <1>5, <1>6, <1>7, <1>8, <1>9, <1>10 DEF Next, BrokerFails

LEMMA TypeNext == TypeOK /\ [Next]_vars => TypeOK'
<1> SUFFICES ASSUME TypeOK, [Next]_vars PROVE TypeOK'
  OBVIOUS
<1>1. InboxType' /\ FlagTypes' /\ OtherTypes'
  BY InboxNext, FlagsNext, OthersNext, Types
<1> QED
  BY <1>1 DEF TypeOK, InboxType, FlagTypes, OtherTypes, Packet

(* Type correctness of the connection.                                     *)
THEOREM LinkTypeCorrect == Spec => []TypeOK
BY TypeInit, TypeNext, PTL DEF Spec

-----------------------------------------------------------------------------
(* The steps that neither begin nor end an attempt, and are not the clock. *)
Aside == Answer \/ Message \/ BrokerFails \/ Network

LEMMA AsideStep ==
  Aside => UNCHANGED <<progVars, timeVars, socket, quietOut, sinceTry, idle>>
BY DEF Aside, Answer, Message, Arrives, BrokerFails, Vanish, Decline, Network, pastVars

(* What an attempt leaves behind.                                          *)
LEMMA SpacedInit == Init => SpacedInv
BY Constants DEF Init, SpacedInv

LEMMA SpacedNext == TypeOK /\ LinkInv /\ SpacedInv /\ [Next]_vars => SpacedInv'
<1> SUFFICES ASSUME TypeOK, LinkInv, SpacedInv, [Next]_vars PROVE SpacedInv'
  OBVIOUS
<1>1. CASE Attempt
  <2>1. Since(now) = 0
    BY SinceNow DEF TypeOK
  <2>2. guarded
    BY <1>1 DEF Attempt, LinkInv, Connecting
  <2> QED
    BY <1>1, <2>1, <2>2 DEF Attempt, SpacedInv, Since
<1>2. CASE Refuse \/ NoConnack \/ SubscribedAll
  <2>1. PICK success \in BOOLEAN : Return(success) /\ now' = now
    BY <1>2 DEF Refuse, NoConnack, SubscribedAll, TypeOK
  <2>2. CASE success
    BY <2>1, <2>2, Constants DEF Return, SpacedInv
  <2>3. CASE ~success
    BY <2>1, <2>3 DEF Return, SpacedInv, Since
  <2> QED
    BY <2>2, <2>3
<1>3. CASE Time
  <2>1. UNCHANGED <<guarded, lastAttempt>> /\ sinceTry' = Older(sinceTry, ReconnectPeriod)
        /\ now' = (now + 1) % W
    BY <1>3 DEF Time, progVars
  <2>2. CASE sinceTry' <= ReconnectPeriod
    <3>1. sinceTry <= ReconnectPeriod /\ sinceTry' = sinceTry + 1 /\ sinceTry < W - 1
      BY <2>1, <2>2, Constants, OlderBounds DEF TypeOK
    <3>2. guarded /\ Since(lastAttempt) = sinceTry
      BY <3>1 DEF SpacedInv
    <3>3. ((((now + 1) % W) - lastAttempt) % W) = Since(lastAttempt) + 1
      BY <3>1, <3>2, SinceLater DEF TypeOK
    <3> QED
      BY <2>1, <3>1, <3>2, <3>3 DEF SpacedInv, Since
  <2> QED
    BY <2>2 DEF SpacedInv
<1>4. CASE PowerLoss
  BY <1>4, Constants DEF PowerLoss, SpacedInv
<1>5. CASE UNCHANGED <<now, guarded, lastAttempt, sinceTry>>
  BY <1>5 DEF SpacedInv, Since
<1>6. Program => \/ Attempt \/ Refuse \/ NoConnack \/ SubscribedAll
                 \/ UNCHANGED <<now, guarded, lastAttempt, sinceTry>>
  BY DEF Program, Connected, TooEarly, Accept, GotConnack, Delayed, Subscribe, InTime, Ping,
         GiveUp, NothingToRead, Read, Report, progVars, timeVars, pastVars
<1>7. Aside \/ Closed \/ UNCHANGED vars => UNCHANGED <<now, guarded, lastAttempt, sinceTry>>
  BY AsideStep DEF Closed, vars, progVars, timeVars, pastVars
<1> QED
  BY <1>1, <1>2, <1>3, <1>4, <1>5, <1>6, <1>7 DEF Next, Aside

THEOREM SpacedInvariant == Spec => []SpacedInv
BY SpacedInit, SpacedNext, LinkTypeCorrect, LinkInvariant, PTL DEF Spec

(* After an attempt that failed the next one waits for longer than         *)
(* ReconnectPeriod, wherever the counter wraps.                            *)
THEOREM TriesSpaced == Spec => AttemptsSpaced
<1>1. TypeOK /\ SpacedInv /\ [Next]_vars => [Attempt => sinceTry > ReconnectPeriod]_vars
  <2> SUFFICES ASSUME TypeOK, SpacedInv, Attempt, sinceTry <= ReconnectPeriod PROVE FALSE
    BY Constants DEF TypeOK
  <2>1. Since(lastAttempt) = sinceTry /\ sinceTry \in 0 .. W - 1 /\ sinceTry < W \div 2
    BY Constants DEF SpacedInv, TypeOK
  <2>2. Signed(Since(lastAttempt)) = sinceTry
    BY <2>1, SignedSmall
  <2> QED
    BY <2>1, <2>2, Constants DEF Attempt, TimeToTry
<1> QED
  BY <1>1, LinkTypeCorrect, SpacedInvariant, PTL DEF Spec, AttemptsSpaced

-----------------------------------------------------------------------------
(* The next attempt is not long in coming.                                 *)
LEMMA RetryInit == Init => RetryInv
<1> SUFFICES ASSUME Init PROVE RetryInv
  OBVIOUS
<1> QED
  BY DEF Init, RetryInv, Connecting

(* How an attempt ends: an attempt that failed keeps its time, which is    *)
(* wdt ticks ago, or that time is 0.                                       *)
LEMMA RetryReturn ==
  ASSUME TypeOK, RetryInv, NEW success \in BOOLEAN, Return(success), now' = now,
         pc \in Connecting, socket' => success
  PROVE  RetryInv'
<1>1. pc' = "loop" /\ guarded' = TRUE /\ busy' = 0 /\ idle' = 0
  BY DEF Return, Goto
<1>2. lastAttempt' = 0 \/ (~success /\ guarded /\ lastAttempt' = lastAttempt)
  BY DEF Return, TypeOK
<1>3. CASE lastAttempt' = 0
  BY <1>1, <1>3, Constants DEF RetryInv, Connecting
<1>4. CASE ~success /\ guarded /\ lastAttempt' = lastAttempt /\ lastAttempt # 0
  <2>1. Since(lastAttempt) = wdt /\ wdt \in 0 .. WDTO /\ WDTO \in Nat
    BY <1>4, Constants DEF RetryInv, TypeOK
  <2>2. Since(lastAttempt)' = wdt
    BY <1>4, <2>1 DEF Since
  <2>3. ~socket'
    BY <1>4
  <2>4. pc' \notin Connecting /\ lastAttempt' # 0
    BY <1>1, <1>4 DEF Connecting
  <2> QED
    BY <1>1, <2>1, <2>2, <2>3, <2>4, Constants DEF RetryInv
<1> QED
  BY <1>2, <1>3, <1>4

LEMMA RetryLoop ==
  ASSUME TypeOK, LinkInv, RetryInv, Connected \/ Attempt \/ TooEarly PROVE RetryInv'
<1>1. CASE Connected
  <2>1. lastAttempt = 0 /\ idle = 0
    BY <1>1, Constants DEF Connected, RetryInv, TypeOK, Connecting
  <2> QED
    BY <1>1, <2>1, Constants DEF Connected, RetryInv, Goto, Connecting, netVars, pastVars
<1>2. CASE Attempt
  <2>1. Since(now) = 0
    BY SinceNow DEF TypeOK
  <2> QED
    BY <1>2, <2>1 DEF Attempt, RetryInv, Goto, Connecting, Since
<1>3. CASE TooEarly
  <2>1. /\ pc = "loop" /\ pc' = pc /\ socket' = socket /\ busy' = 0 /\ wdt' = 0
        /\ UNCHANGED <<guarded, lastAttempt, now, idle>>
        /\ ~(Signed(Since(lastAttempt)) > ReconnectPeriod)
    BY <1>3 DEF TooEarly, progVars, netVars, pastVars, TimeToTry
  <2>2. Since(lastAttempt) \in 0 .. W - 1 /\ (lastAttempt = 0 => Since(lastAttempt) = now)
    BY SinceNow DEF TypeOK
  <2>3. Since(lastAttempt) <= ReconnectPeriod \/ Since(lastAttempt) >= W \div 2
    BY <2>1, <2>2, SignedSmall, Constants
  <2>4. CASE lastAttempt = 0
    <3>1. now >= W \div 2 \/ now <= ReconnectPeriod
      BY <2>2, <2>3, <2>4
    <3> QED
      BY <2>1, <2>4, <3>1, Constants DEF RetryInv, Connecting
  <2>5. CASE lastAttempt # 0
    <3>1. /\ ~socket /\ idle <= Since(lastAttempt) /\ busy \in Nat /\ busy <= PassTicks
          /\ \/ Since(lastAttempt) <= WDTO + busy
             \/ Since(lastAttempt) <= ReconnectPeriod + busy
      BY <2>1, <2>5, Constants DEF RetryInv, Connecting, TypeOK
    <3>2. Since(lastAttempt) <= ReconnectPeriod
      BY <2>2, <2>3, <3>1, Constants
    <3>3. Since(lastAttempt)' = Since(lastAttempt)
      BY <2>1 DEF Since
    <3> QED
      BY <2>1, <2>5, <3>1, <3>2, <3>3, Constants DEF RetryInv, Connecting
  <2> QED
    BY <2>4, <2>5
<1> QED
  BY <1>1, <1>2, <1>3

LEMMA RetryTime ==
  ASSUME TypeOK, RetryInv, Time PROVE RetryInv'
<1> USE Constants
<1>1. /\ wdt < WDTO /\ UNCHANGED <<pc, socket, guarded, lastAttempt>>
      /\ wdt' = (IF guarded THEN wdt + 1 ELSE 0) /\ now' = (now + 1) % W
      /\ pc \notin {"tcp", "connack"} => busy' = busy + 1
      /\ pc \notin Connecting => busy < PassTicks
  BY DEF Time, MayPass, progVars, netVars, Connecting
<1>2. idle' = (IF ~socket /\ pc \notin Connecting THEN Older(idle, IdleBound) ELSE 0)
  BY DEF Time
<1>3. /\ busy \in Nat /\ wdt \in 0 .. WDTO /\ idle \in 0 .. IdleBound + 1 /\ now \in 0 .. W - 1
      /\ lastAttempt \in 0 .. W - 1 /\ IdleBound \in Nat
  BY DEF TypeOK
<1>4. idle' \in 0 .. IdleBound + 1 /\ idle' <= idle + 1
  <2>1. Older(idle, IdleBound) \in 0 .. IdleBound + 1 /\ Older(idle, IdleBound) <= idle + 1
    BY <1>3, OlderBounds
  <2>2. idle' = 0 \/ idle' = Older(idle, IdleBound)
    BY <1>2
  <2>3. CASE idle' = 0
    BY <1>3, <2>3
  <2>4. CASE idle' = Older(idle, IdleBound)
    BY <2>1, <2>4
  <2> QED
    BY <2>2, <2>3, <2>4
<1>5. Since(lastAttempt) \in Nat
  BY <1>3, SinceNow
<1>6. Since(lastAttempt) < W - 1 => Since(lastAttempt)' = Since(lastAttempt) + 1
  BY <1>1, <1>3, SinceLater DEF Since
<1>7. idle' > 0 => ~socket' /\ pc' \notin Connecting
  BY <1>1, <1>2
<1>8. pc' \notin Connecting => busy' <= PassTicks
  BY <1>1, <1>3 DEF Connecting
<1>9. guarded' /\ pc' \in Connecting => Since(lastAttempt)' = wdt'
  BY <1>1, <1>3, <1>6 DEF RetryInv
<1>10. ASSUME pc' \notin Connecting, lastAttempt' # 0
       PROVE  /\ ~socket' /\ idle' <= Since(lastAttempt)'
              /\ \/ idle' <= busy' /\ Since(lastAttempt)' <= WDTO + busy'
                 \/ Since(lastAttempt)' <= ReconnectPeriod + busy'
  <2>1. /\ ~socket /\ idle <= Since(lastAttempt)
        /\ \/ idle <= busy /\ Since(lastAttempt) <= WDTO + busy
           \/ Since(lastAttempt) <= ReconnectPeriod + busy
    BY <1>1, <1>10 DEF RetryInv
  <2>2. busy' = busy + 1 /\ busy < PassTicks
    BY <1>1, <1>10 DEF Connecting
  <2>3. Since(lastAttempt)' = Since(lastAttempt) + 1
    BY <1>3, <1>5, <1>6, <2>1, <2>2
  <2> QED
    BY <1>1, <1>3, <1>4, <1>5, <2>1, <2>2, <2>3
<1>11. ASSUME pc' \notin Connecting, lastAttempt' = 0
       PROVE  idle' <= busy' \/ now' >= W \div 2 \/ now' <= ReconnectPeriod + busy'
  <2>1. idle <= busy \/ now >= W \div 2 \/ now <= ReconnectPeriod + busy
    BY <1>1, <1>11 DEF RetryInv
  <2>2. busy' = busy + 1
    BY <1>1, <1>11 DEF Connecting
  <2>3. now' = IF now + 1 = W THEN 0 ELSE now + 1
    BY <1>1, <1>3, Successor
  <2> QED
    BY <1>3, <1>4, <2>1, <2>2, <2>3
<1> QED
  BY <1>7, <1>8, <1>9, <1>10, <1>11 DEF RetryInv

LEMMA RetryNext == TypeOK /\ LinkInv /\ RetryInv /\ [Next]_vars => RetryInv'
<1> SUFFICES ASSUME TypeOK, LinkInv, RetryInv, [Next]_vars PROVE RetryInv'
  OBVIOUS
<1>1. CASE Connected \/ Attempt \/ TooEarly
  BY <1>1, RetryLoop
<1>2. CASE Refuse \/ NoConnack \/ SubscribedAll
  <2>1. PICK success \in BOOLEAN : Return(success) /\ now' = now /\ (socket' => success)
    BY <1>2 DEF Refuse, NoConnack, SubscribedAll, Close, TypeOK, LinkInv, netVars
  <2>2. pc \in Connecting
    BY <1>2 DEF Refuse, NoConnack, SubscribedAll, Connecting
  <2> QED
    BY <2>1, <2>2, RetryReturn
<1>3. CASE Time
  BY <1>3, RetryTime
<1>4. CASE Accept \/ GotConnack \/ Delayed \/ Subscribe
  <2>1. /\ UNCHANGED <<guarded, lastAttempt, now, wdt, idle>>
        /\ pc \in Connecting /\ pc' \in Connecting
    BY <1>4 DEF Accept, GotConnack, Delayed, Subscribe, Goto, Connecting, timeVars, pastVars
  <2>2. idle = 0
    BY <2>1, Constants DEF RetryInv, TypeOK
  <2> QED
    BY <2>1, <2>2 DEF RetryInv, Since
<1>5. CASE InTime \/ Ping \/ NothingToRead \/ Read \/ Report
  <2>1. /\ UNCHANGED <<guarded, lastAttempt, now, wdt, busy, socket, idle>>
        /\ pc \notin Connecting /\ pc' \notin Connecting
    BY <1>5 DEF InTime, Ping, NothingToRead, Read, Report, Goto, Connecting, timeVars,
                netVars, pastVars
  <2> QED
    BY <2>1 DEF RetryInv, Since
<1>6. CASE GiveUp \/ Closed
  <2>1. /\ UNCHANGED <<guarded, lastAttempt, now, wdt, busy>>
        /\ socket /\ ~socket' /\ idle' = 0
        /\ pc' \in Connecting <=> pc \in Connecting
    BY <1>6 DEF GiveUp, Closed, Close, Goto, Connecting, timeVars, progVars
  <2>2. pc \notin Connecting => lastAttempt = 0
    BY <2>1 DEF RetryInv
  <2>3. busy \in Nat
    BY Constants DEF TypeOK
  <2> QED
    BY <2>1, <2>2, <2>3 DEF RetryInv, Since
<1>7. CASE PowerLoss
  BY <1>7 DEF PowerLoss, RetryInv, Connecting
<1>8. CASE Aside \/ UNCHANGED vars
  <2>1. UNCHANGED <<pc, guarded, lastAttempt, now, wdt, busy, socket, idle>>
    BY <1>8, AsideStep DEF vars, progVars, timeVars, netVars, pastVars
  <2> QED
    BY <2>1 DEF RetryInv, Since
<1> QED
  BY <1>1, <1>2, <1>3, <1>4, <1>5, <1>6, <1>7, <1>8 DEF Next, Program, Aside

THEOREM RetryInvariant == Spec => []RetryInv
BY RetryInit, RetryNext, LinkTypeCorrect, LinkInvariant, PTL DEF Spec

(* Without a link the next attempt begins within ReconnectPeriod and a     *)
(* pass, but for the time after a success that the signed comparison hides.*)
THEOREM RetriesCome == Spec => []RetryComes
<1>1. TypeOK /\ RetryInv => RetryComes
  <2> SUFFICES ASSUME TypeOK, RetryInv, idle > IdleBound
               PROVE  lastAttempt = 0 /\ (now >= W \div 2 \/ now <= ReconnectPeriod + PassTicks)
    BY DEF RetryComes
  <2>1. /\ idle > 0 /\ busy \in Nat /\ idle \in Nat /\ now \in Nat /\ lastAttempt \in 0 .. W - 1
        /\ Since(lastAttempt) \in Nat
    BY SinceNow, Constants DEF TypeOK
  <2>2. pc \notin Connecting /\ busy <= PassTicks
    BY <2>1 DEF RetryInv
  <2>3. lastAttempt = 0
    BY <2>1, <2>2, Constants DEF RetryInv
  <2> QED
    BY <2>1, <2>2, <2>3, Constants DEF RetryInv
<1> QED
  BY <1>1, LinkTypeCorrect, RetryInvariant, PTL

-----------------------------------------------------------------------------
(* Packets in the order in which they came.                                *)
LEMMA Appending ==
  ASSUME NEW s \in Seq(Packet), NEW e \in Packet
  PROVE  /\ Append(s, e) \in Seq(Packet) /\ Len(Append(s, e)) = Len(s) + 1
         /\ DOMAIN Append(s, e) = 1 .. Len(s) + 1 /\ DOMAIN s = 1 .. Len(s) /\ Len(s) \in Nat
         /\ \A k \in DOMAIN s : Append(s, e)[k] = s[k]
         /\ Append(s, e)[Len(s) + 1] = e
         /\ Append(s, e) # <<>>
OBVIOUS

LEMMA Taking ==
  ASSUME NEW s \in Seq(Packet), s # <<>>
  PROVE  /\ Tail(s) \in Seq(Packet) /\ Len(Tail(s)) = Len(s) - 1
         /\ Len(s) \in Nat \ {0} /\ DOMAIN s = 1 .. Len(s)
         /\ DOMAIN Tail(s) = 1 .. Len(s) - 1
         /\ \A k \in DOMAIN Tail(s) : k + 1 \in DOMAIN s /\ Tail(s)[k] = s[k + 1]
         /\ Head(s) = s[1]
         /\ Len(s) <= 1 => Tail(s) = <<>>
OBVIOUS

LEMMA NothingIn == DOMAIN <<>> = {} /\ Len(<<>>) = 0
OBVIOUS

(* What the network may hold.                                              *)
LEMMA NetInit == Init => NetInv
BY NothingIn DEF Init, NetInv

LEMMA NetProgram == TypeOK /\ LinkInv /\ NetInv /\ Program => NetInv'
<1> SUFFICES ASSUME TypeOK, LinkInv, NetInv, Program PROVE NetInv'
  OBVIOUS
<1>1. CASE Connected \/ InTime \/ NothingToRead \/ Report
  <2>1. UNCHANGED netVars /\ pc \notin Connecting /\ pc' \notin Connecting
    BY <1>1 DEF Connected, InTime, NothingToRead, Report, Goto, Connecting
  <2> QED
    BY <2>1 DEF NetInv, Connecting, netVars
<1>2. CASE TooEarly
  BY <1>2 DEF TooEarly, NetInv, progVars, netVars
<1>3. CASE Attempt
  <2>1. UNCHANGED netVars /\ ~socket /\ pc' = "tcp" /\ subscribed' = 0
    BY <1>3 DEF Attempt, Goto
  <2> QED
    BY <2>1, NothingIn DEF NetInv, netVars
<1>4. CASE Accept
  <2>1. /\ pc = "tcp" /\ pc' = "connack" /\ subscribed' = subscribed
        /\ socket' /\ inbox' = <<>> /\ peer' /\ owes' = "CONNACK"
    BY <1>4 DEF Accept, Goto
  <2> QED
    BY <2>1, NothingIn DEF NetInv
<1>5. CASE GotConnack
  <2>1. /\ pc = "connack" /\ pc' = "delay" /\ inbox # <<>> /\ inbox' = Tail(inbox)
        /\ UNCHANGED <<subscribed, socket, peer, owes>>
    BY <1>5 DEF GotConnack, Goto
  <2>2. Len(inbox) <= 1 /\ owes = "nothing" /\ subscribed = 0
    BY <2>1 DEF NetInv, TypeOK
  <2>3. inbox' = <<>>
    BY <2>1, <2>2, Taking, Types DEF InboxType
  <2> QED
    BY <2>1, <2>2, <2>3, NothingIn DEF NetInv
<1>6. CASE Refuse \/ NoConnack \/ SubscribedAll \/ GiveUp
  <2>1. pc' \notin Connecting
    BY <1>6 DEF Refuse, NoConnack, SubscribedAll, GiveUp, Return, Goto, Connecting
  <2>2. UNCHANGED netVars \/ (~socket' /\ inbox' = <<>> /\ ~peer' /\ owes' = "nothing")
    BY <1>6 DEF Refuse, NoConnack, SubscribedAll, GiveUp, Close
  <2> QED
    BY <2>1, <2>2 DEF NetInv, Connecting, netVars
<1>7. CASE Delayed \/ Subscribe
  <2>1. UNCHANGED netVars /\ pc \in Connecting /\ pc' = "subscribe"
    BY <1>7 DEF Delayed, Subscribe, Goto, Connecting
  <2> QED
    BY <2>1 DEF NetInv, netVars, Connecting
<1>8. CASE Ping
  <2>1. /\ socket /\ pc = "keepalive" /\ pc' = "read" /\ UNCHANGED <<socket, inbox, peer>>
        /\ owes' = (IF peer THEN "PINGRESP" ELSE owes)
    BY <1>8 DEF Ping, Goto
  <2> QED
    BY <2>1 DEF NetInv, Connecting
<1>9. CASE Read
  <2>1. /\ inbox # <<>> /\ pc = "read" /\ pc' = "report" /\ UNCHANGED <<socket, peer, owes>>
    BY <1>9 DEF Read, Goto
  <2> QED
    BY <2>1 DEF NetInv, Connecting
<1> QED
  BY <1>1, <1>2, <1>3, <1>4, <1>5, <1>6, <1>7, <1>8, <1>9 DEF Program

LEMMA NetNext == TypeOK /\ LinkInv /\ NetInv /\ [Next]_vars => NetInv'
<1> SUFFICES ASSUME TypeOK, LinkInv, NetInv, [Next]_vars PROVE NetInv'
  OBVIOUS
<1>1. CASE Program BY <1>1, NetProgram
<1>2. CASE Answer \/ Message \/ Decline
  <2>1. PICK packet \in Packet :
          /\ inbox' = Append(inbox, packet) /\ peer
          /\ UNCHANGED <<pc, subscribed, socket, peer>>
          /\ owes' = "nothing"
          /\ IF owes = "nothing" THEN subscribed > 0 /\ packet = "PUBLISH"
                                 ELSE packet = owes \/ packet = "REFUSED"
    BY <1>2 DEF Answer, Message, Decline, Arrives, progVars, Packet, TypeOK
  <2>2. socket
    BY <2>1 DEF NetInv
  <2>3. pc # "tcp" /\ (pc \in {"connack", "delay"} => owes # "nothing" /\ pc = "connack" /\ inbox = <<>>)
    BY <2>1, <2>2, Constants DEF NetInv, LinkInv, TypeOK
  <2>4. pc = "connack" => Len(inbox') = 1
    BY <2>1, <2>3, NothingIn, Appending, Types DEF InboxType
  <2>5. pc \in Connecting => \A k \in DOMAIN inbox' : inbox'[k] # "PINGRESP"
    <3>1. /\ DOMAIN inbox' = 1 .. Len(inbox) + 1 /\ DOMAIN inbox = 1 .. Len(inbox)
          /\ Len(inbox) \in Nat
          /\ \A k \in DOMAIN inbox : inbox'[k] = inbox[k]
          /\ inbox'[Len(inbox) + 1] = packet
      BY <2>1, Appending, Types DEF InboxType
    <3>2. pc \in Connecting => packet # "PINGRESP"
      BY <2>1 DEF NetInv
    <3> QED
      BY <3>1, <3>2 DEF NetInv
  <2> QED
    BY <2>1, <2>2, <2>3, <2>4, <2>5 DEF NetInv
<1>3. CASE Vanish
  <2>1. owes' = "nothing" /\ ~peer' /\ UNCHANGED <<pc, subscribed, socket, inbox>>
    BY <1>3 DEF Vanish, progVars
  <2> QED
    BY <2>1 DEF NetInv
<1>4. CASE Closed
  <2>1. ~peer /\ inbox = <<>> /\ UNCHANGED <<pc, subscribed, inbox, peer, owes>>
    BY <1>4 DEF Closed, progVars
  <2> QED
    BY <2>1 DEF NetInv
<1>5. CASE PowerLoss
  <2>1. /\ pc' = "tcp" /\ subscribed' = 0 /\ ~socket' /\ inbox' = <<>> /\ ~peer'
        /\ owes' = "nothing"
    BY <1>5 DEF PowerLoss
  <2> QED
    BY <2>1, NothingIn DEF NetInv
<1>6. CASE Time \/ Network \/ UNCHANGED vars
  <2>1. UNCHANGED <<pc, subscribed, socket, inbox, peer, owes>>
    BY <1>6 DEF Time, Network, vars, progVars, netVars
  <2> QED
    BY <2>1 DEF NetInv
<1> QED
  BY <1>1, <1>2, <1>3, <1>4, <1>5, <1>6 DEF Next, BrokerFails

THEOREM NetInvariant == Spec => []NetInv
BY NetInit, NetNext, LinkTypeCorrect, LinkInvariant, PTL DEF Spec

-----------------------------------------------------------------------------
(* How long ago the client has sent something.                             *)
LEMMA OutInit == Init => OutInv
<1> SUFFICES ASSUME Init PROVE OutInv
  OBVIOUS
<1>1. now \in 0 .. W - 1 /\ lastOut = now
  BY TypeInit DEF Init, TypeOK
<1>2. Since(lastOut) = 0
  BY <1>1, SinceNow
<1> QED
  BY <1>2 DEF Init, OutInv

(* Nothing was sent, and the connection is what it was or gone.            *)
LEMMA OutGone ==
  ASSUME OutInv, UNCHANGED <<lastOut, quietOut, now>>, ~socket',
         pc' \in {"delay", "subscribe"} => pc' = pc /\ busy' = busy
  PROVE  OutInv'
BY DEF OutInv, Since

LEMMA OutProgram == TypeOK /\ LinkInv /\ RetryInv /\ NetInv /\ OutInv /\ Program => OutInv'
<1> SUFFICES ASSUME TypeOK, LinkInv, RetryInv, NetInv, OutInv, Program PROVE OutInv'
  OBVIOUS
<1> USE Constants
<1>0. /\ busy \in Nat /\ quietOut \in Nat /\ now \in 0 .. W - 1 /\ lastOut \in 0 .. W - 1
      /\ Since(now) = 0
  BY SinceNow DEF TypeOK
<1>1. CASE Connected
  <2>1. /\ pc = "loop" /\ socket /\ pc' = "keepalive" /\ busy' = 0
        /\ UNCHANGED <<lastOut, quietOut, now>>
    BY <1>1 DEF Connected, Goto, pastVars
  <2>2. quietOut <= MQTT_KEEPALIVE + busy /\ busy <= PassTicks
    BY <2>1 DEF OutInv, Passing, RetryInv, Connecting
  <2> QED
    BY <1>0, <2>1, <2>2 DEF OutInv, Since, Passing
<1>2. CASE Attempt \/ TooEarly \/ Refuse \/ NoConnack \/ GiveUp \/ (~socket /\ (InTime \/ SubscribedAll))
  <2>1. /\ UNCHANGED <<lastOut, quietOut, now>> /\ ~socket'
        /\ pc' \notin {"delay", "subscribe"}
    BY <1>2 DEF Attempt, TooEarly, Refuse, NoConnack, GiveUp, InTime, SubscribedAll, Return,
                Close, Goto, LinkInv, progVars, timeVars, netVars, pastVars
  <2> QED
    BY <2>1, OutGone
<1>3. CASE Accept
  <2>1. /\ pc' = "connack" /\ lastIn' = now /\ lastOut' = now /\ quietOut' = 0 /\ now' = now
    BY <1>3 DEF Accept, Goto, timeVars
  <2> QED
    BY <1>0, <2>1 DEF OutInv, Since, Passing
<1>4. CASE GotConnack
  <2>1. pc = "connack" /\ pc' = "delay" /\ busy' = 0 /\ UNCHANGED <<lastOut, quietOut, now, socket>>
    BY <1>4 DEF GotConnack, Goto, pastVars
  <2> QED
    BY <1>0, <2>1 DEF OutInv, Since, Passing
<1>5. CASE Delayed
  <2>1. /\ pc = "delay" /\ pc' = "subscribe" /\ busy = ConnectDelay
        /\ UNCHANGED <<lastOut, quietOut, now, socket, busy, subscribed>>
    BY <1>5 DEF Delayed, Goto, timeVars, netVars, pastVars
  <2>2. subscribed = 0
    BY <2>1 DEF NetInv
  <2> QED
    BY <1>0, <2>1, <2>2 DEF OutInv, Since, Passing
<1>6. CASE Subscribe
  <2>1. /\ pc = "subscribe" /\ pc' = pc /\ lastOut' = now /\ quietOut' = 0
        /\ UNCHANGED <<now, socket, busy>> /\ subscribed' = subscribed + 1 /\ subscribed \in Nat
    BY <1>6 DEF Subscribe, timeVars, netVars, TypeOK
  <2> QED
    BY <1>0, <2>1 DEF OutInv, Since, Passing
<1>7. CASE SubscribedAll /\ socket
  <2>1. /\ pc = "subscribe" /\ subscribed = Topics /\ pc' = "loop" /\ busy' = 0
        /\ UNCHANGED <<lastOut, quietOut, now>>
    BY <1>7 DEF SubscribedAll, Return, Goto
  <2>2. quietOut = 0
    BY <1>7, <2>1 DEF OutInv
  <2> QED
    BY <1>0, <2>1, <2>2 DEF OutInv, Since, Passing
<1>8. CASE InTime /\ socket
  <2>1. /\ pc = "keepalive" /\ pc' = "read" /\ Since(lastOut) <= MQTT_KEEPALIVE
        /\ UNCHANGED <<lastOut, quietOut, now, busy>>
    <3>1. Since(lastOut) \in Nat
      BY <1>0, SinceNow
    <3> QED
      BY <1>8, <3>1 DEF InTime, Overdue, Goto, timeVars, pastVars
  <2>2. quietOut = Since(lastOut)
    BY <1>0, <1>8, <2>1 DEF OutInv, RetryInv, Connecting
  <2> QED
    BY <1>0, <2>1, <2>2 DEF OutInv, Since, Passing
<1>9. CASE Ping
  <2>1. pc' = "read" /\ lastOut' = now /\ quietOut' = 0 /\ UNCHANGED <<now, busy>>
    BY <1>9 DEF Ping, Goto, timeVars
  <2> QED
    BY <1>0, <2>1 DEF OutInv, Since, Passing
<1>10. CASE NothingToRead \/ Read
  <2>1. pc = "read" /\ pc' = "report" /\ UNCHANGED <<lastOut, quietOut, now, busy, socket>>
    BY <1>10 DEF NothingToRead, Read, Goto, timeVars, netVars, pastVars
  <2> QED
    BY <2>1 DEF OutInv, Since, Passing
<1>11. CASE Report
  <2>1. /\ pc = "report" /\ pc' = "loop" /\ UNCHANGED <<now, busy, socket>>
        /\ UNCHANGED <<lastOut, quietOut>> \/ (lastOut' = now /\ quietOut' = 0)
    BY <1>11 DEF Report, Goto, timeVars, netVars
  <2>2. CASE UNCHANGED <<lastOut, quietOut>>
    BY <2>1, <2>2 DEF OutInv, Since, Passing
  <2>3. CASE lastOut' = now /\ quietOut' = 0
    BY <1>0, <2>1, <2>3 DEF OutInv, Since, Passing
  <2> QED
    BY <2>1, <2>2, <2>3
<1> QED
  BY <1>1, <1>2, <1>3, <1>4, <1>5, <1>6, <1>7, <1>8, <1>9, <1>10, <1>11 DEF Program

LEMMA OutTime == ASSUME TypeOK, RetryInv, OutInv, Time PROVE OutInv'
<1> USE Constants
<1>1. /\ UNCHANGED <<pc, socket, subscribed, lastIn, lastOut>>
      /\ now' = (now + 1) % W /\ quietOut' = Older(quietOut, OutBound)
      /\ pc \notin {"tcp", "connack"} => busy' = busy + 1
      /\ pc \notin {"tcp", "connack", "delay"} => busy < PassTicks
      /\ pc = "delay" => busy < ConnectDelay
      /\ pc = "connack" => Since(lastIn) < MQTT_SOCKET_TIMEOUT
  BY DEF Time, MayPass, progVars, netVars
<1>2. /\ busy \in Nat /\ quietOut \in 0 .. OutBound + 1 /\ now \in 0 .. W - 1
      /\ lastOut \in 0 .. W - 1 /\ Since(lastOut) \in Nat
  BY SinceNow DEF TypeOK
<1>3. /\ quietOut' \in 0 .. OutBound + 1 /\ quietOut' <= quietOut + 1
      /\ quietOut' <= OutBound => quietOut' = quietOut + 1 /\ quietOut <= OutBound
  BY <1>1, <1>2, OlderBounds
<1>4. ASSUME quietOut' <= OutBound PROVE Since(lastOut)' = quietOut'
  <2>1. Since(lastOut) = quietOut /\ quietOut' = quietOut + 1 /\ quietOut < W - 1
    BY <1>2, <1>3, <1>4 DEF OutInv
  <2>2. (((now + 1) % W) - lastOut) % W = Since(lastOut) + 1
    BY <1>2, <2>1, SinceLater
  <2> QED
    BY <1>1, <2>1, <2>2 DEF Since
<1>5. pc' \in {"delay", "subscribe"} => busy' <= ConnectDelay
  BY <1>1, <1>2
<1>6. ASSUME socket', pc' = "connack"
      PROVE  lastIn' = lastOut' /\ quietOut' <= MQTT_SOCKET_TIMEOUT
  <2>1. lastIn = lastOut /\ quietOut <= MQTT_SOCKET_TIMEOUT
    BY <1>1, <1>6 DEF OutInv
  <2>2. quietOut < MQTT_SOCKET_TIMEOUT
    BY <1>1, <1>2, <1>6, <2>1 DEF OutInv
  <2> QED
    BY <1>1, <1>2, <1>3, <2>1, <2>2
<1>7. ASSUME socket', pc' = "delay" PROVE quietOut' <= MQTT_SOCKET_TIMEOUT + busy'
  BY <1>1, <1>2, <1>3, <1>7 DEF OutInv
<1>8. ~(socket' /\ pc' = "subscribe")
  BY <1>1, <1>2 DEF OutInv
<1>9. ASSUME socket', pc' \in Passing PROVE quietOut' <= MQTT_KEEPALIVE + busy'
  BY <1>1, <1>2, <1>3, <1>9 DEF OutInv, Passing
<1>10. ASSUME socket', pc' = "keepalive" PROVE quietOut' <= MQTT_KEEPALIVE + PassTicks + busy'
  BY <1>1, <1>2, <1>3, <1>10 DEF OutInv
<1> QED
  BY <1>4, <1>5, <1>6, <1>7, <1>8, <1>9, <1>10 DEF OutInv

LEMMA OutNext == TypeOK /\ LinkInv /\ RetryInv /\ NetInv /\ OutInv /\ [Next]_vars => OutInv'
<1> SUFFICES ASSUME TypeOK, LinkInv, RetryInv, NetInv, OutInv, [Next]_vars PROVE OutInv'
  OBVIOUS
<1>1. CASE Program BY <1>1, OutProgram
<1>2. CASE Time BY <1>2, OutTime
<1>3. CASE Closed
  <2>1. UNCHANGED <<pc, busy, lastOut, quietOut, now>> /\ ~socket'
    BY <1>3 DEF Closed, progVars, timeVars
  <2> QED
    BY <2>1, OutGone
<1>4. CASE PowerLoss
  <2>1. /\ now' = 0 /\ lastOut' = 0 /\ quietOut' = 0 /\ ~socket' /\ pc' = "tcp"
    BY <1>4 DEF PowerLoss
  <2>2. (0 - 0) % W = 0
    BY Constants, Difference
  <2> QED
    BY <2>1, <2>2 DEF OutInv, Since
<1>5. CASE Aside \/ UNCHANGED vars
  <2>1. UNCHANGED <<pc, subscribed, socket, busy, lastIn, lastOut, quietOut, now>>
    BY <1>5, AsideStep DEF vars, progVars, timeVars, netVars, pastVars
  <2> QED
    BY <2>1 DEF OutInv, Since
<1> QED
  BY <1>1, <1>2, <1>3, <1>4, <1>5 DEF Next, Aside

THEOREM OutInvariant == Spec => []OutInv
BY OutInit, OutNext, LinkTypeCorrect, LinkInvariant, RetryInvariant, NetInvariant, PTL DEF Spec

(* The broker hears from a connected client once in an interval, but for   *)
(* the pass in which it falls due and the one before.                      *)
THEOREM ClientKeepsAlive == Spec => []KeepsAlive
<1>1. TypeOK /\ LinkInv /\ RetryInv /\ OutInv => KeepsAlive
  <2> SUFFICES ASSUME TypeOK, LinkInv, RetryInv, OutInv, InSession PROVE quietOut <= OutBound
    BY DEF KeepsAlive
  <2>1. /\ socket /\ pc \in {"delay", "subscribe", "keepalive"} \union Passing
        /\ busy \in Nat /\ quietOut \in Nat
    BY Constants DEF InSession, TypeOK, Connecting, Passing
  <2>2. CASE pc \in {"delay", "subscribe"}
    BY <2>1, <2>2, Constants DEF OutInv
  <2>3. CASE pc = "keepalive" \/ pc \in Passing
    <3>1. busy <= PassTicks
      BY <2>3 DEF RetryInv, Connecting, Passing
    <3> QED
      BY <2>1, <2>3, <3>1, Constants DEF OutInv
  <2> QED
    BY <2>1, <2>2, <2>3
<1> QED
  BY <1>1, LinkTypeCorrect, LinkInvariant, RetryInvariant, OutInvariant, PTL

-----------------------------------------------------------------------------
(* The passes that are left to the packets behind the n-th.                *)
LEMMA Rooms ==
  ASSUME NEW n \in 1 .. MaxInbox
  PROVE  /\ Room(n) \in Nat /\ Room(n - 1) = Room(n) + PassTicks
         /\ Room(n) + PassTicks + PassTicks <= WaitBound
<1>1. PassTicks \in Nat /\ MaxInbox \in Nat
  BY Constants
<1>2. \A m \in 0 .. MaxInbox - 1 : m * PassTicks \in Nat
  BY <1>1
<1>3. Room(n) \in Nat
  BY <1>1, <1>2 DEF Room
<1>4. Room(n - 1) = Room(n) + PassTicks
  BY <1>1 DEF Room
<1>5. WaitBound = Room(n) + n * PassTicks + PassTicks
  BY <1>1 DEF Room, WaitBound
<1>6. n * PassTicks >= PassTicks
  BY <1>1
<1> QED
  BY <1>1, <1>3, <1>4, <1>5, <1>6

LEMMA PingTimes ==
  /\ PingTime \in Nat /\ (~pingOutstanding => PingTime = 0)
  /\ UNCHANGED pingOutstanding => PingTime' = PingTime
  /\ pingOutstanding' => PingTime' = OutBound
  /\ ~pingOutstanding' => PingTime' = 0
  /\ PingTime' \in Nat
<1>1. OutBound \in Nat
  BY Constants
<1>2. PingTime \in {0, OutBound} /\ PingTime' \in {0, OutBound}
  BY DEF PingTime
<1>3. PingTime \in Nat /\ PingTime' \in Nat
  BY <1>1, <1>2
<1> QED
  BY <1>3 DEF PingTime

(* How long ago a packet has come in.                                      *)
LEMMA InTypes ==
  ASSUME TypeOK
  PROVE  /\ busy \in Nat /\ quietIn \in Nat /\ now \in 0 .. W - 1
         /\ Since(lastIn) \in Nat /\ Since(t) \in Nat /\ Since(now) = 0
         /\ inbox \in Seq(Packet) /\ Len(inbox) \in 0 .. MaxInbox
         /\ inbox # <<>> => /\ Len(inbox) \in 1 .. MaxInbox
                            /\ Room(Len(inbox)) \in Nat
                            /\ Room(Len(inbox) - 1) = Room(Len(inbox)) + PassTicks
                            /\ Room(Len(inbox)) + PassTicks + PassTicks <= WaitBound
<1>1. inbox \in Seq(Packet) /\ Len(inbox) \in 0 .. MaxInbox
  BY Constants, Types DEF InboxType
<1>2. inbox # <<>> => Len(inbox) \in 1 .. MaxInbox
  BY <1>1, Constants
<1>3. /\ busy \in Nat /\ quietIn \in Nat /\ now \in 0 .. W - 1
      /\ Since(lastIn) \in Nat /\ Since(t) \in Nat /\ Since(now) = 0
  BY SinceNow, Constants DEF TypeOK
<1> QED
  BY <1>1, <1>2, <1>3, Rooms

LEMMA InInit == Init => InInv
BY DEF Init, InInv

LEMMA InGone ==
  ASSUME ~socket', pc' \in {"read", "report"} => Since(t)' <= busy'
  PROVE  InInv'
BY DEF InInv

(* The connection begins ...                                               *)
LEMMA InConnecting ==
  ASSUME TypeOK, LinkInv, NetInv, OutInv, InInv, socket',
         Accept \/ GotConnack \/ Delayed \/ Subscribe \/ SubscribedAll
  PROVE  InInv'
<1> USE Constants, InTypes
<1>1. CASE Accept
  <2>1. pc' = "connack" /\ inbox' = <<>>
    BY <1>1 DEF Accept, Goto
  <2> QED
    BY <2>1 DEF InInv, Passing
<1>2. CASE GotConnack
  <2>1. /\ pc = "connack" /\ socket /\ inbox # <<>> /\ inbox' = Tail(inbox)
        /\ pc' = "delay" /\ busy' = 0 /\ lastIn' = now /\ ~pingOutstanding'
        /\ UNCHANGED <<now, quietIn>>
    BY <1>2 DEF GotConnack, Goto, pastVars
  <2>2. quietIn' = 0 /\ inbox' = <<>>
    <3>1. Len(inbox) <= 1
      BY <2>1 DEF NetInv
    <3> QED
      BY <2>1, <3>1, Taking DEF InInv
  <2>3. Since(lastIn)' = 0
    BY <2>1 DEF Since
  <2>4. PingTime' = 0
    BY <2>1, PingTimes
  <2> QED
    BY <2>1, <2>2, <2>3, <2>4 DEF InInv, Passing
<1>3. CASE Delayed \/ Subscribe
  <2>1. /\ pc \in {"delay", "subscribe"} /\ pc' = "subscribe" /\ socket
        /\ UNCHANGED <<busy, lastIn, now, quietIn, inbox, pingOutstanding>>
    BY <1>3 DEF Delayed, Subscribe, Goto, timeVars, netVars, pastVars
  <2>2. Since(lastIn)' = Since(lastIn) /\ PingTime' = PingTime
    BY <2>1, PingTimes DEF Since
  <2> QED
    BY <2>1, <2>2 DEF InInv, Passing
<1>4. CASE SubscribedAll
  <2>1. /\ pc = "subscribe" /\ pc' = "loop" /\ socket /\ busy' = 0
        /\ UNCHANGED <<lastIn, now, quietIn, inbox, pingOutstanding>>
    BY <1>4 DEF SubscribedAll, Return, Goto, netVars
  <2>2. Since(lastIn)' = Since(lastIn) /\ PingTime' = PingTime
    BY <2>1, PingTimes DEF Since
  <2>3. Since(lastIn) <= MQTT_KEEPALIVE /\ (inbox # <<>> => quietIn = 0)
    BY <2>1 DEF InInv, OutInv
  <2>4. quietIn <= WaitBound + Since(lastIn) + PingTime
    BY <2>1 DEF InInv
  <2> QED
    BY <2>1, <2>2, <2>3, <2>4 DEF InInv, Passing
<1> QED
  BY <1>1, <1>2, <1>3, <1>4

(* ... and every pass looks at the clock and reads a packet.               *)
LEMMA InPass ==
  ASSUME TypeOK, RetryInv, InInv, socket, socket',
         Connected \/ InTime \/ Ping \/ NothingToRead \/ Read \/ Report
  PROVE  InInv'
<1> USE Constants, InTypes
<1>0. /\ PingTime \in Nat
      /\ UNCHANGED pingOutstanding => PingTime' = PingTime
  BY PingTimes
<1>1. CASE Connected
  <2>1. /\ pc = "loop" /\ pc' = "keepalive" /\ busy' = 0
        /\ UNCHANGED <<lastIn, now, quietIn, inbox, pingOutstanding>>
    BY <1>1 DEF Connected, Goto, netVars, pastVars
  <2>2. Since(lastIn)' = Since(lastIn)
    BY <2>1 DEF Since
  <2>3. busy <= PassTicks
    BY <2>1 DEF RetryInv, Connecting
  <2> QED
    BY SMTT(30), <1>0, <2>1, <2>2, <2>3 DEF InInv, Passing
<1>2. CASE InTime
  <2>1. /\ pc = "keepalive" /\ pc' = "read" /\ t' = now /\ ~Overdue
        /\ UNCHANGED <<lastIn, now, busy, quietIn, inbox, pingOutstanding>>
    BY <1>2 DEF InTime, Goto, timeVars, netVars, pastVars
  <2>2. Since(lastIn)' = Since(lastIn) /\ Since(t)' = 0
    BY <2>1 DEF Since
  <2>3. Since(lastIn) <= MQTT_KEEPALIVE
    BY <2>1 DEF Overdue
  <2> QED
    BY <1>0, <2>1, <2>2, <2>3 DEF InInv, Passing
<1>3. CASE Ping
  <2>1. /\ pc = "keepalive" /\ pc' = "read" /\ t' = now /\ lastIn' = now
        /\ ~pingOutstanding /\ pingOutstanding'
        /\ UNCHANGED <<now, busy, quietIn, inbox>>
    BY <1>3 DEF Ping, Goto, timeVars
  <2>2. Since(lastIn)' = 0 /\ Since(t)' = 0 /\ PingTime = 0 /\ PingTime' = OutBound
    BY <2>1, PingTimes DEF Since
  <2>3. busy <= PassTicks
    BY <2>1 DEF RetryInv, Connecting
  <2>4. quietIn <= WaitBound + OutBound
    BY <2>1, <2>2, <2>3 DEF InInv
  <2> QED
    BY <2>1, <2>2, <2>4 DEF InInv, Passing
<1>4. CASE NothingToRead
  <2>1. /\ pc = "read" /\ pc' = "report" /\ inbox = <<>>
        /\ UNCHANGED <<t, lastIn, now, busy, quietIn, inbox, pingOutstanding>>
    BY <1>4 DEF NothingToRead, Goto, timeVars, netVars, pastVars
  <2>2. Since(lastIn)' = Since(lastIn) /\ Since(t)' = Since(t)
    BY <2>1 DEF Since
  <2> QED
    BY <1>0, <2>1, <2>2 DEF InInv, Passing
<1>5. CASE Read
  <2>1. /\ pc = "read" /\ pc' = "report" /\ inbox # <<>> /\ inbox' = Tail(inbox)
        /\ lastIn' = t /\ UNCHANGED <<t, now, busy, quietIn>>
    BY <1>5 DEF Read, Goto, timeVars
  <2>2. Since(lastIn)' = Since(t) /\ Since(t)' = Since(t) /\ Since(t) <= busy
    BY <2>1 DEF Since, InInv
  <2>3. busy <= PassTicks
    BY <2>1 DEF RetryInv, Connecting
  <2>4. quietIn <= Room(Len(inbox)) + PassTicks + busy
    BY <2>1 DEF InInv
  <2>5. Len(inbox') = Len(inbox) - 1
    BY <2>1, Taking
  <2>6. quietIn' <= Room(Len(inbox')) + busy'
    BY <2>1, <2>4, <2>5
  <2>7. quietIn' <= WaitBound + Since(lastIn)' + PingTime'
    <3>1. quietIn <= WaitBound
      BY <2>1, <2>3, <2>4
    <3>2. \A m \in Nat : quietIn <= WaitBound + Since(t) + m
      BY <3>1
    <3> QED
      BY <2>1, <2>2, <3>2, PingTimes
  <2>8. Since(lastIn)' <= MQTT_KEEPALIVE + busy'
    BY <2>1, <2>2
  <2> QED
    BY <2>1, <2>2, <2>6, <2>7, <2>8 DEF InInv, Passing
<1>6. CASE Report
  <2>1. /\ pc = "report" /\ pc' = "loop"
        /\ UNCHANGED <<lastIn, now, busy, quietIn, inbox, pingOutstanding>>
    BY <1>6 DEF Report, Goto, timeVars, netVars
  <2>2. Since(lastIn)' = Since(lastIn)
    BY <2>1 DEF Since
  <2> QED
    BY <1>0, <2>1, <2>2 DEF InInv, Passing
<1> QED
  BY <1>1, <1>2, <1>3, <1>4, <1>5, <1>6

(* Packets come in, and time passes.                                       *)
LEMMA InArrival ==
  ASSUME TypeOK, InInv, NEW packet \in Packet, Arrives(packet)
  PROVE  InInv'
<1> USE Constants, InTypes
<1>1. /\ inbox' = Append(inbox, packet) /\ quietIn' = 0 /\ Len(inbox) < MaxInbox
      /\ UNCHANGED <<pc, t, lastIn, now, busy, socket, pingOutstanding>>
  BY DEF Arrives, progVars, timeVars
<1>2. Since(lastIn)' = Since(lastIn) /\ Since(t)' = Since(t) /\ PingTime' = PingTime
  BY <1>1, PingTimes DEF Since
<1>3. Room(Len(inbox')) \in Nat
  <2>1. Len(inbox') = Len(inbox) + 1
    BY <1>1, Appending
  <2>2. Len(inbox') \in 1 .. MaxInbox
    BY <1>1, <2>1
  <2> QED
    BY <2>2, Rooms
<1>4. /\ PingTime \in Nat /\ WaitBound + Since(lastIn) + PingTime >= 0
      /\ Room(Len(inbox')) + busy >= 0 /\ Room(Len(inbox')) + PassTicks + busy >= 0
  BY <1>3, PingTimes
<1> QED
  BY <1>1, <1>2, <1>3, <1>4 DEF InInv

LEMMA InClock ==
  ASSUME TypeOK, LinkInv, RetryInv, NetInv, OutInv, InInv, Time PROVE InInv'
<1> USE Constants, InTypes
<1>1. /\ UNCHANGED <<pc, t, lastIn, socket, inbox, pingOutstanding>>
      /\ now' = (now + 1) % W /\ quietIn' = Older(quietIn, SilenceBound)
      /\ pc \notin {"tcp", "connack"} => busy' = busy + 1
      /\ pc \notin {"tcp", "connack", "delay"} => busy < PassTicks
      /\ pc = "delay" => busy < ConnectDelay
      /\ pc = "connack" => inbox = <<>>
  BY DEF Time, MayPass, progVars, netVars
<1>2. quietIn' \in Nat /\ quietIn' <= quietIn + 1
  <2>1. quietIn \in 0 .. SilenceBound + 1
    BY DEF TypeOK
  <2>2. quietIn' \in 0 .. SilenceBound + 1 /\ quietIn' <= quietIn + 1
    BY <1>1, <2>1, OlderBounds
  <2> QED
    BY <2>2
<1>3. \A time \in 0 .. W - 1 : Since(time) < W - 1 => (((now + 1) % W) - time) % W = Since(time) + 1
  BY SinceLater
<1>4. t \in 0 .. W - 1 /\ lastIn \in 0 .. W - 1
  BY DEF TypeOK
<1>5. ASSUME pc' \in {"read", "report"} PROVE Since(t)' <= busy'
  <2>1. Since(t) <= busy /\ busy < PassTicks /\ busy' = busy + 1
    BY <1>1, <1>5 DEF InInv
  <2>2. Since(t)' = Since(t) + 1
    BY <1>1, <1>3, <1>4, <2>1 DEF Since
  <2> QED
    BY <2>1, <2>2
<1> SUFFICES ASSUME socket PROVE InInv'
  BY <1>1, <1>5 DEF InInv
<1>6. pc # "subscribe"
  BY <1>1 DEF OutInv
<1>7. pc \in {"connack", "delay"} => inbox = <<>>
  BY <1>1 DEF NetInv
<1>8. CASE pc \in {"tcp", "connack"}
  <2>1. pc' = "connack" /\ inbox' = <<>>
    BY <1>1, <1>7, <1>8 DEF LinkInv
  <2> QED
    BY <2>1 DEF InInv, Passing
<1>9. CASE pc \notin {"tcp", "connack"}
  <2>1. busy' = busy + 1
    BY <1>1, <1>9
  <2>2. Since(lastIn)' = Since(lastIn) + 1
    <3>1. Since(lastIn) < W - 1
      <4>1. CASE pc = "delay"
        BY <1>1, <4>1 DEF InInv
      <4>2. CASE pc # "delay"
        <5>1. pc \in Passing \/ pc = "keepalive"
          BY <1>6, <1>9, <4>2 DEF TypeOK, Passing, Connecting
        <5> QED
          BY SMTT(30), <1>1, <1>9, <4>2, <5>1 DEF InInv
      <4> QED
        BY <4>1, <4>2
    <3> QED
      BY <1>1, <1>3, <1>4, <3>1 DEF Since
  <2>3. PingTime' = PingTime /\ PingTime \in Nat
    BY <1>1, PingTimes
  <2>4. quietIn' <= WaitBound + Since(lastIn)' + PingTime'
    <3>1. quietIn <= WaitBound + Since(lastIn) + PingTime
      BY <1>9 DEF InInv
    <3> QED
      BY <1>2, <2>2, <2>3, <3>1
  <2>5. /\ pc = "delay" => Since(lastIn)' <= busy'
        /\ pc \in Passing => Since(lastIn)' <= MQTT_KEEPALIVE + busy'
        /\ pc = "keepalive" => Since(lastIn)' <= MQTT_KEEPALIVE + PassTicks + busy'
    BY <2>1, <2>2 DEF InInv
  <2>6. ASSUME inbox # <<>>
        PROVE  /\ pc \in {"loop", "report"} => quietIn' <= Room(Len(inbox)) + busy'
               /\ pc \in {"keepalive", "read"} => quietIn' <= Room(Len(inbox)) + PassTicks + busy'
    <3>1. /\ Room(Len(inbox)) \in Nat
          /\ pc \in {"loop", "report"} => quietIn <= Room(Len(inbox)) + busy
          /\ pc \in {"keepalive", "read"} => quietIn <= Room(Len(inbox)) + PassTicks + busy
      BY <2>6 DEF InInv
    <3>2. \A q \in Nat : q <= quietIn + 1 =>
            /\ pc \in {"loop", "report"} => q <= Room(Len(inbox)) + (busy + 1)
            /\ pc \in {"keepalive", "read"} => q <= Room(Len(inbox)) + PassTicks + (busy + 1)
      BY <3>1
    <3> QED
      BY <1>2, <2>1, <3>2
  <2> QED
    BY <1>1, <1>5, <1>6, <1>7, <1>9, <2>4, <2>5, <2>6 DEF InInv
<1> QED
  BY <1>8, <1>9

LEMMA InNext ==
  TypeOK /\ LinkInv /\ RetryInv /\ NetInv /\ OutInv /\ InInv /\ [Next]_vars => InInv'
<1> SUFFICES ASSUME TypeOK, LinkInv, RetryInv, NetInv, OutInv, InInv, [Next]_vars PROVE InInv'
  OBVIOUS
<1>1. CASE Program /\ socket'
  <2>1. CASE Accept \/ GotConnack \/ Delayed \/ Subscribe \/ SubscribedAll
    BY <1>1, <2>1, InConnecting
  <2>2. CASE Connected \/ InTime \/ Ping \/ NothingToRead \/ Read \/ Report
    <3>1. socket
      BY <1>1, <2>2 DEF Connected, InTime, Ping, NothingToRead, Read, Report, netVars
    <3> QED
      BY <1>1, <2>2, <3>1, InPass
  <2>3. ~(Attempt \/ TooEarly \/ Refuse \/ NoConnack \/ GiveUp)
    BY <1>1 DEF Attempt, TooEarly, Refuse, NoConnack, GiveUp, Close, LinkInv, netVars
  <2> QED
    BY <1>1, <2>1, <2>2, <2>3 DEF Program
<1>2. CASE Program /\ ~socket'
  <2>1. UNCHANGED <<now, busy>> \/ pc' \notin {"read", "report"}
    BY <1>2 DEF Program, Connected, Attempt, TooEarly, Accept, Refuse, GotConnack, NoConnack,
                Delayed, Subscribe, SubscribedAll, InTime, Ping, GiveUp, NothingToRead, Read,
                Report, Return, Goto, progVars, timeVars
  <2>2. \/ pc' \notin {"read", "report"} \/ t' = now
        \/ (t' = t /\ pc \in {"read", "report"})
    BY <1>2 DEF Program, Connected, Attempt, TooEarly, Accept, Refuse, GotConnack, NoConnack,
                Delayed, Subscribe, SubscribedAll, InTime, Ping, GiveUp, NothingToRead, Read,
                Report, Return, Goto, progVars, timeVars
  <2>3. ASSUME pc' \in {"read", "report"} PROVE Since(t)' <= busy'
    <3>1. Since(t)' = 0 \/ (Since(t)' = Since(t) /\ Since(t) <= busy)
      BY <2>1, <2>2, <2>3, InTypes DEF Since, InInv
    <3> QED
      BY <2>1, <2>3, <3>1, InTypes
  <2> QED
    BY <1>2, <2>3, InGone
<1>3. CASE Time BY <1>3, InClock
<1>4. CASE Answer \/ Message \/ Decline
  <2>1. PICK packet \in Packet : Arrives(packet)
    BY <1>4 DEF Answer, Message, Decline, TypeOK, Packet
  <2> QED
    BY <2>1, InArrival
<1>5. CASE Closed
  <2>1. ~socket' /\ UNCHANGED <<pc, t, now, busy>>
    BY <1>5 DEF Closed, progVars, timeVars
  <2> QED
    BY <2>1, InGone DEF InInv, Since
<1>6. CASE PowerLoss
  BY <1>6, InGone DEF PowerLoss
<1>7. CASE Vanish \/ Network \/ UNCHANGED vars
  <2>1. UNCHANGED <<pc, t, lastIn, pingOutstanding, now, busy, socket, inbox, quietIn>>
    BY <1>7 DEF Vanish, Network, vars, progVars, timeVars, netVars, pastVars
  <2> QED
    BY <2>1 DEF InInv, Since, PingTime
<1> QED
  BY <1>1, <1>2, <1>3, <1>4, <1>5, <1>6, <1>7 DEF Next, BrokerFails

THEOREM InInvariant == Spec => []InInv
BY InInit, InNext, LinkTypeCorrect, LinkInvariant, RetryInvariant, NetInvariant, OutInvariant,
   PTL DEF Spec

(* A connection on which nothing arrives for two intervals is closed,      *)
(* however much the client has sent.                                       *)
THEOREM SilenceNoticed == Spec => []DeadBrokerNoticed
<1>1. TypeOK /\ LinkInv /\ RetryInv /\ OutInv /\ InInv => DeadBrokerNoticed
  <2> SUFFICES ASSUME TypeOK, LinkInv, RetryInv, OutInv, InInv, InSession
               PROVE  quietIn <= SilenceBound
    BY DEF DeadBrokerNoticed
  <2> USE Constants, InTypes
  <2>1. /\ socket /\ pc # "connack"
        /\ pc \in {"delay", "subscribe", "keepalive"} \union Passing
    BY DEF InSession, TypeOK, Connecting, Passing
  <2>2. Since(lastIn) <= OutBound
    <3>1. CASE pc \in {"delay", "subscribe"}
      BY <2>1, <3>1 DEF InInv, OutInv
    <3>2. CASE pc = "keepalive" \/ pc \in Passing
      <4>1. busy <= PassTicks
        BY <3>2 DEF RetryInv, Connecting, Passing
      <4> QED
        BY <2>1, <3>2, <4>1 DEF InInv
    <3> QED
      BY <2>1, <3>1, <3>2
  <2>3. PingTime \in Nat /\ PingTime <= OutBound
    BY PingTimes DEF PingTime
  <2> QED
    BY <2>1, <2>2, <2>3 DEF InInv
<1> QED
  BY <1>1, LinkTypeCorrect, LinkInvariant, RetryInvariant, OutInvariant, InInvariant, PTL
-----------------------------------------------------------------------------
(***************************************************************************)
(* Once the link is up it stays up: the part of Recovers that does not     *)
(* need fairness.                                                          *)
(***************************************************************************)
(* mqttConnect() goes on to subscribe without a ping of the last session.  *)
LEMMA FreshNext == TypeOK /\ LinkInv /\ FreshInv /\ [Next]_vars => FreshInv'
<1> SUFFICES ASSUME TypeOK, LinkInv, FreshInv, [Next]_vars, pc' \in {"delay", "subscribe"}
             PROVE  ~pingOutstanding'
  BY DEF FreshInv
<1>1. CASE Program
  BY <1>1 DEF Program, Connected, Attempt, TooEarly, Accept, Refuse, GotConnack, NoConnack,
              Delayed, Subscribe, SubscribedAll, InTime, Ping, GiveUp, NothingToRead, Read,
              Report, Return, Goto, progVars, FreshInv
<1>2. CASE Time \/ Answer \/ Message \/ BrokerFails \/ Closed \/ Network \/ UNCHANGED vars
  <2>1. UNCHANGED <<pc, pingOutstanding>>
    BY <1>2 DEF Time, Answer, Message, Arrives, BrokerFails, Vanish, Decline, Closed, Network,
                vars, progVars
  <2> QED
    BY <2>1 DEF FreshInv
<1>3. CASE PowerLoss
  BY <1>3 DEF PowerLoss
<1> QED
  BY <1>1, <1>2, <1>3 DEF Next

THEOREM FreshInvariant == Spec => []FreshInv
<1>1. Init => FreshInv
  BY DEF Init, FreshInv
<1> QED
  BY <1>1, FreshNext, LinkTypeCorrect, LinkInvariant, PTL DEF Spec

LEMMA Sinces ==
  ASSUME TypeOK
  PROVE  /\ Since(lastIn) \in Nat /\ Since(lastOut) \in Nat /\ Since(now) = 0
         /\ busy \in Nat /\ wdt \in Nat
BY SinceNow, Constants DEF TypeOK

(* By when a packet at place k is read: a pass later than the one before.  *)
LEMMA Places ==
  ASSUME NEW k \in 1 .. MaxInbox + 1
  PROVE  /\ Room(k) \in Int /\ Room(k) + PassTicks \in Nat /\ Room(k - 1) = Room(k) + PassTicks
         /\ k <= MaxInbox => Room(k) \in Nat /\ Room(k) + PassTicks + PassTicks <= WaitBound
         /\ k < MaxInbox => PassTicks <= Room(k)
         /\ k = MaxInbox + 1 => Room(k) + PassTicks = 0
<1>1. PassTicks \in Nat /\ MaxInbox \in Nat
  BY Constants
<1>2. /\ Room(k) \in Int /\ Room(k - 1) = Room(k) + PassTicks
      /\ k = MaxInbox + 1 => Room(k) + PassTicks = 0
  BY <1>1 DEF Room
<1>3. k <= MaxInbox => Room(k) \in Nat /\ Room(k) + PassTicks + PassTicks <= WaitBound
  BY <1>1, Rooms
<1>4. ASSUME k < MaxInbox PROVE PassTicks <= Room(k)
  <2>1. k + 1 \in 1 .. MaxInbox /\ (k + 1) - 1 = k
    BY <1>1, <1>4
  <2>2. Room(k + 1) \in Nat /\ Room((k + 1) - 1) = Room(k + 1) + PassTicks
    BY <2>1, Rooms
  <2> QED
    BY <1>1, <2>1, <2>2
<1>5. Room(k) + PassTicks \in Nat
  BY <1>1, <1>2, <1>3
<1> QED
  BY <1>2, <1>3, <1>4, <1>5

LEMMA Dues ==
  ASSUME NEW k \in 1 .. MaxInbox + 1
  PROVE  /\ pc \in {"keepalive", "read"} => Due(k) = Room(k) + busy + PassTicks
         /\ pc \notin {"keepalive", "read"} => Due(k) = Room(k) + busy + 0
         /\ pc' \in {"keepalive", "read"} => Due(k)' = Room(k) + busy' + PassTicks
         /\ pc' \notin {"keepalive", "read"} => Due(k)' = Room(k) + busy' + 0
BY DEF Due, Room

LEMMA Owing ==
  ASSUME NEW k \in Int
  PROVE  /\ Owed /\ Len(inbox) + 1 = k => Recent(Due(k))
         /\ /\ owes' = "PINGRESP" /\ Len(inbox') + 1 = k
            /\ Recent(PassTicks)' /\ Recent(Due(k))'
            /\ Len(inbox') = MaxInbox => pc' = "read"
            => Owed'
BY DEF Owed, Recent, Due, Room

(* Such a session is never given up.                                       *)
LEMMA NoGiveUp ==
  ASSUME Prompt, TypeOK, RetryInv, Live
  PROVE  ~GiveUp
<1> USE Constants, Sinces
<1> SUFFICES ASSUME GiveUp PROVE FALSE
  OBVIOUS
<1>1. pc = "keepalive" /\ Overdue /\ pingOutstanding /\ busy <= PassTicks
  BY DEF GiveUp, RetryInv, Connecting
<1>2. ~Recent(MQTT_KEEPALIVE)
  BY <1>1 DEF Overdue, Recent
<1>3. WaitBound <= MQTT_KEEPALIVE
  BY DEF Prompt, WaitBound
<1>4. PICK k \in 1 .. MaxInbox : Recent(PassTicks) \/ Recent(Due(k))
  <2>1. CASE Owed
    BY <2>1 DEF Owed
  <2>2. CASE Arrived
    BY <2>2, InTypes DEF Arrived
  <2> QED
    BY <1>1, <2>1, <2>2 DEF Live
<1>5. Room(k) \in Nat /\ Room(k) + PassTicks + PassTicks <= WaitBound
  BY <1>4, Places
<1>6. Due(k) = Room(k) + busy + PassTicks
  BY <1>1, <1>4, Dues
<1>7. PassTicks <= MQTT_KEEPALIVE /\ Due(k) \in Int /\ Due(k) <= MQTT_KEEPALIVE
  BY <1>1, <1>3, <1>5, <1>6
<1> QED
  BY <1>2, <1>4, <1>7 DEF Recent

LEMMA LivePass ==
  ASSUME Prompt, TypeOK, LinkInv, RetryInv, InInv, Live, Program, ~GiveUp
  PROVE  Live'
<1> USE Constants, Sinces
<1>0. /\ busy <= PassTicks /\ reach /\ socket /\ peer /\ pc \notin Connecting /\ wdt <= busy
      /\ Len(inbox) \in 0 .. MaxInbox /\ Len(inbox) + 1 \in 1 .. MaxInbox + 1
      /\ DOMAIN inbox = 1 .. Len(inbox)
  BY InTypes DEF Live, RetryInv
<1>1. CASE Connected \/ InTime \/ Report
  <2>1. /\ UNCHANGED <<reach, socket, peer, pingOutstanding, owes, inbox, now, lastIn>>
        /\ pc' \notin Connecting
        /\ pc # "read" /\ (pc = "loop" <=> busy' # busy \/ pc' = "keepalive")
        /\ \/ pc = "loop" /\ pc' = "keepalive" /\ wdt' = 0 /\ busy' = 0
           \/ pc = "keepalive" /\ pc' = "read" /\ UNCHANGED <<wdt, busy>>
           \/ pc = "report" /\ pc' = "loop" /\ UNCHANGED <<wdt, busy>>
        /\ lastOut' \in {lastOut, now}
    BY <1>0, <1>1 DEF Connected, InTime, Report, Goto, netVars, pastVars, timeVars,
                      Connecting
  <2>2. Since(lastIn)' = Since(lastIn) /\ Since(lastOut)' \in {Since(lastOut), 0}
    BY <2>1 DEF Since
  <2>3. ASSUME NEW k \in 1 .. MaxInbox + 1
        PROVE  Due(k) \in Int /\ Due(k)' \in Int /\ Due(k) <= Due(k)'
    <3>1. Room(k) \in Int
      BY Places
    <3>2. CASE pc = "loop" /\ pc' = "keepalive" /\ busy' = 0
      <4>1. Due(k) = Room(k) + busy + 0 /\ Due(k)' = Room(k) + 0 + PassTicks
        BY <3>2, Dues
      <4> QED
        BY <1>0, <3>1, <4>1
    <3>3. CASE pc = "keepalive" /\ pc' = "read" /\ busy' = busy
      <4>1. Due(k) = Room(k) + busy + PassTicks /\ Due(k)' = Room(k) + busy + PassTicks
        BY <3>3, Dues
      <4> QED
        BY <3>1, <4>1
    <3>4. CASE pc = "report" /\ pc' = "loop" /\ busy' = busy
      <4>1. Due(k) = Room(k) + busy + 0 /\ Due(k)' = Room(k) + busy + 0
        BY <3>4, Dues
      <4> QED
        BY <3>1, <4>1
    <3> QED
      BY <2>1, <3>2, <3>3, <3>4
  <2>4. ASSUME NEW n \in Int, NEW m \in Int, n <= m, Recent(n) PROVE Recent(m)'
    <3>1. 0 <= n
      BY <2>4 DEF Recent
    <3> QED
      BY <2>2, <2>4, <3>1 DEF Recent
  <2>5. ASSUME NEW k \in 1 .. MaxInbox + 1, Recent(Due(k)) PROVE Recent(Due(k))'
    <3>1. Since(lastIn) <= Due(k) /\ Since(lastOut) <= Due(k)
      BY <2>5 DEF Recent
    <3>2. Since(lastIn)' <= Due(k)' /\ Since(lastOut)' <= Due(k)'
      BY <2>2, <2>3, <3>1
    <3> QED
      BY <3>2 DEF Recent
  <2>6. Owed => Owed'
    <3> HAVE Owed
    <3>1. Recent(PassTicks)'
      BY <2>4 DEF Owed
    <3>2. PICK k \in 1 .. MaxInbox + 1 : Len(inbox) + 1 = k
      BY <1>0
    <3>3. Recent(Due(k))'
      BY <2>5, <3>2, Owing
    <3>4. owes' = "PINGRESP" /\ Len(inbox') + 1 = k /\ Len(inbox') # MaxInbox
      BY <2>1, <3>2 DEF Owed
    <3> QED
      BY <3>1, <3>3, <3>4, Owing
  <2>7. Arrived => Arrived'
    BY <1>0, <2>1, <2>5 DEF Arrived
  <2> QED
    BY <1>0, <2>1, <2>6, <2>7 DEF Live
<1>2. CASE NothingToRead
  <2>1. /\ pc = "read" /\ pc' = "report" /\ inbox = <<>>
        /\ UNCHANGED <<reach, socket, peer, wdt, busy, pingOutstanding, owes, inbox, now,
                       lastIn, lastOut>>
    BY <1>2 DEF NothingToRead, Goto, netVars, timeVars
  <2>2. Since(lastIn)' = Since(lastIn) /\ Since(lastOut)' = Since(lastOut)
    BY <2>1 DEF Since
  <2>3. Owed => Owed'
    <3> HAVE Owed
    <3>1. Recent(PassTicks) /\ Recent(PassTicks)'
      BY <2>2 DEF Owed, Recent
    <3>2. Len(inbox') = 0 /\ 0 + 1 = 1 /\ MaxInbox > 1
      BY <2>1, NothingIn DEF Prompt
    <3>3. PassTicks <= Room(1) /\ Room(1) \in Int
      BY <3>2, Places
    <3>4. Due(1)' = Room(1) + busy' + 0 /\ busy' \in Nat
      BY <2>1, Dues
    <3>5. Recent(Due(1))'
      BY <3>1, <3>3, <3>4, <2>2 DEF Recent
    <3>6. owes' = "PINGRESP" /\ Len(inbox') + 1 = 1 /\ Len(inbox') # MaxInbox
      BY <2>1, <3>2 DEF Owed
    <3> QED
      BY <3>1, <3>5, <3>6, Owing
  <2>4. ~Arrived
    BY <2>1, NothingIn DEF Arrived
  <2> QED
    BY <1>0, <2>1, <2>3, <2>4 DEF Live, Connecting
<1>3. CASE Ping
  <2>1. /\ UNCHANGED <<reach, socket, peer, wdt, busy, now, inbox>>
        /\ pc' = "read" /\ owes' = "PINGRESP" /\ lastIn' = now /\ lastOut' = now
    BY <1>0, <1>3 DEF Ping, Goto, timeVars
  <2>2. Since(lastIn)' = 0 /\ Since(lastOut)' = 0
    BY <2>1 DEF Since
  <2>3. Room(Len(inbox) + 1) + PassTicks \in Nat /\ Room(Len(inbox) + 1) \in Int
    BY <1>0, Places
  <2>4. Due(Len(inbox) + 1)' = Room(Len(inbox) + 1) + busy' + PassTicks
    BY <2>1 DEF Due, Room
  <2>5. Recent(PassTicks)'
    BY <2>2 DEF Recent
  <2>6. Recent(Due(Len(inbox) + 1))'
    <3>1. 0 <= Room(Len(inbox) + 1) + busy' + PassTicks
      BY <2>1, <2>3
    <3> QED
      BY <2>2, <2>4, <3>1 DEF Recent
  <2>7. Owed'
    BY <2>1, <2>5, <2>6 DEF Owed
  <2> QED
    BY <1>0, <2>1, <2>7 DEF Live, Connecting
<1>4. CASE Read
  <2>1. /\ pc = "read" /\ inbox # <<>> /\ inbox' = Tail(inbox) /\ pc' = "report"
        /\ UNCHANGED <<reach, socket, peer, wdt, busy, now, t, lastOut, owes>>
        /\ lastIn' = t /\ pingOutstanding' = (pingOutstanding /\ ~Answers)
    BY <1>4 DEF Read, Goto, timeVars
  <2>2. Since(lastIn)' = Since(t) /\ Since(lastOut)' = Since(lastOut) /\ Since(t) <= busy
        /\ Since(t) \in Nat
    BY <2>1, InTypes DEF Since, InInv
  <2>3. /\ Len(inbox) \in 1 .. MaxInbox /\ Len(inbox') = Len(inbox) - 1
        /\ Head(inbox) = inbox[1] /\ DOMAIN inbox' = 1 .. Len(inbox) - 1
        /\ \A j \in DOMAIN inbox' : inbox'[j] = inbox[j + 1]
    BY <2>1, InTypes, Taking
  <2>4. ASSUME NEW k \in 2 .. MaxInbox + 1, Recent(Due(k)) PROVE Recent(Due(k - 1))'
    <3>1. k - 1 \in 1 .. MaxInbox /\ k \in 1 .. MaxInbox + 1 /\ k - 1 \in 1 .. MaxInbox + 1
      OBVIOUS
    <3>2. Room(k - 1) = Room(k) + PassTicks /\ Room(k) \in Int
      BY <3>1, Places
    <3>3. Room(k - 1) \in Nat
      BY <3>1, Places
    <3>4. Due(k) = Room(k) + busy + PassTicks
      BY <2>1, <3>1, Dues
    <3>5. Due(k - 1)' = Room(k - 1) + busy + 0
      BY <2>1, <3>1, Dues
    <3>6. Since(lastOut) <= Room(k) + busy + PassTicks
      BY <2>4, <3>4 DEF Recent
    <3>7. /\ Since(lastIn)' <= Room(k - 1) + busy + 0
          /\ Since(lastOut)' <= Room(k - 1) + busy + 0
      BY <2>2, <3>2, <3>3, <3>6
    <3> QED
      BY <3>5, <3>7 DEF Recent
  <2>5. Owed => Owed'
    <3> HAVE Owed
    <3>1. Recent(PassTicks)'
      <4>1. Recent(PassTicks)
        BY DEF Owed
      <4>2. Since(lastIn)' <= PassTicks /\ Since(lastOut)' <= PassTicks
        BY <1>0, <2>2, <4>1 DEF Recent
      <4> QED
        BY <4>2 DEF Recent
    <3>2. PICK k \in 2 .. MaxInbox + 1 : Len(inbox) + 1 = k
      BY <2>3
    <3>3. Recent(Due(k - 1))'
      BY <2>4, <3>2, Owing
    <3>4. owes' = "PINGRESP"
      BY <2>1 DEF Owed
    <3>5. Len(inbox') + 1 = k - 1 /\ Len(inbox') # MaxInbox /\ k - 1 \in Int
      BY <2>3, <3>2
    <3> QED
      BY <3>1, <3>3, <3>4, <3>5, Owing
  <2>6. ASSUME Arrived, ~Answers PROVE Arrived'
    <3>1. PICK k \in DOMAIN inbox : inbox[k] = "PINGRESP" /\ Recent(Due(k))
      BY <2>6 DEF Arrived
    <3>2. k \in 2 .. MaxInbox + 1 /\ k - 1 \in DOMAIN inbox' /\ (k - 1) + 1 = k
      BY <1>0, <2>3, <2>6, <3>1 DEF Answers
    <3>3. inbox'[k - 1] = "PINGRESP"
      BY <2>3, <3>1, <3>2
    <3>4. Recent(Due(k - 1))'
      BY <2>4, <3>1, <3>2
    <3> QED
      BY <2>1, <2>6, <3>2, <3>3, <3>4 DEF Arrived
  <2> QED
    BY <1>0, <2>1, <2>5, <2>6 DEF Live, Connecting
<1>5. ~(\/ Attempt \/ TooEarly \/ Accept \/ Refuse \/ GotConnack \/ NoConnack
        \/ Delayed \/ Subscribe \/ SubscribedAll)
  BY <1>0 DEF Attempt, TooEarly, Accept, Refuse, GotConnack, NoConnack, Delayed, Subscribe,
              SubscribedAll, Connecting
<1> QED
  BY <1>1, <1>2, <1>3, <1>4, <1>5 DEF Program

LEMMA LiveArrival ==
  ASSUME TypeOK, Live, Answer \/ Message \/ Decline
  PROVE  Live'
<1> USE Constants, Sinces, InTypes
<1>1. /\ Len(inbox) < MaxInbox
      /\ UNCHANGED <<pc, lastIn, lastOut, pingOutstanding, now, wdt, busy, socket, peer, reach>>
  BY DEF Answer, Message, Decline, Arrives, progVars, timeVars
<1>2. \A n \in Int : Recent(n)' <=> Recent(n)
  BY <1>1 DEF Recent, Since
<1>3. ASSUME NEW k \in Int, Recent(Due(k)) PROVE Recent(Due(k))'
  BY <1>1, <1>3 DEF Recent, Since, Due
<1>4. ASSUME Owed PROVE Arrived'
  <2>1. inbox' = Append(inbox, "PINGRESP") /\ owes' = "nothing"
    BY <1>4 DEF Answer, Message, Decline, Arrives, Owed
  <2>2. "PINGRESP" \in Packet
    BY DEF Packet
  <2>3. Len(inbox) + 1 \in DOMAIN inbox' /\ inbox'[Len(inbox) + 1] = "PINGRESP"
    BY <2>1, <2>2, Appending
  <2>4. PICK k \in Int : Len(inbox) + 1 = k
    OBVIOUS
  <2>5. k \in DOMAIN inbox' /\ inbox'[k] = "PINGRESP" /\ Recent(Due(k))'
    BY <1>3, <1>4, <2>3, <2>4, Owing
  <2> QED
    BY <2>1, <2>5 DEF Arrived
<1>5. ASSUME Arrived PROVE Arrived'
  <2>1. PICK packet \in Packet \ {"PINGRESP"} : inbox' = Append(inbox, packet)
    BY <1>5 DEF Answer, Message, Decline, Arrives, Packet, TypeOK, Arrived
  <2>2. owes' # "PINGRESP"
    BY <1>5, <2>1 DEF Answer, Message, Decline, Arrives, Arrived
  <2>3. PICK k \in DOMAIN inbox : inbox[k] = "PINGRESP" /\ Recent(Due(k))
    BY <1>5 DEF Arrived
  <2>4. k \in DOMAIN inbox' /\ inbox'[k] = "PINGRESP" /\ k \in Int
    BY <2>1, <2>3, Appending
  <2>5. Recent(Due(k))'
    BY <1>3, <2>3, <2>4
  <2> QED
    BY <2>2, <2>4, <2>5 DEF Arrived
<1> QED
  BY <1>1, <1>4, <1>5 DEF Live

LEMMA LiveClock ==
  ASSUME TypeOK, RetryInv, Live, Time
  PROVE  Live'
<1> USE Constants, Sinces
<1>1. /\ UNCHANGED <<pc, lastIn, lastOut, pingOutstanding, socket, inbox, peer, owes, reach>>
      /\ now' = (now + 1) % W /\ busy < PassTicks /\ busy' = busy + 1
      /\ wdt' \in {wdt + 1, 0}
      /\ owes = "nothing" \/ Len(inbox) = MaxInbox
  BY DEF Time, MayPass, Live, Connecting, progVars, netVars
<1>2. wdt' <= busy'
  <2>1. wdt <= busy
    BY DEF Live
  <2> QED
    BY <1>1, <2>1
<1>3. /\ Since(lastIn) < W - 1 => Since(lastIn)' = Since(lastIn) + 1
      /\ Since(lastOut) < W - 1 => Since(lastOut)' = Since(lastOut) + 1
  BY <1>1, SinceLater DEF TypeOK, Since
<1>4. ASSUME NEW n \in Int, NEW m \in Int, n + 1 <= m, n < W - 1, Recent(n) PROVE Recent(m)'
  <2>1. Since(lastIn) <= n /\ Since(lastOut) <= n
    BY <1>4 DEF Recent
  <2>2. Since(lastIn)' <= m /\ Since(lastOut)' <= m
    BY <1>3, <1>4, <2>1
  <2> QED
    BY <2>2 DEF Recent
<1>5. WaitBound < W - 1 /\ PassTicks < W - 1
  OBVIOUS
<1>6. ASSUME Owed PROVE Owed'
  <2>0. PICK k \in 1 .. MaxInbox + 1 : k = MaxInbox + 1
    OBVIOUS
  <2>1. Len(inbox) + 1 = k /\ Len(inbox) = MaxInbox /\ pc = "read" /\ k \in 1 .. MaxInbox + 1
    BY <1>1, <1>6, <2>0 DEF Owed
  <2>2. Room(k) + PassTicks = 0 /\ Room(k) \in Int
    BY <2>0, Places
  <2>3. Due(k) = Room(k) + busy + PassTicks
    BY <2>1, Dues
  <2>4. Due(k)' = Room(k) + busy' + PassTicks
    BY <1>1, <2>1, Dues
  <2>5. Due(k) = busy /\ Due(k)' = busy + 1
    BY <1>1, <2>2, <2>3, <2>4
  <2>6. Recent(busy)
    <3>1. Recent(Due(k))
      BY <1>6, <2>1, Owing
    <3> QED
      BY <2>5, <3>1 DEF Recent
  <2>7. Since(lastIn)' <= busy + 1 /\ Since(lastOut)' <= busy + 1 /\ busy + 1 <= PassTicks
    BY <1>1, <1>3, <1>5, <2>6 DEF Recent
  <2>8. Recent(PassTicks)'
    BY <1>1, <1>4, <1>5, <2>6
  <2>9. Recent(Due(k))'
    BY <2>5, <2>7 DEF Recent
  <2> QED
    BY <1>1, <1>6, <2>1, <2>8, <2>9, Owing DEF Owed
<1>7. ASSUME Arrived PROVE Arrived'
  <2>1. PICK k \in DOMAIN inbox : inbox[k] = "PINGRESP" /\ Recent(Due(k))
    BY <1>7 DEF Arrived
  <2>2. k \in 1 .. MaxInbox /\ k \in 1 .. MaxInbox + 1
    BY InTypes
  <2>3. Room(k) \in Nat /\ Room(k) + PassTicks + PassTicks <= WaitBound
    BY <2>2, Places
  <2>4. Due(k) <= Room(k) + busy + PassTicks /\ Due(k) \in Int /\ Due(k)' = Due(k) + 1
    <3>1. CASE pc \in {"keepalive", "read"}
      <4>1. Due(k) = Room(k) + busy + PassTicks /\ Due(k)' = Room(k) + (busy + 1) + PassTicks
        BY <1>1, <2>2, <3>1, Dues
      <4> QED
        BY <2>3, <4>1
    <3>2. CASE pc \notin {"keepalive", "read"}
      <4>1. Due(k) = Room(k) + busy + 0 /\ Due(k)' = Room(k) + (busy + 1) + 0
        BY <1>1, <2>2, <3>2, Dues
      <4> QED
        BY <2>3, <4>1
    <3> QED
      BY <3>1, <3>2
  <2>5. Since(lastIn) <= Due(k) /\ Since(lastOut) <= Due(k)
    BY <2>1 DEF Recent
  <2>6. Since(lastIn)' <= Due(k)' /\ Since(lastOut)' <= Due(k)'
    BY <1>1, <1>3, <1>5, <2>3, <2>4, <2>5
  <2>7. Recent(Due(k))'
    BY <2>6 DEF Recent
  <2> QED
    BY <1>1, <1>7, <2>1, <2>7 DEF Arrived
<1> QED
  BY <1>1, <1>2, <1>6, <1>7 DEF Live

LEMMA SteadyNext ==
  ASSUME Prompt
  PROVE  TypeOK /\ LinkInv /\ RetryInv /\ InInv /\ SteadyInv /\ [Next]_vars => SteadyInv'
<1> SUFFICES ASSUME TypeOK, LinkInv, RetryInv, InInv, SteadyInv, [Next]_vars, steady'
             PROVE  Live'
  BY DEF SteadyInv
<1>1. CASE Program
  <2>1. CASE steady
    BY <1>1, <2>1, NoGiveUp, LivePass DEF SteadyInv
  <2>2. CASE ~steady
    <3>1. Connected /\ reach /\ peer /\ ~pingOutstanding
      BY <1>1, <2>2 DEF Program, Connected, Attempt, TooEarly, Accept, Refuse, GotConnack,
           NoConnack, Delayed, Subscribe, SubscribedAll, InTime, Ping, GiveUp, NothingToRead,
           Read, Report, Close, pastVars
    <3> QED
      BY <3>1 DEF Connected, Goto, Live, Connecting, netVars
  <2> QED
    BY <2>1, <2>2
<1>2. CASE Answer \/ Message \/ Decline
  <2>1. steady
    BY <1>2 DEF Answer, Message, Decline, Arrives
  <2> QED
    BY <1>2, <2>1, LiveArrival DEF SteadyInv
<1>3. CASE Time
  <2>1. steady
    BY <1>3 DEF Time
  <2> QED
    BY <1>3, <2>1, LiveClock DEF SteadyInv
<1>4. CASE Closed
  <2>1. steady /\ ~peer
    BY <1>4 DEF Closed
  <2> QED
    BY <2>1 DEF SteadyInv, Live
<1>5. CASE Vanish \/ Network \/ PowerLoss
  BY <1>5 DEF Vanish, Network, PowerLoss
<1>6. CASE UNCHANGED vars
  <2>1. UNCHANGED <<steady, reach, socket, peer, pc, wdt, busy, pingOutstanding, owes, inbox,
                    now, lastIn, lastOut>>
    BY <1>6 DEF vars, progVars, timeVars, netVars, pastVars
  <2> QED
    BY <2>1 DEF SteadyInv, Live, Owed, Arrived, Recent, Since, Due, Room
<1> QED
  BY <1>1, <1>2, <1>3, <1>4, <1>5, <1>6 DEF Next, BrokerFails

THEOREM SteadyInvariant == Spec => [](Prompt => SteadyInv)
<1>1. Init => (Prompt => SteadyInv)
  BY DEF Init, SteadyInv
<1>2. TypeOK /\ LinkInv /\ RetryInv /\ InInv /\ (Prompt => SteadyInv) /\ [Next]_vars =>
        (Prompt => SteadyInv)'
  BY SteadyNext DEF Prompt
<1> QED
  BY <1>1, <1>2, LinkTypeCorrect, LinkInvariant, RetryInvariant, InInvariant, PTL DEF Spec

(* When the packets that may wait are read within the keepalive, a session *)
(* with a broker that stays in reach and alive is ended by no keepalive,   *)
(* no watchdog and no wrap of the counter.                                 *)
THEOREM SessionsStay ==
  ASSUME Prompt
  PROVE  Spec => SessionsLast
<1>1. TypeOK /\ RetryInv /\ FreshInv /\ (Prompt => SteadyInv) /\ [Next]_vars =>
        [/\ SubscribedAll => ~pingOutstanding'
         /\ steady => ~GiveUp /\ ~Watchdog]_vars
  <2> SUFFICES ASSUME TypeOK, RetryInv, FreshInv, SteadyInv
               PROVE  /\ SubscribedAll => ~pingOutstanding'
                      /\ steady => ~GiveUp /\ ~Watchdog
    OBVIOUS
  <2>1. SubscribedAll => ~pingOutstanding'
    BY DEF SubscribedAll, FreshInv
  <2>2. ASSUME steady PROVE ~GiveUp /\ ~Watchdog
    <3>1. Live
      BY <2>2 DEF SteadyInv
    <3>2. ~GiveUp
      BY <3>1, NoGiveUp
    <3>3. busy <= PassTicks /\ wdt <= busy /\ PassTicks < WDTO
      BY <3>1, LinkAssumption DEF Live, RetryInv
    <3>4. wdt # WDTO
      BY <3>3, Sinces, Constants
    <3> QED
      BY <3>2, <3>4 DEF Watchdog
  <2> QED
    BY <2>1, <2>2
<1> QED
  BY <1>1, LinkTypeCorrect, RetryInvariant, FreshInvariant, SteadyInvariant,
     PTL DEF Spec, SessionsLast

-----------------------------------------------------------------------------
(* The invariants together.                                                *)
THEOREM ClientInvariant == Spec => []ClientInv
BY LinkTypeCorrect, SpacedInvariant, RetryInvariant, NetInvariant, OutInvariant, InInvariant,
   FreshInvariant, SteadyInvariant, PTL DEF ClientInv
=============================================================================
