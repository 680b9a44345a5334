------------------------------- MODULE MqttLink -------------------------------
(***************************************************************************)
(* The connection of a controller to its broker: setup() and loop() of the *)
(* controllers with their clock for new attempts, over connect(), loop()   *)
(* and write() of PubSubClient with its keepalive.  The network may stall, *)
(* the broker may close the connection or vanish without a word; the       *)
(* watchdog resets a processor that is stuck for WDTO.                     *)
(*                                                                         *)
(* One tick of the clock stands for a second; millis() is a counter of W   *)
(* values, which loop() of the controllers reads as a signed long.         *)
(***************************************************************************)
EXTENDS Integers, Sequences

CONSTANTS
  W,                       \* values of an unsigned long
  MQTT_KEEPALIVE, MQTT_SOCKET_TIMEOUT,
  ReconnectPeriod,         \* 3000 in loop()
  ConnectDelay,            \* delay(2000) in mqttConnect()
  WDTO,                    \* the watchdog's period
  Topics,                  \* how many topics sendAllSubscribers() names
  PassTicks,               \* most ticks of a pass of loop() that does not block
  MaxInbox                 \* packets that may wait to be read

(* Both of PubSubClient's times are 15 s, the delay is 2 s, and a pass of   *)
(* loop() takes a second or two at most.                                   *)
ASSUME LinkAssumption ==
  /\ W \in Nat /\ W % 2 = 0
  /\ MQTT_KEEPALIVE \in Nat \ {0} /\ MQTT_SOCKET_TIMEOUT \in Nat \ {0}
  /\ ReconnectPeriod \in Nat /\ ConnectDelay \in Nat /\ PassTicks \in Nat
  /\ WDTO \in Nat /\ WDTO > ConnectDelay + PassTicks
  /\ MQTT_SOCKET_TIMEOUT <= MQTT_KEEPALIVE
  /\ PassTicks <= ConnectDelay /\ ConnectDelay <= 2 * PassTicks
  /\ ConnectDelay <= MQTT_KEEPALIVE
  /\ Topics \in Nat \ {0} /\ MaxInbox \in Nat \ {0}
  /\ 2 * (MQTT_KEEPALIVE + 2 * PassTicks) + (MaxInbox + 1) * PassTicks + 1 < W
  /\ 2 * (WDTO + PassTicks) < W /\ 2 * (ReconnectPeriod + 2 * PassTicks + 1) < W

VARIABLES
  now,                     \* millis()
  pc, subscribed,          \* position in setup() or loop(); topics subscribed to
  t,                       \* the local of PubSubClient::loop()
  lastAttempt,             \* lastMqttReconnectAttempt
  lastIn, lastOut, pingOutstanding,
  guarded, wdt,            \* wdt_enable() was called; ticks since wdt_reset()
  busy,                    \* ticks this pass, or delay(), has taken
  socket,                  \* _client->connected()
  inbox,                   \* packets that have arrived
  peer, owes,              \* the broker's end is alive; what it has to answer
  reach,                   \* packets pass between the two
  quietIn, quietOut,       \* history: ticks since a packet arrived, was sent
  steady,                  \* history: the broker has been there and in reach since
                           \* a pass of this session that no ping was waited for in
  sinceTry, idle           \* history: ticks since the last attempt that failed
                           \* began, and since loop() was left without a link

progVars == <<pc, subscribed, t, lastAttempt, lastIn, lastOut, pingOutstanding, guarded>>
timeVars == <<now, wdt, busy>>
netVars  == <<socket, inbox, peer, owes, reach>>
pastVars == <<quietIn, quietOut, steady, sinceTry, idle>>
vars     == <<progVars, timeVars, netVars, pastVars>>

Connecting == {"tcp", "connack", "delay", "subscribe"}

(* The longest time without a packet that a live session can see.          *)
SilenceBound == 2 * (MQTT_KEEPALIVE + 2 * PassTicks) + (MaxInbox + 1) * PassTicks

(* The history variables count to one more than the properties ask for.    *)
OutBound  == MQTT_KEEPALIVE + 2 * PassTicks
WaitBound == (MaxInbox + 1) * PassTicks
IdleBound == ReconnectPeriod + PassTicks
Older(n, bound) == IF n <= bound THEN n + 1 ELSE n
LongAgo == ReconnectPeriod + 1

TypeOK ==
  /\ now \in 0 .. W - 1 /\ t \in 0 .. W - 1
  /\ lastAttempt \in 0 .. W - 1 /\ lastIn \in 0 .. W - 1 /\ lastOut \in 0 .. W - 1
  /\ pc \in {"loop", "keepalive", "read", "report"} \union Connecting
  /\ subscribed \in 0 .. Topics
  /\ pingOutstanding \in BOOLEAN /\ guarded \in BOOLEAN /\ steady \in BOOLEAN
  /\ wdt \in 0 .. WDTO /\ busy \in 0 .. ConnectDelay + PassTicks
  /\ socket \in BOOLEAN /\ peer \in BOOLEAN /\ reach \in BOOLEAN
  /\ inbox \in Seq({"CONNACK", "REFUSED", "PINGRESP", "PUBLISH"}) /\ Len(inbox) <= MaxInbox
  /\ owes \in {"nothing", "CONNACK", "PINGRESP"}
  /\ quietIn \in 0 .. SilenceBound + 1 /\ quietOut \in 0 .. OutBound + 1
  /\ sinceTry \in 0 .. LongAgo /\ idle \in 0 .. IdleBound + 1

Init ==
  /\ now = 0 /\ t = 0 /\ lastAttempt = 0 /\ lastIn = 0 /\ lastOut = 0
  /\ pc = "tcp" /\ subscribed = 0
  /\ pingOutstanding = FALSE /\ guarded = FALSE
  /\ wdt = 0 /\ busy = 0
  /\ socket = FALSE /\ inbox = <<>> /\ peer = FALSE /\ owes = "nothing"
  /\ quietIn = 0 /\ quietOut = 0 /\ steady = FALSE
  /\ sinceTry = LongAgo /\ idle = 0
  /\ reach \in BOOLEAN

-----------------------------------------------------------------------------
(* Unsigned and signed differences of times.                               *)
Since(time) == (now - time) % W

Signed(n) == IF n < W \div 2 THEN n ELSE n - W

(* Mutant: the two times are compared rather than subtracted.              *)
MutantTimeToTry == now > lastAttempt + ReconnectPeriod

TimeToTry == Signed(Since(lastAttempt)) > ReconnectPeriod

Goto(location) == pc' = location

Close ==
  /\ socket' = FALSE /\ inbox' = <<>> /\ peer' = FALSE /\ owes' = "nothing"
  /\ steady' = FALSE /\ UNCHANGED reach

(* Where mqttConnect() returns to: loop(), or setup(), which then enables  *)
(* the watchdog.                                                           *)
Return(success) ==
  /\ Goto("loop")
  /\ guarded' = TRUE
  /\ lastAttempt' = (IF success \/ ~guarded THEN 0 ELSE lastAttempt)
  /\ wdt' = (IF guarded THEN wdt ELSE 0) /\ busy' = 0
  /\ sinceTry' = (IF success THEN LongAgo ELSE sinceTry)
  /\ idle' = 0

-----------------------------------------------------------------------------
(* loop(): wdt_reset(), then one of its two branches.                      *)
Connected ==
  /\ pc = "loop" /\ socket
  /\ Goto("keepalive")
  /\ wdt' = 0 /\ busy' = 0
  /\ steady' = (steady \/ (reach /\ peer /\ ~pingOutstanding))
  /\ UNCHANGED <<subscribed, t, lastAttempt, lastIn, lastOut, pingOutstanding, guarded,
                 now, netVars, quietIn, quietOut, sinceTry, idle>>

(* Mutant: the time of an attempt is not kept.                             *)
MutantAttempt ==
  /\ pc = "loop" /\ ~socket /\ TimeToTry
  /\ Goto("tcp")
  /\ subscribed' = 0
  /\ wdt' = 0 /\ busy' = 0 /\ sinceTry' = 0 /\ idle' = 0
  /\ UNCHANGED <<t, lastAttempt, lastIn, lastOut, pingOutstanding, guarded, now, netVars,
                 quietIn, quietOut, steady>>

(* Mutant: the attempt does not ask whether there is a connection.         *)
MutantAttemptAnyway ==
  /\ pc = "loop" /\ TimeToTry
  /\ lastAttempt' = now
  /\ Goto("tcp")
  /\ subscribed' = 0
  /\ wdt' = 0 /\ busy' = 0 /\ sinceTry' = 0 /\ idle' = 0
  /\ UNCHANGED <<t, lastIn, lastOut, pingOutstanding, guarded, now, netVars,
                 quietIn, quietOut, steady>>

Attempt ==
  /\ pc = "loop" /\ ~socket /\ TimeToTry
  /\ lastAttempt' = now
  /\ Goto("tcp")
  /\ subscribed' = 0
  /\ wdt' = 0 /\ busy' = 0 /\ sinceTry' = 0 /\ idle' = 0
  /\ UNCHANGED <<t, lastIn, lastOut, pingOutstanding, guarded, now, netVars,
                 quietIn, quietOut, steady>>

TooEarly ==
  /\ pc = "loop" /\ ~socket /\ ~TimeToTry
  /\ wdt' = 0 /\ busy' = 0
  /\ UNCHANGED <<progVars, now, netVars, pastVars>>

-----------------------------------------------------------------------------
(* PubSubClient::connect(): _client->connect() blocks until the broker     *)
(* takes the connection or refuses it.  The old socket, if any, is gone.   *)
Accept ==
  /\ pc = "tcp" /\ reach
  /\ Goto("connack")
  /\ socket' = TRUE /\ inbox' = <<>> /\ peer' = TRUE /\ owes' = "CONNACK"
  /\ lastIn' = now /\ lastOut' = now
  /\ quietIn' = 0 /\ quietOut' = 0
  /\ UNCHANGED <<subscribed, t, lastAttempt, pingOutstanding, guarded, timeVars,
                 reach, steady, sinceTry, idle>>

Refuse ==
  /\ pc = "tcp" /\ ~reach
  /\ Return(FALSE)
  /\ UNCHANGED <<subscribed, t, lastIn, lastOut, pingOutstanding, now, netVars,
                 quietIn, quietOut, steady>>

(* The wait for CONNACK looks at the data, not at the connection.          *)
GotConnack ==
  /\ pc = "connack" /\ inbox # <<>> /\ Head(inbox) = "CONNACK"
  /\ Goto("delay") /\ busy' = 0
  /\ inbox' = Tail(inbox)
  /\ lastIn' = now /\ pingOutstanding' = FALSE
  /\ UNCHANGED <<subscribed, t, lastAttempt, lastOut, guarded, now, wdt,
                 socket, peer, owes, reach, pastVars>>

NoConnack ==
  /\ pc = "connack"
  /\ \/ inbox # <<>> /\ Head(inbox) # "CONNACK"
     \/ inbox = <<>> /\ Since(lastIn) >= MQTT_SOCKET_TIMEOUT
  /\ Close
  /\ Return(FALSE)
  /\ UNCHANGED <<subscribed, t, lastIn, lastOut, pingOutstanding, now, quietIn, quietOut>>

Delayed ==
  /\ pc = "delay" /\ busy = ConnectDelay
  /\ Goto("subscribe")
  /\ UNCHANGED <<subscribed, t, lastAttempt, lastIn, lastOut, pingOutstanding, guarded,
                 timeVars, netVars, pastVars>>

(* Mutant: one topic too many.                                             *)
MutantSubscribe ==
  /\ pc = "subscribe" /\ socket /\ subscribed <= Topics
  /\ subscribed' = subscribed + 1
  /\ lastOut' = now /\ quietOut' = 0
  /\ UNCHANGED <<pc, t, lastAttempt, lastIn, pingOutstanding, guarded, timeVars, netVars,
                 quietIn, steady, sinceTry, idle>>

(* One client.subscribe() of sendAllSubscribers(), nothing without a link. *)
Subscribe ==
  /\ pc = "subscribe" /\ socket /\ subscribed < Topics
  /\ subscribed' = subscribed + 1
  /\ lastOut' = now /\ quietOut' = 0
  /\ UNCHANGED <<pc, t, lastAttempt, lastIn, pingOutstanding, guarded, timeVars, netVars,
                 quietIn, steady, sinceTry, idle>>

(* Mutant: only setup() subscribes.                                        *)
MutantSubscribedAll ==
  /\ pc = "subscribe" /\ (socket => subscribed = Topics \/ guarded)
  /\ Return(socket)
  /\ UNCHANGED <<subscribed, t, lastIn, lastOut, pingOutstanding, now, netVars,
                 quietIn, quietOut, steady>>

SubscribedAll ==
  /\ pc = "subscribe" /\ (socket => subscribed = Topics)
  /\ Return(socket)
  /\ UNCHANGED <<subscribed, t, lastIn, lastOut, pingOutstanding, now, netVars,
                 quietIn, quietOut, steady>>

-----------------------------------------------------------------------------
(* Mutants: one of the two times is left out.                              *)
MutantOverdueIn  == Since(lastIn) > MQTT_KEEPALIVE
MutantOverdueOut == Since(lastOut) > MQTT_KEEPALIVE

(* PubSubClient::loop().                                                   *)
Overdue == Since(lastIn) > MQTT_KEEPALIVE \/ Since(lastOut) > MQTT_KEEPALIVE

InTime ==
  /\ pc = "keepalive" /\ (socket => ~Overdue)
  /\ t' = now
  /\ Goto(IF socket THEN "read" ELSE "report")
  /\ UNCHANGED <<subscribed, lastAttempt, lastIn, lastOut, pingOutstanding, guarded,
                 timeVars, netVars, pastVars>>

(* Mutant: the time of a ping is kept as that of a packet sent, no more.   *)
MutantPing ==
  /\ pc = "keepalive" /\ socket /\ Overdue /\ ~pingOutstanding
  /\ t' = now /\ lastOut' = now /\ pingOutstanding' = TRUE
  /\ Goto("read")
  /\ owes' = (IF peer THEN "PINGRESP" ELSE owes)
  /\ quietOut' = 0
  /\ UNCHANGED <<subscribed, lastAttempt, lastIn, guarded, timeVars, socket, inbox, peer,
                 reach, quietIn, steady, sinceTry, idle>>

Ping ==
  /\ pc = "keepalive" /\ socket /\ Overdue /\ ~pingOutstanding
  /\ t' = now /\ lastOut' = now /\ lastIn' = now /\ pingOutstanding' = TRUE
  /\ Goto("read")
  /\ owes' = (IF peer THEN "PINGRESP" ELSE owes)
  /\ quietOut' = 0
  /\ UNCHANGED <<subscribed, lastAttempt, guarded, timeVars, socket, inbox, peer,
                 reach, quietIn, steady, sinceTry, idle>>

GiveUp ==
  /\ pc = "keepalive" /\ socket /\ Overdue /\ pingOutstanding
  /\ t' = now
  /\ Close
  /\ Goto("report")
  /\ idle' = 0
  /\ UNCHANGED <<subscribed, lastAttempt, lastIn, lastOut, pingOutstanding, guarded,
                 timeVars, quietIn, quietOut, sinceTry>>

NothingToRead ==
  /\ pc = "read" /\ inbox = <<>>
  /\ Goto("report")
  /\ UNCHANGED <<subscribed, t, lastAttempt, lastIn, lastOut, pingOutstanding, guarded,
                 timeVars, netVars, pastVars>>

(* Packets arrive in order, so an answer is the answer of the last ping.   *)
Answers == Head(inbox) = "PINGRESP"

(* One packet a pass.                                                      *)
Read ==
  /\ pc = "read" /\ inbox # <<>>
  /\ inbox' = Tail(inbox)
  /\ lastIn' = t
  /\ pingOutstanding' = (pingOutstanding /\ ~Answers)
  /\ Goto("report")
  /\ UNCHANGED <<subscribed, t, lastAttempt, lastOut, guarded, timeVars,
                 socket, peer, owes, reach, quietIn, quietOut, steady, sinceTry, idle>>

(* The rest of the pass: uptime and sensors may publish, which write()     *)
(* records whether or not the broker gets it.                              *)
Report ==
  /\ pc = "report"
  /\ Goto("loop")
  /\ \/ UNCHANGED <<lastOut, quietOut>>
     \/ socket /\ lastOut' = now /\ quietOut' = 0
  /\ UNCHANGED <<subscribed, t, lastAttempt, lastIn, pingOutstanding, guarded, timeVars,
                 netVars, quietIn, steady, sinceTry, idle>>

-----------------------------------------------------------------------------
(* The broker answers, and passes on messages of others, in this order.    *)
Arrives(packet) ==
  /\ peer /\ reach /\ Len(inbox) < MaxInbox
  /\ inbox' = Append(inbox, packet)
  /\ quietIn' = 0
  /\ UNCHANGED <<progVars, timeVars, socket, peer, reach, quietOut, steady, sinceTry, idle>>

Answer ==
  /\ owes # "nothing" /\ owes' = "nothing"
  /\ Arrives(owes)

Message == subscribed > 0 /\ owes = "nothing" /\ Arrives("PUBLISH") /\ UNCHANGED owes

(* A broker that does not want the client.                                 *)
Decline ==
  /\ owes = "CONNACK" /\ owes' = "nothing"
  /\ Arrives("REFUSED")

(* The broker's end goes away; the client may be told, when it has read    *)
(* what came before, or find out by itself.                                *)
Vanish ==
  /\ peer /\ peer' = FALSE /\ owes' = "nothing"
  /\ steady' = FALSE
  /\ UNCHANGED <<progVars, timeVars, socket, inbox, reach, quietIn, quietOut, sinceTry, idle>>

Closed ==
  /\ socket /\ ~peer /\ reach /\ inbox = <<>>
  /\ socket' = FALSE
  /\ idle' = 0
  /\ UNCHANGED <<progVars, timeVars, inbox, peer, owes, reach,
                 quietIn, quietOut, steady, sinceTry>>

Network ==
  /\ reach' = ~reach /\ steady' = FALSE
  /\ UNCHANGED <<progVars, timeVars, socket, inbox, peer, owes,
                 quietIn, quietOut, sinceTry, idle>>

-----------------------------------------------------------------------------
(* A broker in reach is quick, and a pass that does not block is short.    *)
MayPass ==
  /\ wdt < WDTO
  /\ reach => pc # "tcp" /\ (owes = "nothing" \/ Len(inbox) = MaxInbox)
  /\ pc = "connack" => inbox = <<>> /\ Since(lastIn) < MQTT_SOCKET_TIMEOUT
  /\ pc = "delay" => busy < ConnectDelay
  /\ pc \notin {"tcp", "connack", "delay"} => busy < PassTicks

Time ==
  /\ MayPass
  /\ now' = (now + 1) % W
  /\ wdt' = (IF guarded THEN wdt + 1 ELSE 0)
  /\ busy' = (IF pc \in {"tcp", "connack"} THEN busy ELSE busy + 1)
  /\ quietIn' = Older(quietIn, SilenceBound) /\ quietOut' = Older(quietOut, OutBound)
  /\ sinceTry' = Older(sinceTry, ReconnectPeriod)
  /\ idle' = (IF ~socket /\ pc \notin Connecting THEN Older(idle, IdleBound) ELSE 0)
  /\ UNCHANGED <<progVars, netVars, steady>>

PowerLoss ==
  /\ now' = 0 /\ t' = 0 /\ lastAttempt' = 0 /\ lastIn' = 0 /\ lastOut' = 0
  /\ pc' = "tcp" /\ subscribed' = 0
  /\ pingOutstanding' = FALSE /\ guarded' = FALSE
  /\ wdt' = 0 /\ busy' = 0
  /\ socket' = FALSE /\ inbox' = <<>> /\ peer' = FALSE /\ owes' = "nothing"
  /\ quietIn' = 0 /\ quietOut' = 0 /\ steady' = FALSE
  /\ sinceTry' = LongAgo /\ idle' = 0
  /\ UNCHANGED reach

Watchdog == wdt = WDTO /\ PowerLoss

Program ==
  \/ Connected \/ Attempt \/ TooEarly
  \/ Accept \/ Refuse \/ GotConnack \/ NoConnack
  \/ Delayed \/ Subscribe \/ SubscribedAll
  \/ InTime \/ Ping \/ GiveUp \/ NothingToRead \/ Read \/ Report

BrokerFails == Vanish \/ Decline

Next ==
  \/ Program \/ Time \/ Answer \/ Message
  \/ BrokerFails \/ Closed \/ Network \/ PowerLoss

Spec == Init /\ [][Next]_vars

(* The processor runs, time passes, a broker in reach answers, and a       *)
(* processor that is stuck is reset.                                       *)
FairSpec ==
  /\ Spec
  /\ WF_vars(Program) /\ WF_vars(Time) /\ WF_vars(Answer) /\ WF_vars(Watchdog)

-----------------------------------------------------------------------------
(* Properties *)

InSession == socket /\ pc \notin {"tcp", "connack"}

(* "MQTT_KEEPALIVE : keepAlive interval in Seconds" (PubSubClient.h): the  *)
(* broker hears from a connected client once in an interval, but for the   *)
(* pass in which it falls due and the one before, whatever the client has  *)
(* received meanwhile and however often the counter has wrapped.           *)
KeepsAlive == InSession => quietOut <= OutBound

(* A broker that has gone without a word is noticed: a connection on which *)
(* nothing arrives for two intervals is closed, however much the client    *)
(* has sent, so that loop() goes on to stop its blinds.                    *)
DeadBrokerNoticed == InSession => quietIn <= SilenceBound

(* A session with a broker that is there and in reach is not given up, and *)
(* no watchdog ends it: it starts without a ping of the last one, and from *)
(* its first pass on, or a later one in which no ping is waited for, each  *)
(* ping is answered and its answer read, behind the packets before it, by  *)
(* the time PubSubClient::loop() looks for it (PubSubClient.cpp:285-298).  *)
SessionsLast ==
  [][/\ SubscribedAll => ~pingOutstanding'
     /\ steady => ~GiveUp /\ ~Watchdog]_vars

(* The broker is not stormed: after an attempt that failed the next one    *)
(* waits for more than ReconnectPeriod, also across a wrap of millis().    *)
AttemptsSpaced == [][Attempt => sinceTry > ReconnectPeriod]_vars

(* Without a link the next attempt is not long in coming, except after the *)
(* one that succeeded while millis() is in its upper half: loop() compares *)
(* it with 0 as a signed number and tries nothing for up to 24.8 days.     *)
RetryComes ==
  idle > IdleBound =>
    lastAttempt = 0 /\ (now >= W \div 2 \/ now <= ReconnectPeriod + PassTicks)

(* loop() never runs on a connection that lacks a subscription, whichever  *)
(* step of mqttConnect() the connection was lost in.                       *)
NeverDeaf == socket /\ pc \notin Connecting => subscribed = Topics

(* Once the broker can be reached and stays, the link comes up for good:   *)
(* neither the blocking connect nor the watchdog keeps it from it.         *)
Recovers ==
  <>[]reach /\ <>[][~BrokerFails /\ ~(PowerLoss /\ ~Watchdog)]_vars
    => <>[](socket /\ subscribed = Topics)

(* The client gives loop() the link that module Link describes.            *)
LinkState ==
  IF pc \in Connecting THEN IF guarded THEN "trying" ELSE "setup"
  ELSE IF socket THEN "up" ELSE "down"
Promise  == INSTANCE Link WITH state <- LinkState
LinkSpec == Promise!Spec
-----------------------------------------------------------------------------
(* The inductive invariants behind the properties above.  A pass is short, *)
(* an attempt began wdt ticks ago, and where main is tells how long ago    *)
(* anything else may have been.                                            *)

Passing == {"loop", "read", "report"}

(* AttemptsSpaced.                                                         *)
SpacedInv ==
  sinceTry <= ReconnectPeriod => guarded /\ Since(lastAttempt) = sinceTry

(* RetryComes: lastAttempt is the time of an attempt that failed, a short  *)
(* pass or at most the watchdog's period ago, until TimeToTry; or it is 0. *)
RetryInv ==
  /\ idle > 0 => ~socket /\ pc \notin Connecting
  /\ pc \notin Connecting => busy <= PassTicks
  /\ guarded /\ pc \in Connecting => Since(lastAttempt) = wdt
  /\ pc \notin Connecting /\ lastAttempt # 0 =>
       /\ ~socket /\ idle <= Since(lastAttempt)
       /\ \/ idle <= busy /\ Since(lastAttempt) <= WDTO + busy
          \/ Since(lastAttempt) <= ReconnectPeriod + busy
  /\ pc \notin Connecting /\ lastAttempt = 0 =>
       idle <= busy \/ now >= W \div 2 \/ now <= ReconnectPeriod + busy

(* What the network may hold.                                              *)
NetInv ==
  /\ ~peer => owes = "nothing"
  /\ ~socket => inbox = <<>> /\ ~peer
  /\ pc \in {"tcp", "connack", "delay"} => subscribed = 0
  /\ pc = "connack" => Len(inbox) <= 1 /\ (owes # "nothing" => inbox = <<>>)
  /\ pc = "delay" => inbox = <<>> /\ owes = "nothing"
  /\ pc \in Connecting =>
       owes # "PINGRESP" /\ \A k \in DOMAIN inbox : inbox[k] # "PINGRESP"

(* KeepsAlive.                                                             *)
OutInv ==
  /\ quietOut <= OutBound => Since(lastOut) = quietOut
  /\ pc \in {"delay", "subscribe"} => busy <= ConnectDelay
  /\ socket =>
       /\ pc = "connack" => lastIn = lastOut /\ quietOut <= MQTT_SOCKET_TIMEOUT
       /\ pc = "delay" => quietOut <= MQTT_SOCKET_TIMEOUT + busy
       /\ pc = "subscribe" =>
            /\ PassTicks <= busy
            /\ IF subscribed = 0 THEN quietOut <= MQTT_SOCKET_TIMEOUT + busy ELSE quietOut = 0
       /\ pc \in Passing => quietOut <= MQTT_KEEPALIVE + busy
       /\ pc = "keepalive" => quietOut <= MQTT_KEEPALIVE + PassTicks + busy

(* DeadBrokerNoticed: a packet that waits behind others is read in the     *)
(* passes that are left to them, and one that was read is in lastIn.       *)
Room(n)  == (MaxInbox - n) * PassTicks
PingTime == IF pingOutstanding THEN OutBound ELSE 0
InInv ==
  /\ pc \in {"read", "report"} => Since(t) <= busy
  /\ socket =>
       /\ pc \in {"connack", "delay", "subscribe"} => (inbox # <<>> => quietIn = 0)
       /\ pc \in {"delay", "subscribe"} => Since(lastIn) <= busy
       /\ pc \in Passing => Since(lastIn) <= MQTT_KEEPALIVE + busy
       /\ pc = "keepalive" => Since(lastIn) <= MQTT_KEEPALIVE + PassTicks + busy
       /\ inbox # <<>> =>
            /\ pc \in {"loop", "report"} => quietIn <= Room(Len(inbox)) + busy
            /\ pc \in {"keepalive", "read"} => quietIn <= Room(Len(inbox)) + PassTicks + busy
       /\ pc # "connack" =>
            quietIn <= WaitBound + Since(lastIn) + PingTime

(* SessionsLast: while the broker is there, a ping that is outstanding is  *)
(* owed an answer, which takes time only while the buffer is full and the  *)
(* pass of the ping makes room, or its answer waits to be read at place k. *)
Recent(n) == Since(lastIn) <= n /\ Since(lastOut) <= n
Due(k) == Room(k) + busy + (IF pc \in {"keepalive", "read"} THEN PassTicks ELSE 0)

Owed ==
  /\ owes = "PINGRESP" /\ Recent(PassTicks) /\ Recent(Due(Len(inbox) + 1))
  /\ Len(inbox) = MaxInbox => pc = "read"

Arrived ==
  /\ owes # "PINGRESP"
  /\ \E k \in DOMAIN inbox : inbox[k] = "PINGRESP" /\ Recent(Due(k))

Live ==
  /\ reach /\ socket /\ peer /\ pc \notin Connecting
  /\ wdt <= busy
  /\ pingOutstanding => Owed \/ Arrived

FreshInv  == pc \in {"delay", "subscribe"} => ~pingOutstanding
SteadyInv == steady => Live

(* The packets that may wait are read within the keepalive.                *)
Prompt == MaxInbox > 1 /\ (MaxInbox + 1) * PassTicks <= MQTT_KEEPALIVE

ClientInv ==
  /\ TypeOK /\ SpacedInv /\ RetryInv /\ NetInv /\ OutInv /\ InInv /\ FreshInv
  /\ Prompt => SteadyInv
=============================================================================
