---------------------------- MODULE Rs485LinkProofs ----------------------------
(***************************************************************************)
(* Theorems about the LED driver's line, for bytes of any number of values,*)
(* any marks and ids that differ, and any time-out.                        *)
(***************************************************************************)
EXTENDS Rs485Link, DivisionLemmas

(***************************************************************************)
(* What keeps NothingElse from one byte to the next.                       *)
(***************************************************************************)
(* The bytes that may be sent at a position of a frame, the positions that *)
(* may follow it (the server may start over), and those of the byte that   *)
(* the remote reads next: a light or a checksum may look like H and the    *)
(* checksum like I, but a size is never one of either.                     *)
Bytes(p) == {Frame(v)[p] : v \in Byte}
Follow(p) == {(p % 8) + 1, 1}
Awaited ==
  CASE receiveState = "StartBit2" -> {1, 2, 6, 7}
    [] receiveState = "PayloadSize" -> {1, 3, 7}
    [] receiveState = "PayloadId" -> {1, 4}
    [] OTHER -> 1 .. 8

(* The bytes of the line are of consecutive positions, up to pos.          *)
InOrder(at) ==
  /\ \A k \in DOMAIN line : line[k] \in Bytes(at[k]) /\ at[k + 1] \in Follow(at[k])
  /\ at[Len(line) + 1] = pos /\ at[1] \in Awaited

PristineInv ==
  pristine =>
    /\ \E at \in [1 .. Len(line) + 1 -> 1 .. 8] : InOrder(at)
    /\ receiveState \in {"PayloadId", "PayloadValue"} => payloadSize = 1
    /\ parameter \in {"none", "led1"}
    /\ NothingElse

(***************************************************************************)
(* What makes Recovers true.                                               *)
(***************************************************************************)
(* The server's bytes are numbered, around all values of a frame; Upcoming *)
(* is the one that the remote reads next if none was lost.                 *)
PlaceOf(x) == (x % 8) + 1
LightOf(x) == (x \div 8) % N
Stream(x)  == Frame(LightOf(x))[PlaceOf(x)]
Upcoming   == 8 * pwmLight + pos - 1 - Len(line)
Place      == PlaceOf(Upcoming)
Light      == LightOf(Upcoming)

(* Bytes sent since the last fault, as far as clean tells.  When those on  *)
(* the line are of this time, the remote has read Since - Len(line) more.  *)
Since      == IF clean = 0 THEN 0 ELSE 8 * (clean - 1) + pos
Flushed    == Since >= Len(line)
Contiguous ==
  \A k \in DOMAIN line : k > Len(line) - Since => line[k] = Stream(Upcoming + k - 1)

(* As long as it has not been seen in StartBit1, the remote is on its way  *)
(* to the time-out; there it waits for a frame, perhaps after a false      *)
(* start, which does not outlive the frame it is in.                       *)
Longest == RS485Timeout + 2 * MaxBehind - 1
Lost ==
  /\ Flushed => receiveState # "StartBit1"
  /\ timer <= RS485Timeout => Since < timer + MaxBehind
  /\ Since < RS485Timeout + MaxBehind + behind
Waiting ==
  /\ \/ receiveState = "StartBit1"
     \/ receiveState = "StartBit2" /\ Place \in {6, 7}
     \/ receiveState = "PayloadSize" /\ Place = 7
  /\ Since - Len(line) <= Longest + (IF Place = 1 THEN 7 ELSE Place - 2)

(* From a frame's first byte it follows to the last, and then has its      *)
(* light.                                                                  *)
Has(v) == value["led1"] = v /\ (CRCcheck \/ toSet["led1"] = v)
Following ==
  /\ \/ receiveState = "StartBit2" /\ Place = 2
     \/ receiveState = "PayloadSize" /\ Place = 3
     \/ receiveState = "PayloadId" /\ Place = 4 /\ payloadSize = 1
     \/ receiveState = "PayloadValue" /\ Place = 5 /\ payloadSize = 1 /\ parameter = "led1"
     \/ receiveState = "CRC" /\ Place = 6 /\ value["led1"] = Light
     \/ receiveState = "EndBit1" /\ Place = 7 /\ Has(Light)
     \/ receiveState = "EndBit2" /\ Place = 8 /\ Has(Light)
  /\ timer <= Len(line) + Place - 2
Done ==
  /\ receiveState = "StartBit1" /\ Place = 1
  /\ \E v \in Byte : Has(v) /\ Light = (v + 1) % N

RecoverInv ==
  /\ Contiguous
  /\ Lost \/ (Flushed /\ (Waiting \/ Following \/ Done))
  /\ Len(line) <= behind
  /\ behind = 0 => ~CRCcheck
  /\ clean > 0 => pwmLight = (sent + 1) % N

-----------------------------------------------------------------------------
LEMMA Constants ==
  /\ N \in Nat /\ MaxSize \in 2 .. N
  /\ H \in Byte /\ I \in Byte /\ B \in Byte /\ Y \in Byte
  /\ dimmerSpeedID \in Byte /\ led1PwmID \in Byte /\ led2PwmID \in Byte
  /\ H >= MaxSize /\ B >= MaxSize
  /\ H # I /\ H # B /\ H # Y /\ I # B
  /\ H # dimmerSpeedID /\ H # led1PwmID /\ H # led2PwmID /\ led1PwmID # dimmerSpeedID
BY Rs485Assumption DEF Ids

LEMMA Bits == N # 0 /\ 0 \in Byte /\ 1 \in Byte /\ \A n \in Int : (n % N) \in Byte
BY Constants DEF Byte

(* Which bytes may be sent where.                                          *)
LEMMA Marks ==
  ASSUME NEW p \in 1 .. 8, NEW byte \in Bytes(p)
  PROVE  /\ byte \in Byte
         /\ byte = H => p \in {1, 5, 6}
         /\ byte = I => p \notin {1, 7}
         /\ p \in {1, 7} => byte >= MaxSize
         /\ p = 1 => byte = H
         /\ p = 3 => byte = 1
         /\ p = 4 => byte = led1PwmID
<1>1. PICK v \in Byte : byte = Frame(v)[p]
  BY DEF Bytes
<1>2. (led1PwmID + v) % N \in Byte
  BY Constants, Bits DEF Byte
<1>3. 1 # H
  BY Constants
<1>4. /\ p = 1 => byte = H
      /\ p = 2 => byte = I
      /\ p = 3 => byte = 1
      /\ p = 4 => byte = led1PwmID
      /\ p = 5 => byte = v
      /\ p = 6 => byte = (led1PwmID + v) % N
      /\ p = 7 => byte = B
      /\ p = 8 => byte = Y
  BY <1>1 DEF Frame
<1>5. p = 1 \/ p = 2 \/ p = 3 \/ p = 4 \/ p = 5 \/ p = 6 \/ p = 7 \/ p = 8
  OBVIOUS
<1> QED
  BY <1>2, <1>3, <1>4, <1>5, Constants, Bits

(* The server's own byte is one of its position.                           *)
Server == pos \in 1 .. 8 /\ pwmLight \in Byte
Shape  == Server /\ line \in Seq(Byte) /\ receiveState \in States

LEMMA ShapeInit == Init => Shape
BY DEF Init, Shape, Server, States

LEMMA ShapeNext == Shape /\ [Next]_vars => Shape'
<1> SUFFICES ASSUME Shape, [Next]_vars PROVE Shape'
  OBVIOUS
<1> USE DEF Shape, Server, serverVars, remoteVars, pastVars
<1>1. CASE Deliver \/ Damage
  <2>1. Server'
    <3>1. pos' = (pos % 8) + 1 /\ pwmLight' = (IF pos = 8 THEN (pwmLight + 1) % N ELSE pwmLight)
      BY <1>1 DEF Deliver, Damage, Send
    <3>2. (pwmLight + 1) % N \in Byte
      BY Bits DEF Byte
    <3> QED
      BY <3>1, <3>2
  <2>2. line' = line \/ \E byte \in Byte : line' = Append(line, byte)
    <3>1. CASE Deliver
      <4>1. Frame(pwmLight)[pos] \in Byte
        BY Marks DEF Bytes
      <4> QED
        BY <3>1, <4>1 DEF Deliver
    <3>2. CASE Damage
      BY <3>2, Rs485Assumption DEF Damage
    <3> QED
      BY <1>1, <3>1, <3>2
  <2>3. line' \in Seq(Byte)
    BY <2>2
  <2>4. receiveState' = receiveState
    BY <1>1 DEF Deliver, Damage, Send
  <2> QED
    BY <2>1, <2>3, <2>4
<1>2. CASE ServerRestart
  BY <1>2, Bits DEF ServerRestart
<1>3. CASE Read
  <2>1. line' \in Seq(Byte)
    BY <1>3 DEF Read
  <2>2. receiveState' \in States
    BY <1>3 DEF Read, Take, Start1, Start2, Size, Id, Value, Checksum, End, Goto, States
  <2> QED
    BY <1>3, <2>1, <2>2 DEF Read
<1>4. CASE Pass \/ RemoteRestart
  <2>1. line' = <<>> \/ line' = line
    BY <1>4 DEF Pass, RemoteRestart
  <2>2. receiveState' \in States
    BY <1>4 DEF Pass, RemoteRestart, States
  <2>3. Server'
    BY <1>4 DEF Pass, RemoteRestart
  <2>4. <<>> \in Seq(Byte)
    OBVIOUS
  <2>5. line' \in Seq(Byte)
    BY <2>1, <2>4
  <2> QED
    BY <2>2, <2>3, <2>5
<1>5. CASE UNCHANGED vars
  BY <1>5 DEF vars
<1> QED
  BY <1>1, <1>2, <1>3, <1>4, <1>5 DEF Next

-----------------------------------------------------------------------------
(* Before the server's first byte to it the remote waits for anything.     *)
LEMMA OrderEmpty ==
  ASSUME line = <<>>, pos \in 1 .. 8, receiveState = "StartBit1"
  PROVE  \E at \in [1 .. Len(line) + 1 -> 1 .. 8] : InOrder(at)
<1> DEFINE at == [k \in 1 .. 1 |-> pos]
<1>1. Len(line) = 0 /\ DOMAIN line = {}
  OBVIOUS
<1>2. at \in [1 .. Len(line) + 1 -> 1 .. 8] /\ at[1] = pos /\ Len(line) + 1 = 1
  BY <1>1
<1>3. Awaited = 1 .. 8
  BY DEF Awaited
<1>4. InOrder(at)
  BY <1>1, <1>2, <1>3 DEF InOrder
<1> QED
  BY <1>2, <1>4

LEMMA PristineInit == Init => PristineInv
<1> SUFFICES ASSUME Init PROVE PristineInv
  OBVIOUS
<1>1. \E at \in [1 .. Len(line) + 1 -> 1 .. 8] : InOrder(at)
  BY OrderEmpty DEF Init
<1>2. NothingElse
  BY DEF Init, NothingElse
<1> QED
  BY <1>1, <1>2 DEF Init, PristineInv

(* A byte goes onto the line.                                              *)
LEMMA DeliverOrder ==
  ASSUME Shape, Deliver, NEW at \in [1 .. Len(line) + 1 -> 1 .. 8], InOrder(at)
  PROVE  \E new \in [1 .. Len(line') + 1 -> 1 .. 8] : InOrder(new)'
<1>1. /\ line' = Append(line, Frame(pwmLight)[pos])
      /\ receiveState' = receiveState /\ pos' = (pos % 8) + 1 /\ pos' \in 1 .. 8
  BY DEF Deliver, Send, remoteVars, Shape, Server
<1>2. Frame(pwmLight)[pos] \in Bytes(pos) /\ Frame(pwmLight)[pos] \in Byte
  BY Marks DEF Bytes, Shape, Server
<1>3. /\ Len(line) \in Nat /\ Len(line') = Len(line) + 1
      /\ DOMAIN line = 1 .. Len(line) /\ DOMAIN line' = 1 .. Len(line) + 1
      /\ \A k \in 1 .. Len(line) : line'[k] = line[k]
      /\ line'[Len(line) + 1] = Frame(pwmLight)[pos]
  BY <1>1, <1>2 DEF Shape
<1>4. PICK new \in [1 .. Len(line') + 1 -> 1 .. 8] :
        new = [k \in 1 .. Len(line) + 2 |-> IF k = Len(line) + 2 THEN pos' ELSE at[k]]
  <2> DEFINE f == [k \in 1 .. Len(line) + 2 |-> IF k = Len(line) + 2 THEN pos' ELSE at[k]]
  <2>1. Len(line') + 1 = Len(line) + 2
    BY <1>3
  <2>2. \A k \in 1 .. Len(line) + 2 : f[k] \in 1 .. 8
    BY <1>1, <1>3
  <2>3. f \in [1 .. Len(line') + 1 -> 1 .. 8]
    BY <2>1, <2>2
  <2> QED
    BY <2>3
<1>5. ASSUME NEW k \in DOMAIN line' PROVE line'[k] \in Bytes(new[k]) /\ new[k + 1] \in Follow(new[k])
  <2>1. CASE k = Len(line) + 1
    <3>1. new[k] = pos /\ new[k + 1] = pos'
      BY <1>3, <1>4, <2>1 DEF InOrder
    <3> QED
      BY <1>1, <1>2, <1>3, <2>1, <3>1 DEF Follow
  <2>2. CASE k # Len(line) + 1
    <3>1. k \in 1 .. Len(line) /\ k + 1 \in 1 .. Len(line) + 1
      BY <1>3, <2>2
    <3>2. new[k] = at[k] /\ new[k + 1] = at[k + 1]
      BY <1>3, <1>4, <3>1
    <3> QED
      BY <1>3, <3>1, <3>2 DEF InOrder
  <2> QED
    BY <2>1, <2>2
<1>6. new[1] = at[1] /\ new[Len(line') + 1] = pos'
  BY <1>3, <1>4
<1>7. Awaited' = Awaited
  BY <1>1 DEF Awaited
<1>8. InOrder(new)'
  BY <1>5, <1>6, <1>7 DEF InOrder, Bytes, Follow
<1> QED
  BY <1>4, <1>8

(* The server starts over.                                                 *)
LEMMA RestartOrder ==
  ASSUME Shape, ServerRestart, NEW at \in [1 .. Len(line) + 1 -> 1 .. 8], InOrder(at)
  PROVE  \E new \in [1 .. Len(line') + 1 -> 1 .. 8] : InOrder(new)'
<1>1. line' = line /\ receiveState' = receiveState /\ pos' = 1
  BY DEF ServerRestart, remoteVars
<1>2. Len(line) \in Nat /\ DOMAIN line = 1 .. Len(line)
  BY DEF Shape
<1>3. PICK new \in [1 .. Len(line') + 1 -> 1 .. 8] : new = [at EXCEPT ![Len(line) + 1] = 1]
  <2>1. [at EXCEPT ![Len(line) + 1] = 1] \in [1 .. Len(line') + 1 -> 1 .. 8]
    BY <1>1
  <2> QED
    BY <2>1
<1>4. ASSUME NEW k \in DOMAIN line' PROVE line'[k] \in Bytes(new[k]) /\ new[k + 1] \in Follow(new[k])
  <2>1. k \in 1 .. Len(line) /\ k + 1 \in 1 .. Len(line) + 1
    BY <1>1, <1>2
  <2>2. new[k] = at[k] /\ new[k + 1] \in {at[k + 1], 1}
    BY <1>2, <1>3, <2>1
  <2> QED
    BY <1>1, <1>2, <2>1, <2>2 DEF InOrder, Follow
<1>5. new[1] \in {at[1], 1} /\ new[Len(line') + 1] = 1
  BY <1>1, <1>2, <1>3
<1>6. Awaited' = Awaited /\ 1 \in Awaited
  BY <1>1 DEF Awaited
<1>7. InOrder(new)'
  BY <1>1, <1>4, <1>5, <1>6 DEF InOrder, Bytes, Follow
<1> QED
  BY <1>3, <1>7

(* The remote takes a byte: what it may be, and where the next comes from. *)
LEMMA TakeMoves ==
  ASSUME Shape, NEW p \in Awaited, NEW byte \in Bytes(p), Take(byte), NEW q \in Follow(p),
         receiveState = "PayloadValue" => payloadSize = 1
  PROVE  /\ p \in 1 .. 8 /\ q \in Awaited'
         /\ receiveState = "PayloadSize" /\ receiveState' = "PayloadId" => byte = 1
         /\ receiveState = "PayloadId" => byte = led1PwmID \/ byte \notin Ids
<1>1. p \in 1 .. 8
  BY DEF Awaited
<1>2. q \in 1 .. 8 /\ q \in {(p % 8) + 1, 1}
  BY <1>1 DEF Follow
<1> USE <1>1, <1>2, Marks
<1>3. CASE Start1(byte)
  BY <1>3 DEF Start1, Goto, Awaited
<1>4. CASE Start2(byte)
  BY <1>4 DEF Start2, Goto, Awaited
<1>5. CASE Size(byte)
  <2>1. p \in {1, 3, 7}
    BY <1>5 DEF Size, Awaited
  <2>2. byte < MaxSize => p = 3 /\ byte = 1
    BY <2>1, Constants DEF Byte
  <2> QED
    BY <1>5, <2>1, <2>2 DEF Size, Goto, Awaited
<1>6. CASE Id(byte)
  <2>1. p \in {1, 4}
    BY <1>6 DEF Id, Awaited
  <2>2. byte = led1PwmID \/ byte = H
    BY <2>1
  <2> QED
    BY <1>6, <2>2, Constants DEF Id, Goto, Awaited, Ids
<1>7. CASE Value(byte)
  BY <1>7 DEF Value, Goto, Awaited
<1>8. CASE Checksum(byte)
  BY <1>8 DEF Checksum, Goto, Awaited
<1>9. CASE End(byte, "EndBit1", B, "EndBit2") \/ End(byte, "EndBit2", Y, "StartBit1")
  BY <1>9 DEF End, Goto, Awaited
<1> QED
  BY <1>3, <1>4, <1>5, <1>6, <1>7, <1>8, <1>9 DEF Take

LEMMA ReadOrder ==
  ASSUME Shape, Read, NEW at \in [1 .. Len(line) + 1 -> 1 .. 8], InOrder(at),
         receiveState = "PayloadValue" => payloadSize = 1
  PROVE  \E new \in [1 .. Len(line') + 1 -> 1 .. 8] : InOrder(new)'
<1>1. line # <<>> /\ Take(line[1]) /\ line' = Tail(line) /\ pos' = pos
  BY DEF Read, serverVars, Shape
<1>2. /\ Len(line) \in Nat \ {0} /\ Len(line') = Len(line) - 1
      /\ DOMAIN line = 1 .. Len(line) /\ DOMAIN line' = 1 .. Len(line) - 1
      /\ \A k \in 1 .. Len(line) - 1 : line'[k] = line[k + 1]
  BY <1>1 DEF Shape
<1>3. PICK new \in [1 .. Len(line') + 1 -> 1 .. 8] : new = [k \in 1 .. Len(line) |-> at[k + 1]]
  <2>1. \A k \in 1 .. Len(line) : at[k + 1] \in 1 .. 8
    BY <1>2
  <2>2. Len(line') + 1 = Len(line)
    BY <1>2
  <2>3. [k \in 1 .. Len(line) |-> at[k + 1]] \in [1 .. Len(line') + 1 -> 1 .. 8]
    BY <2>1, <2>2
  <2> QED
    BY <2>3
<1>4. ASSUME NEW k \in DOMAIN line' PROVE line'[k] \in Bytes(new[k]) /\ new[k + 1] \in Follow(new[k])
  <2>1. k \in 1 .. Len(line) /\ k + 1 \in 1 .. Len(line) /\ line'[k] = line[k + 1]
    BY <1>2
  <2>2. new[k] = at[k + 1] /\ new[k + 1] = at[(k + 1) + 1]
    BY <1>2, <1>3, <2>1
  <2> QED
    BY <1>2, <2>1, <2>2 DEF InOrder
<1>5. new[Len(line') + 1] = pos'
  BY <1>1, <1>2, <1>3 DEF InOrder
<1>6. new[1] \in Awaited'
  <2>1. line[1] \in Bytes(at[1]) /\ at[2] \in Follow(at[1]) /\ at[1] \in Awaited
    BY <1>2 DEF InOrder
  <2>2. new[1] = at[2]
    BY <1>2, <1>3
  <2> QED
    BY <1>1, <2>1, <2>2, TakeMoves
<1>7. InOrder(new)'
  BY <1>4, <1>5, <1>6 DEF InOrder, Bytes, Follow
<1> QED
  BY <1>3, <1>7

(* The end of a pass leaves the remote where it is or at the start.        *)
LEMMA PassOrder ==
  ASSUME Shape, Pass, NEW at \in [1 .. Len(line) + 1 -> 1 .. 8], InOrder(at)
  PROVE  \E new \in [1 .. Len(line') + 1 -> 1 .. 8] : InOrder(new)'
<1>1. /\ line' = line /\ pos' = pos
      /\ receiveState' = receiveState \/ receiveState' = "StartBit1"
  BY DEF Pass, serverVars
<1>2. at[1] \in Awaited'
  <2>1. 1 \in 1 .. Len(line) + 1
    BY DEF Shape
  <2> QED
    BY <1>1, <2>1 DEF Awaited, InOrder
<1>3. InOrder(at)'
  BY <1>1, <1>2 DEF InOrder, Bytes, Follow
<1> QED
  BY <1>1, <1>3

LEMMA PristineNext == Shape /\ PristineInv /\ [Next]_vars => PristineInv'
<1> SUFFICES ASSUME Shape, PristineInv, [Next]_vars, pristine'
             PROVE  /\ \E at \in [1 .. Len(line') + 1 -> 1 .. 8] : InOrder(at)'
                    /\ receiveState' \in {"PayloadId", "PayloadValue"} => payloadSize' = 1
                    /\ parameter' \in {"none", "led1"}
                    /\ NothingElse'
  BY DEF PristineInv
<1> DEFINE Order == \E at \in [1 .. Len(line') + 1 -> 1 .. 8] : InOrder(at)'
           Rest  == /\ receiveState' \in {"PayloadId", "PayloadValue"} => payloadSize' = 1
                    /\ parameter' \in {"none", "led1"}
                    /\ NothingElse'
<1>1. CASE RemoteRestart
  <2>1. line' = <<>> /\ pos' \in 1 .. 8 /\ receiveState' = "StartBit1"
    BY <1>1 DEF RemoteRestart, serverVars, Shape, Server
  <2>2. Order
    <3>1. PICK at \in [1 .. Len(line') + 1 -> 1 .. 8] : at = [k \in 1 .. 1 |-> pos']
      <4>1. Len(line') + 1 = 1
        BY <2>1
      <4>2. [k \in 1 .. 1 |-> pos'] \in [1 .. Len(line') + 1 -> 1 .. 8]
        BY <2>1, <4>1
      <4> QED
        BY <4>2
    <3>2. Len(line') = 0 /\ DOMAIN line' = {} /\ at[1] = pos'
      BY <2>1, <3>1
    <3>3. Awaited' = 1 .. 8
      BY <2>1 DEF Awaited
    <3>4. InOrder(at)'
      BY <2>1, <3>2, <3>3 DEF InOrder
    <3> QED
      BY <3>4
  <2>3. Rest
    BY <1>1 DEF RemoteRestart, NothingElse
  <2> QED
    BY <2>2, <2>3
<1>2. CASE ~RemoteRestart
  <2>1. pristine
    BY <1>2 DEF Next, Deliver, Damage, ServerRestart, Read, Pass, pastVars, vars
  <2>2. PICK at \in [1 .. Len(line) + 1 -> 1 .. 8] : InOrder(at)
    BY <2>1 DEF PristineInv
  <2>3. /\ receiveState \in {"PayloadId", "PayloadValue"} => payloadSize = 1
        /\ parameter \in {"none", "led1"} /\ NothingElse
    BY <2>1 DEF PristineInv
  <2>4. CASE Deliver \/ ServerRestart
    <3>1. Order
      BY <2>2, <2>4, DeliverOrder, RestartOrder
    <3>2. UNCHANGED <<receiveState, payloadSize, parameter, value, toSet>>
      BY <2>4 DEF Deliver, Send, ServerRestart, remoteVars
    <3> QED
      BY <2>1, <2>3, <3>1, <3>2 DEF NothingElse
  <2>5. CASE Damage
    BY <2>5 DEF Damage
  <2>6. CASE Read
    <3>1. Order
      BY <2>2, <2>3, <2>6, ReadOrder
    <3>2. PICK p \in Awaited : line[1] \in Bytes(p)
      <4>1. line # <<>> /\ 1 \in DOMAIN line
        BY <2>6 DEF Read, Shape
      <4> QED
        BY <2>2, <4>1 DEF InOrder
    <3>3. Take(line[1]) /\ toSet' = toSet
      BY <2>6 DEF Read, Shape
    <3>4. /\ receiveState = "PayloadSize" /\ receiveState' = "PayloadId" => line[1] = 1
          /\ receiveState = "PayloadId" => line[1] = led1PwmID \/ line[1] \notin Ids
      <4>1. 1 \in Follow(p)
        BY DEF Follow
      <4> QED
        BY <2>3, <3>2, <3>3, <4>1, TakeMoves
    <3>5. parameter' \in {"none", "led1"}
      BY <2>3, <3>3, <3>4, Constants
         DEF Take, Start1, Start2, Size, Id, Value, Checksum, End, Ids
    <3>6. receiveState' \in {"PayloadId", "PayloadValue"} => payloadSize' = 1
      BY <2>3, <3>3, <3>4
         DEF Take, Start1, Start2, Size, Id, Value, Checksum, End, Goto
    <3>7. \A other \in {"led2", "speed"} : value'[other] = value[other]
      BY <2>3, <3>3
         DEF Take, Start1, Start2, Size, Id, Value, Checksum, End, Parameters
    <3> QED
      BY <2>1, <2>3, <3>1, <3>3, <3>5, <3>6, <3>7 DEF NothingElse
  <2>7. CASE Pass
    <3>1. Order
      BY <2>2, <2>7, PassOrder
    <3>2. /\ UNCHANGED <<payloadSize, parameter, value>>
          /\ receiveState' = receiveState \/ receiveState' = "StartBit1"
          /\ toSet' = toSet \/ toSet' = value
      BY <2>7 DEF Pass
    <3> QED
      BY <2>1, <2>3, <3>1, <3>2 DEF NothingElse
  <2>8. CASE UNCHANGED vars
    <3>1. UNCHANGED <<pos, line, receiveState, payloadSize, parameter, value, toSet>>
      BY <2>8 DEF vars, serverVars, remoteVars
    <3>2. InOrder(at)'
      BY <2>2, <3>1 DEF InOrder, Bytes, Follow, Awaited
    <3> QED
      BY <2>1, <2>3, <3>1, <3>2 DEF NothingElse
  <2> QED
    BY <1>2, <2>4, <2>5, <2>6, <2>7, <2>8 DEF Next
<1> QED
  BY <1>1, <1>2

-----------------------------------------------------------------------------
(* On a clean line only the parameter that is sent changes, at whatever    *)
(* byte the remote is switched on or the server starts over, and although  *)
(* lights and checksums may look like marks: it reads a size only where a  *)
(* size, an end mark or a start mark is, and an id only where an id or a   *)
(* start mark is.                                                          *)
THEOREM NothingElseSet == Spec => []NothingElse
<1>1. Init => Shape /\ PristineInv
  BY ShapeInit, PristineInit
<1>2. Shape /\ PristineInv /\ [Next]_vars => Shape' /\ PristineInv'
  BY ShapeNext, PristineNext
<1>3. PristineInv => NothingElse
  BY DEF PristineInv, NothingElse
<1> QED
  BY <1>1, <1>2, <1>3, PTL DEF Spec

-----------------------------------------------------------------------------
(* The numbered bytes: where one is in its frame, and the next one.        *)
LEMMA Numbers ==
  ASSUME NEW x \in Int
  PROVE  /\ PlaceOf(x) \in 1 .. 8 /\ LightOf(x) \in Byte
         /\ PlaceOf(x + 1) = (IF PlaceOf(x) = 8 THEN 1 ELSE PlaceOf(x) + 1)
         /\ LightOf(x + 1) = (IF PlaceOf(x) = 8 THEN (LightOf(x) + 1) % N ELSE LightOf(x))
<1>1. N \in Nat \ {0} /\ x \div 8 \in Int /\ x % 8 \in 0 .. 7
  BY Constants, Bits
<1>2. (x + 1) % 8 = IF x % 8 = 7 THEN 0 ELSE (x % 8) + 1
  OBVIOUS
<1>3. (x + 1) \div 8 = IF x % 8 = 7 THEN (x \div 8) + 1 ELSE x \div 8
  OBVIOUS
<1>4. LightOf(x) \in Byte
  BY <1>1, Bits DEF LightOf
<1>5. ((x \div 8) + 1) % N = (((x \div 8) % N) + 1) % N
  BY <1>1, OneOn
<1>6. LightOf(x + 1) = (IF x % 8 = 7 THEN (LightOf(x) + 1) % N ELSE LightOf(x))
  BY <1>3, <1>5 DEF LightOf
<1> QED
  BY <1>1, <1>2, <1>4, <1>6 DEF PlaceOf

(* After the last value the server begins again with 0.                    *)
LEMMA Round ==
  ASSUME NEW x \in Int
  PROVE  /\ PlaceOf(x - 8 * N) = PlaceOf(x) /\ LightOf(x - 8 * N) = LightOf(x)
         /\ Stream(x - 8 * N) = Stream(x)
<1>1. N \in Nat \ {0} /\ x \div 8 \in Int
  BY Constants, Bits
<1>2. (x - 8 * N) % 8 = x % 8 /\ (x - 8 * N) \div 8 = (x \div 8) - N
  BY <1>1
<1>3. ((x \div 8) - N) % N = (x \div 8) % N
  BY <1>1, TurnBack
<1> QED
  BY <1>2, <1>3 DEF PlaceOf, LightOf, Stream

(* The bytes of a frame, by their place.                                   *)
LEMMA Streamed ==
  ASSUME NEW x \in Int
  PROVE  /\ Stream(x) \in Byte
         /\ Stream(x) = H => PlaceOf(x) \in {1, 5, 6}
         /\ PlaceOf(x) = 1 => Stream(x) = H
         /\ PlaceOf(x) = 2 => Stream(x) = I
         /\ PlaceOf(x) = 3 => Stream(x) = 1
         /\ PlaceOf(x) = 4 => Stream(x) = led1PwmID
         /\ PlaceOf(x) = 5 => Stream(x) = LightOf(x)
         /\ PlaceOf(x) = 7 => Stream(x) = B
         /\ PlaceOf(x) = 8 => Stream(x) = Y
<1>1. PlaceOf(x) \in 1 .. 8 /\ LightOf(x) \in Byte
  BY Numbers
<1>2. Stream(x) \in Bytes(PlaceOf(x))
  BY <1>1 DEF Stream, Bytes
<1>3. Stream(x) \in Byte /\ (Stream(x) = H => PlaceOf(x) \in {1, 5, 6})
  BY <1>1, <1>2, Marks
<1> QED
  BY <1>3 DEF Stream, Frame

(* The server's next byte is the one that follows those on the line.       *)
LEMMA Own ==
  ASSUME Shape
  PROVE  /\ Upcoming \in Int /\ Upcoming + Len(line) = 8 * pwmLight + pos - 1
         /\ Stream(8 * pwmLight + pos - 1) = Frame(pwmLight)[pos]
<1>1. pwmLight \in 0 .. N - 1 /\ pos \in 1 .. 8 /\ Len(line) \in Nat /\ N \in Nat \ {0}
  BY Constants, Bits DEF Shape, Server, Byte
<1>2. (8 * pwmLight + pos - 1) % 8 = pos - 1 /\ (8 * pwmLight + pos - 1) \div 8 = pwmLight
  BY <1>1
<1>3. pwmLight % N = pwmLight
  BY <1>1, Small
<1>4. Stream(8 * pwmLight + pos - 1) = Frame(pwmLight)[pos]
  BY <1>1, <1>2, <1>3 DEF Stream, PlaceOf, LightOf
<1> QED
  BY <1>1, <1>4 DEF Upcoming

-----------------------------------------------------------------------------
Counts ==
  /\ timer \in Nat /\ clean \in 0 .. MaxClean /\ behind \in 0 .. MaxBehind
  /\ sent \in Byte

LEMMA Limits ==
  /\ RS485Timeout \in Nat /\ RS485Timeout >= 6
  /\ MaxBehind \in Nat \ {0} /\ MaxClean \in Nat
BY Rs485Assumption

LEMMA CountsInit == Init => Counts
<1> SUFFICES ASSUME Init PROVE Counts
  OBVIOUS
<1>1. sent \in Byte
  BY Bits DEF Init, Byte
<1> QED
  BY <1>1, Limits DEF Init, Counts

LEMMA CountsNext == Shape /\ Counts /\ [Next]_vars => Counts'
<1> SUFFICES ASSUME Shape, Counts, [Next]_vars PROVE Counts'
  OBVIOUS
<1> USE Limits DEF Counts
<1>1. CASE Deliver \/ Damage
  <2>1. sent' \in Byte
    BY <1>1 DEF Deliver, Damage, Send, Shape, Server
  <2>2. timer' \in Nat /\ behind' \in 0 .. MaxBehind
    BY <1>1 DEF Deliver, Damage, Send
  <2>3. clean' \in 0 .. MaxClean
    BY <1>1 DEF Deliver, Damage
  <2> QED
    BY <2>1, <2>2, <2>3
<1>2. CASE ServerRestart \/ RemoteRestart
  BY <1>2 DEF ServerRestart, RemoteRestart, serverVars
<1>3. CASE Read
  <2>1. timer' = 0 \/ timer' = timer
    BY <1>3 DEF Read, Take, Start1, Start2, Size, Id, Value, Checksum, End
  <2> QED
    BY <1>3, <2>1 DEF Read, serverVars, pastVars
<1>4. CASE Pass
  BY <1>4 DEF Pass, serverVars, pastVars
<1>5. CASE UNCHANGED vars
  BY <1>5 DEF vars, serverVars, pastVars
<1> QED
  BY <1>1, <1>2, <1>3, <1>4, <1>5 DEF Next

LEMMA SinceType == Shape /\ Counts => Since \in Nat
BY Limits DEF Since, Shape, Server, Counts

(* What is known of a remote of which no byte it has read is counted.      *)
Unread == Shape /\ Counts /\ Since <= Len(line) /\ Since < MaxBehind
Anew   == Lost \/ (Flushed /\ Waiting)

LEMMA NoneRead == Unread => Anew
<1> SUFFICES ASSUME Unread PROVE Anew
  OBVIOUS
<1>1. Shape /\ Counts /\ Since \in Nat /\ Len(line) \in Nat
  BY SinceType DEF Unread, Shape
<1>2. Place \in 1 .. 8
  BY <1>1, Own, Numbers DEF Place
<1>3. CASE Flushed /\ receiveState = "StartBit1"
  BY <1>1, <1>2, <1>3, Limits DEF Unread, Flushed, Waiting, Longest, Anew
<1>4. CASE ~(Flushed /\ receiveState = "StartBit1")
  BY <1>1, <1>4, Limits DEF Unread, Lost, Counts, Anew
<1> QED
  BY <1>3, <1>4

LEMMA NoneReadNext == Unread' => Anew'
BY NoneRead, PTL

LEMMA RecoverInit == Init => RecoverInv
<1> SUFFICES ASSUME Init PROVE RecoverInv
  OBVIOUS
<1>1. Shape /\ Counts
  BY ShapeInit, CountsInit
<1>2. Len(line) = 0 /\ DOMAIN line = {} /\ Since = 0
  BY DEF Init, Since
<1>3. Place \in 1 .. 8
  BY <1>1, Own, Numbers DEF Place
<1>4. Flushed /\ Waiting
  BY <1>2, <1>3, Limits DEF Init, Flushed, Waiting, Longest
<1> QED
  BY <1>2, <1>4, Limits DEF Init, RecoverInv, Contiguous

(* A fault: nothing that was sent so far counts.                           *)
LEMMA FaultRecovers ==
  ASSUME Shape, Counts, RecoverInv, Damage \/ ServerRestart \/ RemoteRestart
  PROVE  RecoverInv'
<1>1. Shape' /\ Counts'
  BY ShapeNext, CountsNext DEF Next
<1>2. Since' = 0 /\ clean' = 0
  BY DEF Since, Damage, ServerRestart, RemoteRestart
<1>3. Len(line') \in Nat /\ DOMAIN line' = 1 .. Len(line')
  BY <1>1 DEF Shape
<1>4. Anew'
  BY <1>1, <1>2, <1>3, NoneReadNext, Limits DEF Unread
<1>5. Contiguous'
  BY <1>2, <1>3 DEF Contiguous
<1>6. Len(line') <= behind' /\ (behind' = 0 => ~CRCcheck')
  <2>1. CASE Damage
    <3>1. Len(line') <= Len(line) + 1
      BY <2>1, Rs485Assumption DEF Damage, Shape
    <3> QED
      BY <2>1, <3>1 DEF Damage, Send, RecoverInv, Counts, Shape
  <2>2. CASE ServerRestart
    BY <2>2 DEF ServerRestart, remoteVars, RecoverInv
  <2>3. CASE RemoteRestart
    BY <2>3 DEF RemoteRestart
  <2> QED
    BY <2>1, <2>2, <2>3
<1> QED
  BY <1>2, <1>4, <1>5, <1>6 DEF RecoverInv, Anew

(* A byte goes onto the line: nothing that was read becomes another.       *)
LEMMA Appended ==
  ASSUME Shape, Deliver
  PROVE  /\ Len(line) \in Nat /\ Len(line') = Len(line) + 1
         /\ \A k \in 1 .. Len(line) : line'[k] = line[k]
         /\ line'[Len(line) + 1] = Stream(Upcoming + Len(line))
         /\ Upcoming \in Int /\ Upcoming' \in {Upcoming, Upcoming - 8 * N}
<1>1. /\ line' = Append(line, Frame(pwmLight)[pos])
      /\ pos' = (pos % 8) + 1
      /\ pwmLight' = (IF pos = 8 THEN (pwmLight + 1) % N ELSE pwmLight)
  BY DEF Deliver, Send
<1>2. Frame(pwmLight)[pos] \in Byte
  BY Marks DEF Bytes, Shape, Server
<1>3. /\ Len(line) \in Nat /\ Len(line') = Len(line) + 1
      /\ \A k \in 1 .. Len(line) : line'[k] = line[k]
      /\ line'[Len(line) + 1] = Frame(pwmLight)[pos]
  BY <1>1, <1>2 DEF Shape
<1>4. Upcoming \in Int /\ Frame(pwmLight)[pos] = Stream(Upcoming + Len(line))
  BY Own
<1>5. Upcoming' = 8 * pwmLight' + pos' - 1 - (Len(line) + 1)
  BY <1>3 DEF Upcoming
<1>6. pos \in 1 .. 8 /\ pwmLight \in 0 .. N - 1 /\ N \in Nat \ {0}
  BY Constants, Bits DEF Shape, Server, Byte
<1>7. CASE pos = 8
  <2>1. pwmLight' = (IF pwmLight + 1 = N THEN 0 ELSE pwmLight + 1) /\ pos' = 1
    <3>1. (pwmLight + 1) % N = IF pwmLight + 1 = N THEN 0 ELSE pwmLight + 1
      BY <1>6, Successor
    <3> QED
      BY <1>1, <1>7, <3>1
  <2>2. CASE pwmLight + 1 = N
    <3>1. Upcoming' = 0 - (Len(line) + 1) /\ Upcoming = 8 * (N - 1) + 8 - 1 - Len(line)
      BY <1>5, <1>6, <1>7, <2>1, <2>2 DEF Upcoming
    <3> QED
      BY <1>3, <1>4, <1>6, <3>1
  <2>3. CASE pwmLight + 1 # N
    <3>1. Upcoming' = 8 * (pwmLight + 1) + 1 - 1 - (Len(line) + 1)
      BY <1>5, <2>1, <2>3
    <3> QED
      BY <1>3, <1>4, <1>6, <1>7, <3>1 DEF Upcoming
  <2> QED
    BY <2>2, <2>3
<1>8. CASE pos # 8
  <2>1. pos' = pos + 1 /\ pwmLight' = pwmLight
    BY <1>1, <1>6, <1>8
  <2>2. Upcoming' = 8 * pwmLight + (pos + 1) - 1 - (Len(line) + 1)
    BY <1>5, <2>1
  <2> QED
    BY <1>3, <1>4, <1>6, <2>2 DEF Upcoming
<1> QED
  BY <1>3, <1>4, <1>7, <1>8

(* ... and, where it can, the count goes on by one.                        *)
LEMMA SinceDeliver ==
  ASSUME Shape, Counts, Deliver
  PROVE  /\ Since \in Nat /\ Since' \in Nat /\ Since' <= Since + 1
         /\ Len(line') <= Since' => Len(line) <= Since
<1>1. /\ pos' = (pos % 8) + 1 /\ pos \in 1 .. 8 /\ clean \in Nat
      /\ clean' = (IF pos = 8 /\ clean < MaxClean THEN clean + 1 ELSE clean)
  BY Limits DEF Deliver, Send, Shape, Server, Counts
<1> DEFINE S(c, p) == IF c = 0 THEN 0 ELSE 8 * (c - 1) + p
<1>2. Since = S(clean, pos) /\ Since' = S(clean', pos')
  BY DEF Since
<1>3. \A c \in Nat, p \in 1 .. 8 :
        /\ S(c, p) \in Nat /\ S(c, 1) \in Nat /\ S(c, p + 1) \in Nat /\ S(c + 1, 1) \in Nat
        /\ S(c, 1) <= S(c, p) + 1 /\ S(c, p + 1) <= S(c, p) + 1
        /\ S(c + 1, 1) <= S(c, 8) + 1
  OBVIOUS
<1>4. \/ pos = 8 /\ pos' = 1 /\ clean' = clean + 1
      \/ pos' = 1 /\ clean' = clean
      \/ pos' = pos + 1 /\ clean' = clean
  BY <1>1
<1> HIDE DEF S
<1>5. pos \in 1 .. 8 /\ clean \in Nat
  BY <1>1
<1>6. Since \in Nat /\ Since' \in Nat /\ Since' <= Since + 1
  BY <1>2, <1>3, <1>4, <1>5
<1> QED
  BY <1>6, Appended

LEMMA DeliverRecovers ==
  ASSUME Shape, Counts, RecoverInv, Deliver
  PROVE  RecoverInv'
<1>1. Shape' /\ Counts'
  BY ShapeNext, CountsNext DEF Next
<1>2. /\ Len(line) \in Nat /\ Len(line') = Len(line) + 1
      /\ Since \in Nat /\ Since' \in Nat /\ Since' <= Since + 1
      /\ Len(line') <= Since' => Len(line) <= Since
  BY Appended, SinceDeliver
<1>3. /\ Place' = Place /\ Light' = Light /\ Place \in 1 .. 8
      /\ \A k \in Int : Stream(Upcoming' + k) = Stream(Upcoming + k)
  <2>1. Upcoming \in Int /\ N \in Nat
    BY Appended, Constants
  <2>2. CASE Upcoming' = Upcoming
    BY <2>1, <2>2, Numbers DEF Place, Light
  <2>3. CASE Upcoming' = Upcoming - 8 * N
    <3>1. Place' = Place /\ Light' = Light /\ Place \in 1 .. 8
      BY <2>1, <2>3, Round, Numbers DEF Place, Light
    <3>2. ASSUME NEW k \in Int PROVE Stream(Upcoming' + k) = Stream(Upcoming + k)
      <4>1. Upcoming + k \in Int /\ Upcoming' + k = (Upcoming + k) - 8 * N
        BY <2>1, <2>3
      <4> QED
        BY <4>1, Round
    <3> QED
      BY <3>1, <3>2
  <2> QED
    BY <2>2, <2>3, Appended
<1>4. /\ UNCHANGED <<receiveState, payloadSize, parameter, value, CRCcheck, toSet>>
      /\ behind' = behind + 1 /\ behind' <= MaxBehind
      /\ timer' = (IF timer <= RS485Timeout THEN timer + 1 ELSE timer)
      /\ timer \in Nat /\ behind \in Nat
  BY Limits DEF Deliver, Send, remoteVars, Counts
<1>5. Contiguous'
  <2> SUFFICES ASSUME NEW k \in 1 .. Len(line) + 1, k > Len(line) + 1 - Since'
               PROVE  line'[k] = Stream(Upcoming' + k - 1)
    BY <1>1, <1>2 DEF Contiguous, Shape
  <2>1. Stream(Upcoming' + k - 1) = Stream(Upcoming + k - 1)
    <3>1. Upcoming \in Int /\ Upcoming' \in Int /\ k - 1 \in Int
      BY Appended, Constants
    <3>2. Stream(Upcoming' + (k - 1)) = Stream(Upcoming + (k - 1))
      BY <1>3, <3>1
    <3>3. Upcoming' + k - 1 = Upcoming' + (k - 1) /\ Upcoming + k - 1 = Upcoming + (k - 1)
      BY <3>1
    <3> QED
      BY <3>2, <3>3
  <2>2. CASE k = Len(line) + 1
    <3>1. Upcoming \in Int /\ Upcoming + k - 1 = Upcoming + Len(line)
      BY <1>2, <2>2, Appended
    <3> QED
      BY <2>1, <2>2, <3>1, Appended
  <2>3. CASE k # Len(line) + 1
    <3>1. k \in 1 .. Len(line) /\ k > Len(line) - Since
      BY <1>2, <2>3
    <3>2. line[k] = Stream(Upcoming + k - 1)
      BY <3>1 DEF RecoverInv, Contiguous, Shape
    <3> QED
      BY <2>1, <3>1, <3>2, Appended
  <2> QED
    BY <2>2, <2>3
<1>6. Len(line') <= behind' /\ (behind' = 0 => ~CRCcheck')
  BY <1>2, <1>4 DEF RecoverInv
<1>7. clean' > 0 => pwmLight' = (sent' + 1) % N
  BY Limits DEF Deliver, Send, RecoverInv, Counts
<1>8. Lost \/ (Flushed /\ (Waiting \/ Following \/ Done))
  BY DEF RecoverInv
<1>9. Lost' \/ (Flushed' /\ (Waiting' \/ Following' \/ Done'))
  <2>1. CASE ~Flushed'
    <3>1. Unread'
      BY <1>1, <1>2, <1>4, <1>6, <2>1, Limits DEF Unread, Flushed
    <3> QED
      BY <3>1, NoneReadNext DEF Anew
  <2>2. CASE Flushed' /\ Lost
    <3>1. Flushed
      BY <1>2, <2>2 DEF Flushed
    <3>2. receiveState' # "StartBit1"
      BY <1>4, <2>2, <3>1 DEF Lost
    <3>3. timer' <= RS485Timeout => Since' < timer' + MaxBehind
      BY <1>2, <1>4, <2>2, Limits DEF Lost
    <3>4. Since' < RS485Timeout + MaxBehind + behind'
      BY <1>2, <1>4, <2>2, Limits DEF Lost
    <3> QED
      BY <3>2, <3>3, <3>4 DEF Lost
  <2>3. CASE Flushed' /\ Waiting
    <3>1. Since' - Len(line') <= Since - Len(line)
      BY <1>2
    <3> QED
      BY <1>2, <1>3, <1>4, <2>3, <3>1, Limits DEF Waiting, Longest
  <2>4. CASE Flushed' /\ Following
    <3>1. timer' <= timer + 1
      BY <1>4, Limits
    <3>2. timer' \in Nat /\ timer' <= Len(line') + Place' - 2
      BY <1>1, <1>2, <1>3, <1>4, <2>4, <3>1 DEF Following, Counts
    <3> QED
      BY <1>3, <1>4, <2>4, <3>2 DEF Following, Has
  <2>5. CASE Flushed' /\ Done
    BY <1>3, <1>4, <2>5 DEF Done, Has
  <2> QED
    BY <1>2, <1>8, <2>1, <2>2, <2>3, <2>4, <2>5 DEF Flushed
<1> QED
  BY <1>5, <1>6, <1>7, <1>9 DEF RecoverInv

(* The end of a pass: a remote that was lost for a whole time-out starts   *)
(* anew, one that follows a frame is not disturbed.                        *)
LEMMA PassRecovers ==
  ASSUME Shape, Counts, RecoverInv, Pass
  PROVE  RecoverInv'
<1>1. /\ UNCHANGED <<pos, pwmLight, sent, line, payloadSize, parameter, value, timer, clean>>
      /\ line = <<>> /\ Len(line) = 0 /\ Len(line') = 0 /\ behind' = 0 /\ ~CRCcheck'
      /\ receiveState' = (IF Expired THEN "StartBit1" ELSE receiveState)
      /\ toSet' = (IF CRCcheck THEN value ELSE toSet)
  BY DEF Pass, serverVars, pastVars
<1>2. Since \in Nat /\ Since' = Since /\ Flushed /\ Flushed'
  <2>1. Since \in Nat /\ Since' = Since
    BY <1>1, SinceType DEF Since
  <2> QED
    BY <1>1, <2>1 DEF Flushed
<1>3. Place' = Place /\ Light' = Light /\ Place \in 1 .. 8
  BY <1>1, Own, Numbers DEF Place, Light, Upcoming
<1>4. timer \in Nat /\ behind \in 0 .. MaxBehind
  BY DEF Counts
<1>5. Contiguous'
  BY <1>1 DEF Contiguous
<1>6. ASSUME NEW v, Has(v) PROVE Has(v)'
  BY <1>1, <1>6 DEF Has
<1>7. Lost \/ Waiting \/ Following \/ Done
  BY DEF RecoverInv
<1>8. Lost' \/ Waiting' \/ Following' \/ Done'
  <2>1. CASE Lost /\ Expired
    <3>1. Since <= Longest
      BY <1>2, <1>4, <2>1, Limits DEF Lost, Longest
    <3> QED
      BY <1>1, <1>2, <1>3, <2>1, <3>1, Limits DEF Waiting, Longest
  <2>2. CASE Lost /\ ~Expired
    <3>1. timer <= RS485Timeout /\ Since < timer + MaxBehind
      BY <1>4, <2>2, Limits DEF Expired, Lost
    <3>2. Since < RS485Timeout + MaxBehind + 0
      BY <1>2, <1>4, <3>1, Limits
    <3>3. receiveState' # "StartBit1"
      BY <1>1, <1>2, <2>2 DEF Lost
    <3> QED
      BY <1>1, <1>2, <3>1, <3>2, <3>3 DEF Lost
  <2>3. CASE Waiting
    BY <1>1, <1>2, <1>3, <2>3 DEF Waiting, Longest
  <2>4. CASE Following
    <3>1. timer <= Place - 2
      BY <1>1, <1>3, <1>4, <2>4 DEF Following
    <3>2. ~Expired
      BY <1>3, <1>4, <3>1, Limits DEF Expired
    <3>3. receiveState' = receiveState
      BY <1>1, <3>2
    <3>4. /\ Has(Light) => Has(Light)'
          /\ value' = value /\ payloadSize' = payloadSize /\ parameter' = parameter
          /\ timer' <= Len(line') + Place' - 2
      BY <1>1, <1>3, <1>6, <3>1
    <3> QED
      BY <1>3, <2>4, <3>3, <3>4 DEF Following
  <2>5. CASE Done
    <3>1. PICK v \in Byte : Has(v) /\ Light = (v + 1) % N
      BY <2>5 DEF Done
    <3>2. Has(v)' /\ receiveState' = "StartBit1" /\ Place' = 1
      BY <1>1, <1>3, <1>6, <2>5, <3>1 DEF Done
    <3> QED
      BY <1>3, <3>1, <3>2 DEF Done, Has
  <2> QED
    BY <1>7, <2>1, <2>2, <2>3, <2>4, <2>5
<1>9. clean' > 0 => pwmLight' = (sent' + 1) % N
  BY <1>1 DEF RecoverInv
<1> QED
  BY <1>1, <1>2, <1>5, <1>8, <1>9 DEF RecoverInv

(* The remote takes the byte that is up, or one from before the fault.     *)
LEMMA ReadRecovers ==
  ASSUME Shape, Counts, RecoverInv, Read
  PROVE  RecoverInv'
<1> DEFINE byte == line[1]
<1>1. Shape' /\ Counts'
  BY ShapeNext, CountsNext DEF Next
<1>2. /\ line # <<>> /\ Take(byte) /\ line' = Tail(line)
      /\ UNCHANGED <<pos, pwmLight, sent, behind, toSet, clean>>
  BY DEF Read, serverVars, pastVars, Shape
<1>3. /\ Len(line) \in Nat \ {0} /\ Len(line') = Len(line) - 1
      /\ DOMAIN line' = 1 .. Len(line) - 1
      /\ \A k \in 1 .. Len(line) - 1 : line'[k] = line[k + 1]
  BY <1>2 DEF Shape
<1>4. Since \in Nat /\ Since' = Since
  BY <1>2, SinceType DEF Since
<1>5. /\ Upcoming \in Int /\ Upcoming' = Upcoming + 1
      /\ Place \in 1 .. 8 /\ Light \in Byte
      /\ Place' = (IF Place = 8 THEN 1 ELSE Place + 1)
      /\ Light' = (IF Place = 8 THEN (Light + 1) % N ELSE Light)
  <2>1. Upcoming \in Int
    BY Own
  <2>2. Upcoming' = 8 * pwmLight + pos - 1 - (Len(line) - 1)
    BY <1>2, <1>3 DEF Upcoming
  <2>3. Upcoming' = Upcoming + 1
    BY <1>3, <2>2, Constants DEF Upcoming, Shape, Server, Byte
  <2> QED
    BY <2>1, <2>3, Numbers DEF Place, Light
<1>6. timer \in Nat /\ behind \in 0 .. MaxBehind /\ Len(line) <= behind
  BY DEF Counts, RecoverInv
<1>7. Contiguous'
  <2> SUFFICES ASSUME NEW k \in 1 .. Len(line) - 1, k > Len(line) - 1 - Since
               PROVE  line'[k] = Stream(Upcoming' + k - 1)
    BY <1>3, <1>4 DEF Contiguous
  <2>1. k + 1 \in 1 .. Len(line) /\ k + 1 > Len(line) - Since
    BY <1>3, <1>4
  <2>2. line[k + 1] = Stream(Upcoming + (k + 1) - 1)
    BY <2>1 DEF RecoverInv, Contiguous, Shape
  <2>3. Upcoming' + k - 1 = Upcoming + (k + 1) - 1
    BY <1>5
  <2> QED
    BY <1>3, <2>2, <2>3
<1>8. ~Flushed => Anew'
  <2> SUFFICES ASSUME ~Flushed PROVE Anew'
    OBVIOUS
  <2>1. Unread'
    BY <1>1, <1>3, <1>4, <1>6, Limits DEF Unread, Flushed
  <2> QED
    BY <2>1, NoneReadNext
<1>9. Flushed => Flushed' /\ (Lost' \/ Waiting' \/ Following' \/ Done')
  <2> SUFFICES ASSUME Flushed PROVE Lost' \/ Waiting' \/ Following' \/ Done'
    BY <1>3, <1>4 DEF Flushed
  <2>1. byte = Stream(Upcoming) /\ byte \in Byte
    <3>1. 1 \in DOMAIN line /\ 1 > Len(line) - Since
      BY <1>3, <1>4 DEF Shape, Flushed
    <3>2. line[1] = Stream(Upcoming + 1 - 1) /\ Upcoming + 1 - 1 = Upcoming
      BY <1>5, <3>1 DEF RecoverInv, Contiguous
    <3> QED
      BY <1>5, <3>2, Streamed
  <2>2. /\ byte = H => Place \in {1, 5, 6}
        /\ Place = 1 => byte = H
        /\ Place = 2 => byte = I
        /\ Place = 3 => byte = 1
        /\ Place = 4 => byte = led1PwmID
        /\ Place = 5 => byte = Light
        /\ Place = 7 => byte = B
        /\ Place = 8 => byte = Y
    BY <1>5, <2>1, Streamed DEF Place, Light
  <2> HIDE DEF byte
  <2>3. Lost \/ Waiting \/ Following \/ Done
    BY DEF RecoverInv
  <2>4. CASE Lost
    <3>1. receiveState # "StartBit1" /\ Since < RS485Timeout + MaxBehind + behind
      BY <2>4 DEF Lost
    <3>2. timer' = timer /\ behind' = behind
      BY <1>2, <3>1 DEF Take, Start1, Start2, Size, Id, Value, Checksum, End
    <3>3. CASE receiveState' = "StartBit1"
      <4>1. Since - (Len(line) - 1) <= Longest
        BY <1>3, <1>4, <1>6, <3>1, Limits DEF Longest
      <4>2. Since' - Len(line') <= Longest
        BY <1>3, <1>4, <4>1
      <4> QED
        BY <1>3, <1>4, <1>5, <3>3, <4>2, Limits DEF Waiting, Longest
    <3>4. CASE receiveState' # "StartBit1"
      BY <1>4, <2>4, <3>2, <3>4 DEF Lost
    <3> QED
      BY <3>3, <3>4
  <2>5. CASE Waiting
    <3>1. Since' - Len(line') = (Since - Len(line)) + 1
      BY <1>3, <1>4
    <3>2. Place # 1 => Since' - Len(line') <= Longest + (IF Place' = 1 THEN 7 ELSE Place' - 2)
      BY <1>3, <1>4, <1>5, <2>5, <3>1, Limits DEF Waiting, Longest
    <3>3. CASE receiveState = "StartBit1"
      <4>1. Start1(byte)
        BY <1>2, <3>3 DEF Take, Start2, Size, Id, Value, Checksum, End
      <4>2. CASE byte = H /\ Place = 1
        <5>1. receiveState' = "StartBit2" /\ timer' = 0 /\ Place' = 2
          BY <1>5, <4>1, <4>2 DEF Start1, Goto
        <5> QED
          BY <1>3, <5>1 DEF Following
      <4>3. CASE byte = H /\ Place # 1
        <5>1. receiveState' = "StartBit2" /\ Place' \in {6, 7}
          BY <1>5, <2>2, <4>1, <4>3 DEF Start1, Goto
        <5> QED
          BY <3>2, <4>3, <5>1 DEF Waiting
      <4>4. CASE byte # H
        <5>1. receiveState' = "StartBit1" /\ Place # 1
          BY <2>2, <3>3, <4>1, <4>4 DEF Start1
        <5> QED
          BY <3>2, <5>1 DEF Waiting
      <4> QED
        BY <4>2, <4>3, <4>4
    <3>4. CASE receiveState = "StartBit2" /\ Place \in {6, 7}
      <4>1. Start2(byte)
        BY <1>2, <3>4 DEF Take, Start1, Size, Id, Value, Checksum, End
      <4>2. receiveState' = "StartBit1" \/ (receiveState' = "PayloadSize" /\ Place = 6)
        BY <2>2, <3>4, <4>1, Constants DEF Start2, Goto
      <4> QED
        BY <1>5, <3>2, <3>4, <4>2 DEF Waiting
    <3>5. CASE receiveState = "PayloadSize" /\ Place = 7
      <4>1. Size(byte)
        BY <1>2, <3>5 DEF Take, Start1, Start2, Id, Value, Checksum, End
      <4>2. receiveState' = "StartBit1"
        BY <2>2, <3>5, <4>1, Constants DEF Size, Goto, Byte
      <4> QED
        BY <3>2, <3>5, <4>2 DEF Waiting
    <3> QED
      BY <2>5, <3>3, <3>4, <3>5 DEF Waiting
  <2>6. CASE Following
    <3>1. /\ receiveState # "StartBit1" /\ timer' = timer
          /\ timer <= Len(line) + Place - 2
      <4>1. receiveState # "StartBit1" /\ timer <= Len(line) + Place - 2
        BY <2>6 DEF Following
      <4> QED
        BY <1>2, <4>1 DEF Take, Start1, Start2, Size, Id, Value, Checksum, End
    <3>2. Place # 8 => timer' <= Len(line') + Place' - 2 /\ Place' = Place + 1 /\ Light' = Light
      BY <1>3, <1>5, <1>6, <3>1
    <3>3. CASE receiveState = "StartBit2" /\ Place = 2
      <4>1. receiveState' = "PayloadSize"
        BY <1>2, <2>2, <3>3 DEF Take, Start1, Start2, Size, Id, Value, Checksum, End, Goto
      <4> QED
        BY <3>2, <3>3, <4>1 DEF Following
    <3>4. CASE receiveState = "PayloadSize" /\ Place = 3
      <4>1. receiveState' = "PayloadId" /\ payloadSize' = 1
        BY <1>2, <2>2, <3>4, Constants
           DEF Take, Start1, Start2, Size, Id, Value, Checksum, End, Goto
      <4> QED
        BY <3>2, <3>4, <4>1 DEF Following
    <3>5. CASE receiveState = "PayloadId" /\ Place = 4 /\ payloadSize = 1
      <4>1. receiveState' = "PayloadValue" /\ payloadSize' = 1 /\ parameter' = "led1"
        BY <1>2, <2>2, <3>5, Constants
           DEF Take, Start1, Start2, Size, Id, Value, Checksum, End, Goto
      <4> QED
        BY <3>2, <3>5, <4>1 DEF Following
    <3>6. CASE receiveState = "PayloadValue" /\ Place = 5 /\ payloadSize = 1 /\ parameter = "led1"
      <4>1. receiveState' = "CRC" /\ value'["led1"] = Light
        BY <1>2, <2>2, <3>6
           DEF Take, Start1, Start2, Size, Id, Value, Checksum, End, Goto, Parameters
      <4> QED
        BY <3>2, <3>6, <4>1 DEF Following
    <3>7. CASE receiveState = "CRC" /\ Place = 6 /\ value["led1"] = Light
      <4>1. receiveState' = "EndBit1" /\ CRCcheck' /\ value' = value
        BY <1>2, <3>7 DEF Take, Start1, Start2, Size, Id, Value, Checksum, End, Goto
      <4> QED
        BY <3>2, <3>7, <4>1 DEF Following, Has
    <3>8. CASE receiveState = "EndBit1" /\ Place = 7 /\ Has(Light)
      <4>1. receiveState' = "EndBit2" /\ CRCcheck' = CRCcheck /\ value' = value
        BY <1>2, <2>2, <3>8 DEF Take, Start1, Start2, Size, Id, Value, Checksum, End, Goto
      <4> QED
        BY <1>2, <3>2, <3>8, <4>1 DEF Following, Has
    <3>9. CASE receiveState = "EndBit2" /\ Place = 8 /\ Has(Light)
      <4>1. receiveState' = "StartBit1" /\ CRCcheck' = CRCcheck /\ value' = value
        BY <1>2, <2>2, <3>9 DEF Take, Start1, Start2, Size, Id, Value, Checksum, End, Goto
      <4>2. Place' = 1 /\ Light' = (Light + 1) % N
        BY <1>5, <3>9
      <4> QED
        BY <1>2, <1>5, <3>9, <4>1, <4>2 DEF Done, Has
    <3> QED
      BY <2>6, <3>3, <3>4, <3>5, <3>6, <3>7, <3>8, <3>9 DEF Following
  <2>7. CASE Done
    <3>1. receiveState' = "StartBit2" /\ timer' = 0
      BY <1>2, <2>2, <2>7 DEF Done, Take, Start1, Start2, Size, Id, Value, Checksum, End, Goto
    <3>2. Place' = 2
      BY <1>5, <2>7 DEF Done
    <3> QED
      BY <1>3, <3>1, <3>2 DEF Following
  <2> QED
    BY <2>3, <2>4, <2>5, <2>6, <2>7
<1>10. behind' = 0 => ~CRCcheck'
  BY <1>2, <1>3, <1>6
<1>11. clean' > 0 => pwmLight' = (sent' + 1) % N
  BY <1>2 DEF RecoverInv
<1>12. Len(line') <= behind'
  BY <1>2, <1>3, <1>6
<1> QED
  BY <1>7, <1>8, <1>9, <1>10, <1>11, <1>12 DEF RecoverInv, Anew

LEMMA RecoverNext == Shape /\ Counts /\ RecoverInv /\ [Next]_vars => RecoverInv'
<1> SUFFICES ASSUME Shape, Counts, RecoverInv, [Next]_vars PROVE RecoverInv'
  OBVIOUS
<1>1. CASE UNCHANGED vars
  <2>1. UNCHANGED <<pos, pwmLight, sent, line, behind, receiveState, payloadSize, parameter,
                    value, CRCcheck, toSet, timer, clean>>
    BY <1>1 DEF vars, serverVars, remoteVars, pastVars
  <2>2. Upcoming' = Upcoming /\ Since' = Since
    BY <2>1 DEF Upcoming, Since
  <2> QED
    BY <2>1, <2>2 DEF RecoverInv, Contiguous, Lost, Flushed, Waiting, Following, Done, Has,
                      Place, Light
<1> QED
  BY <1>1, DeliverRecovers, FaultRecovers, ReadRecovers, PassRecovers DEF Next

(* Enough clean frames later it is neither lost nor waits nor follows.     *)
LEMMA RecoversThen == Shape /\ Counts /\ RecoverInv => Recovers
<1> SUFFICES ASSUME Shape, Counts, RecoverInv, CaughtUp, clean >= FramesToRecover
             PROVE  toSet["led1"] = sent
  BY DEF Recovers
<1>1. pos = 1 /\ line = <<>> /\ Len(line) = 0 /\ behind = 0 /\ ~CRCcheck /\ clean \in Nat
  BY Limits DEF CaughtUp, RecoverInv, Counts
<1>2. Since \in Nat /\ Since >= Longest + 8 /\ clean > 0
  <2> DEFINE all == RS485Timeout + 2 * MaxBehind - 3
  <2>1. all \in Nat /\ Longest = all + 2 /\ clean >= (all \div 8) + 3
    BY Limits DEF FramesToRecover, Longest
  <2> HIDE DEF all
  <2>2. 8 * (all \div 8) + 8 > all /\ all \div 8 \in Nat
    BY <2>1
  <2>3. Since = 8 * (clean - 1) + 1
    BY <1>1, <2>1, <2>2 DEF Since
  <2> QED
    BY <1>1, <2>1, <2>2, <2>3
<1>3. Flushed
  BY <1>1, <1>2 DEF Flushed
<1>4. Place = 1 /\ Light = pwmLight
  <2>1. pwmLight \in 0 .. N - 1 /\ N \in Nat \ {0}
    BY Constants, Bits DEF Shape, Server, Byte
  <2>2. Upcoming = 8 * pwmLight
    BY <1>1, <2>1 DEF Upcoming
  <2>3. (8 * pwmLight) % 8 = 0 /\ (8 * pwmLight) \div 8 = pwmLight
    BY <2>1
  <2>4. pwmLight % N = pwmLight
    BY <2>1, Small
  <2> QED
    BY <2>2, <2>3, <2>4 DEF Place, Light, PlaceOf, LightOf
<1>5. ~Lost
  BY <1>1, <1>2, Limits DEF Lost, Longest
<1>6. ~Waiting
  BY <1>1, <1>2, <1>4, Limits DEF Waiting, Longest
<1>7. ~Following
  BY <1>4 DEF Following
<1>8. PICK v \in Byte : Has(v) /\ pwmLight = (v + 1) % N
  BY <1>4, <1>5, <1>6, <1>7 DEF RecoverInv, Done
<1>9. v = sent
  <2>1. pwmLight = (sent + 1) % N /\ sent \in 0 .. N - 1 /\ v \in 0 .. N - 1 /\ N \in Nat \ {0}
    BY <1>2, <1>8, Constants, Bits DEF RecoverInv, Counts, Byte
  <2>2. /\ (sent + 1) % N = (IF sent + 1 = N THEN 0 ELSE sent + 1)
        /\ (v + 1) % N = (IF v + 1 = N THEN 0 ELSE v + 1)
    BY <2>1, Successor
  <2> QED
    BY <1>8, <2>1, <2>2
<1> QED
  BY <1>1, <1>8, <1>9 DEF Has

(* After the last damaged byte or restart, the light is that of the last   *)
(* frame as soon as the remote has read FramesToRecover frames: a remote   *)
(* that has not come to its first state is there when its time-out is over *)
(* and, while it waits there for a frame, what looks like a start does not *)
(* last beyond the frame it is in.                                         *)
THEOREM FramesFoundAgain == Spec => []Recovers
<1>1. Init => Shape /\ Counts /\ RecoverInv
  BY ShapeInit, CountsInit, RecoverInit
<1>2. Shape /\ Counts /\ RecoverInv /\ [Next]_vars => Shape' /\ Counts' /\ RecoverInv'
  BY ShapeNext, CountsNext, RecoverNext
<1>3. Shape /\ Counts /\ RecoverInv => Recovers
  BY RecoversThen
<1> QED
  BY <1>1, <1>2, <1>3, PTL DEF Spec
=============================================================================
