----------------------------- MODULE LiveProofs -----------------------------
(***************************************************************************)
(* Proof that the loss the app counts is the loss there was                *)
(* (LossIsCounted of LiveAudio), for ids of every width.                   *)
(*                                                                         *)
(* Ids are numbers modulo IdSize.  What has to be shown is that a packet   *)
(* the app hears is always younger than the last one it heard or that very *)
(* one again: notifications arrive in the order they were numbered, and    *)
(* what a new listener is told first is no older than what was heard.      *)
(***************************************************************************)
EXTENDS LiveAudio, SequenceTheorems, WellFoundedInduction, TLAPS

(* What is in the air, what the phone's stack keeps and what the app heard *)
(* last were notifications; of one boot they are in order.                 *)
IsNotification(p) ==
    /\ p.number \in Nat \ {0} /\ p.id = (p.number - 1) % IdSize /\ p.boot \in Nat

AirInOrder ==
    /\ \A i \in 1 .. Len(air) : /\ IsNotification(air[i])
                                /\ air[i].boot = boot /\ air[i].number <= issued
    /\ \A i, j \in 1 .. Len(air) : i < j => air[i].number < air[j].number

Behind(p) ==
    p # None =>
        /\ IsNotification(p)
        /\ p.boot <= boot
        /\ p.boot = boot => /\ p.number <= issued
                            /\ \A i \in 1 .. Len(air) : p.number < air[i].number

LastIsNotAhead ==
    last # None /\ lastValue # None /\ last.boot = lastValue.boot
        => last.number < lastValue.number \/ last = lastValue

Packets == [id : Int, chunk : Int, number : Int, boot : Int]

LiveTypes ==
    /\ issued \in Nat /\ boot \in Nat /\ lost \in Int /\ missed \in Int
    /\ codec \in [chunks : Int, sent : Int]
    /\ air \in Seq(Packets)

LiveInv ==
    /\ LiveTypes
    /\ AirInOrder /\ Behind(last) /\ Behind(lastValue) /\ LastIsNotAhead
    /\ LossIsCounted
-----------------------------------------------------------------------------
(* A remainder is what is left of a number, and the only such.             *)
LEMMA Multiple ==
    ASSUME NEW n \in Nat \ {0}, NEW m \in Int, -n < n * m, n * m < n
    PROVE  m = 0
OBVIOUS

LEMMA Division ==
    ASSUME NEW n \in Nat \ {0}, NEW x \in Int
    PROVE  /\ x \div n \in Int /\ x % n \in 0 .. n - 1
           /\ x = n * (x \div n) + (x % n)
OBVIOUS

LEMMA RemainderUnique ==
    ASSUME NEW n \in Nat \ {0}, NEW q \in Int, NEW r \in 0 .. n - 1,
           NEW x \in Int, x = n * q + r
    PROVE  x % n = r
<1>. DEFINE d == x \div n
            s == x % n
<1>1. d \in Int /\ s \in 0 .. n - 1 /\ x = n * d + s
  BY Division
<1>. HIDE DEF d, s
<1>2. n * (d - q) = r - s
  BY <1>1
<1>3. d - q = 0
  BY <1>1, <1>2, Multiple
<1>4. s = r
  BY <1>1, <1>2, <1>3
<1>. QED
  BY <1>4 DEF s

(* The gap between two packets, from what is left of their numbers.        *)
LEMMA GapOfIds ==
    ASSUME NEW a \in Int, NEW b \in Int, b < a, a - b <= IdSize
    PROVE  ((a % IdSize) - (b % IdSize) - 1) % IdSize = a - b - 1
<1>1. IdSize \in Nat \ {0}
  BY LiveAssumption
<1>. DEFINE da == a \div IdSize
            ra == a % IdSize
            db == b \div IdSize
            rb == b % IdSize
<1>2. da \in Int /\ ra \in Int /\ a = IdSize * da + ra
  BY <1>1, Division
<1>3. db \in Int /\ rb \in Int /\ b = IdSize * db + rb
  BY <1>1, Division
<1>. HIDE DEF da, ra, db, rb
<1>4. ra - rb - 1 = IdSize * (db - da) + (a - b - 1)
  <2>1. IdSize * (db - da) = IdSize * db - IdSize * da
    BY <1>1, <1>2, <1>3
  <2>. QED
    BY <1>1, <1>2, <1>3, <2>1
<1>5. a - b - 1 \in 0 .. IdSize - 1 /\ db - da \in Int /\ ra - rb - 1 \in Int
  BY <1>1, <1>2, <1>3
<1>6. (ra - rb - 1) % IdSize = a - b - 1
  <2>. DEFINE x == ra - rb - 1
              q == db - da
              r == a - b - 1
  <2>1. x = IdSize * q + r /\ r \in 0 .. IdSize - 1 /\ q \in Int /\ x \in Int
    BY <1>4, <1>5
  <2>. HIDE DEF x, q, r
  <2>2. x % IdSize = r
    BY <1>1, <2>1, RemainderUnique
  <2>. QED
    BY <2>2 DEF x, r
<1>. QED
  BY <1>5, <1>6 DEF ra, rb
-----------------------------------------------------------------------------
(* A packet that is younger than the last one, or that one again, keeps    *)
(* the count right.                                                        *)
Follows(p) ==
    last # None /\ p.boot = last.boot => last.number < p.number \/ p = last

LEMMA OnPacketCounts ==
    ASSUME LiveInv, NEW p, IsNotification(p), Follows(p), OnPacket(p)
    PROVE  /\ LossIsCounted'
           /\ lost' \in Int /\ missed' \in Int
<1>1. IdSize \in Nat \ {0} /\ lost \in Int /\ missed \in Int
  BY LiveAssumption DEF LiveInv, LiveTypes
<1>2. CASE last = None
  BY <1>1, <1>2 DEF OnPacket, Again, LossIsCounted, LiveInv
<1>3. CASE last # None
  <2>1. IsNotification(last)
    BY <1>3 DEF LiveInv, Behind
  <2>. DEFINE a == p.number - 1
              c == last.number - 1
  <2>2. a \in Int /\ c \in Int /\ p.id = a % IdSize /\ last.id = c % IdSize
    BY <2>1 DEF IsNotification
  <2>3. /\ p.number \in Int /\ last.number \in Int
        /\ p.number = a + 1 /\ last.number = c + 1
    BY <2>1 DEF IsNotification
  <2>. HIDE DEF a, c
  <2>4. Gap(p) = ((a % IdSize) - (c % IdSize) - 1) % IdSize
    BY <2>2 DEF Gap
  <2>5. Gap(p) \in Int
    <3>1. a % IdSize \in Int /\ c % IdSize \in Int
      BY <1>1, <2>2, Division
    <3>2. (a % IdSize) - (c % IdSize) - 1 \in Int
      BY <3>1
    <3>. QED
      BY <1>1, <2>4, <3>2, Division
  <2>6. lost' = lost + Gap(p)
    BY <1>3 DEF OnPacket
  <2>7. CASE p = last
    <3>1. missed' = missed /\ repeated'
      BY <1>3, <2>7 DEF OnPacket, Again
    <3>. QED
      BY <1>1, <2>5, <2>6, <3>1 DEF LossIsCounted
  <2>8. CASE p # last
    <3>1. missed' = missed + p.number - last.number - 1
      BY <1>3, <2>8 DEF OnPacket, Again
    <3>2. lost' \in Int /\ missed' \in Int
      BY <1>1, <2>3, <2>5, <2>6, <3>1
    <3>3. ASSUME ~strange', ~repeated'
          PROVE  lost' = missed'
      <4>1. /\ ~strange /\ ~repeated
            /\ p.boot = last.boot
            /\ ~(p.number - last.number > IdSize)
        BY <1>3, <3>3 DEF OnPacket
      <4>2. last.number < p.number
        BY <1>3, <2>8, <4>1 DEF Follows
      <4>3. Gap(p) = a - c - 1
        BY <1>1, <2>2, <2>3, <2>4, <4>1, <4>2, GapOfIds
      <4>4. lost = missed
        BY <4>1 DEF LiveInv, LossIsCounted
      <4>. QED
        BY <1>1, <2>2, <2>3, <2>6, <3>1, <4>3, <4>4
    <3>. QED
      BY <3>2, <3>3 DEF LossIsCounted
  <2>. QED
    BY <2>7, <2>8
<1>. QED
  BY <1>2, <1>3
-----------------------------------------------------------------------------
LEMMA LiveInitInv == LiveInit => LiveInv
<1>. SUFFICES ASSUME LiveInit
              PROVE  LiveInv
  OBVIOUS
<1>1. IdSize \in Nat \ {0}
  BY LiveAssumption
<1>2. LossIsCounted
  BY <1>1 DEF LiveInit, LossIsCounted
<1>3. LiveTypes
  BY DEF LiveInit, LiveTypes, NoPacket
<1>4. AirInOrder /\ Behind(last) /\ Behind(lastValue) /\ LastIsNotAhead
  BY DEF LiveInit, AirInOrder, Behind, LastIsNotAhead
<1>. QED
  BY <1>2, <1>3, <1>4 DEF LiveInv

(* A step that leaves numbers, air and what was heard alone.               *)
LEMMA Elsewhere ==
    ASSUME LiveInv, UNCHANGED <<issued, boot, air, lastValue, heard>>,
           codec' \in [chunks : Int, sent : Int]
    PROVE  LiveInv'
BY DEF LiveInv, LiveTypes, AirInOrder, Behind, LastIsNotAhead, LossIsCounted, IsNotification, heard

(* The next number is above all there were.                                *)
LEMMA NotifyChunkInv ==
    ASSUME LiveInv, NotifyChunk
    PROVE  LiveInv'
<1>1. IdSize \in Nat \ {0} /\ issued \in Nat /\ boot \in Nat /\ air \in Seq(Packets)
  BY LiveAssumption DEF LiveInv, LiveTypes
<1>2. issued' = issued + 1 /\ boot' = boot /\ UNCHANGED <<lastValue, heard>>
  BY DEF NotifyChunk, phone
<1>3. codec' \in [chunks : Int, sent : Int]
  BY DEF NotifyChunk, Sent, NoPacket, LiveInv, LiveTypes
<1>4. CASE UNCHANGED air
  <2>1. LiveTypes'
    BY <1>1, <1>2, <1>3, <1>4 DEF LiveInv, LiveTypes, heard
  <2>2. AirInOrder' /\ Behind(last)' /\ Behind(lastValue)'
    BY <1>1, <1>2, <1>4 DEF LiveInv, AirInOrder, Behind, IsNotification, heard
  <2>3. LastIsNotAhead' /\ LossIsCounted'
    BY <1>2 DEF LiveInv, LastIsNotAhead, LossIsCounted, heard
  <2>. QED
    BY <2>1, <2>2, <2>3 DEF LiveInv
<1>5. CASE air' = Append(air, Notification)
  <2>. DEFINE p == Notification
  <2>1. /\ p.number = issued + 1 /\ p.boot = boot /\ p.id = issued % IdSize
        /\ p.chunk = codec.sent
    BY DEF Notification
  <2>2. issued % IdSize \in Int
    BY <1>1, Division
  <2>3. IsNotification(p) /\ p \in Packets
    <3>1. p.number - 1 = issued
      BY <1>1, <2>1
    <3>2. codec.sent \in Int
      BY DEF LiveInv, LiveTypes
    <3>3. p \in Packets
      BY <1>1, <2>2, <3>2 DEF Notification, Packets
    <3>. HIDE DEF p
    <3>. QED
      BY <1>1, <2>1, <3>1, <3>3 DEF IsNotification
  <2>. HIDE DEF p
  <2>4. /\ Len(air') = Len(air) + 1 /\ Len(air) \in Nat /\ air' \in Seq(Packets)
        /\ \A i \in 1 .. Len(air) : air'[i] = air[i]
        /\ air'[Len(air) + 1] = p
    BY <1>1, <1>5, <2>3 DEF p
  <2>5. LiveTypes'
    BY <1>1, <1>2, <1>3, <2>4 DEF LiveInv, LiveTypes, heard
  <2>6. AirInOrder'
    <3>1. \A i \in 1 .. Len(air') : i \in 1 .. Len(air) \/ i = Len(air) + 1
      BY <2>4
    <3>2. \A i \in 1 .. Len(air) : air[i].number \in Nat /\ air[i].number <= issued
      BY DEF LiveInv, AirInOrder, IsNotification
    <3>3. ASSUME NEW i \in 1 .. Len(air')
          PROVE  IsNotification(air'[i]) /\ air'[i].boot = boot /\ air'[i].number <= issued + 1
      <4>1. CASE i \in 1 .. Len(air)
        <5>1. IsNotification(air[i]) /\ air[i].boot = boot /\ air[i].number <= issued
          BY <4>1 DEF LiveInv, AirInOrder
        <5>2. air[i].number <= issued + 1
          BY <1>1, <3>2, <4>1, <5>1
        <5>. QED
          BY <2>4, <4>1, <5>1, <5>2
      <4>2. CASE i = Len(air) + 1
        BY <1>1, <2>1, <2>3, <2>4, <4>2
      <4>. QED
        BY <3>1, <4>1, <4>2
    <3>4. ASSUME NEW i \in 1 .. Len(air'), NEW j \in 1 .. Len(air'), i < j
          PROVE  air'[i].number < air'[j].number
      <4>1. i \in 1 .. Len(air)
        BY <2>4, <3>4
      <4>2. CASE j \in 1 .. Len(air)
        BY <2>4, <3>4, <4>1, <4>2 DEF LiveInv, AirInOrder
      <4>3. CASE j = Len(air) + 1
        <5>1. air[i].number < issued + 1
          BY <1>1, <3>2, <4>1
        <5>. QED
          BY <2>1, <2>4, <4>1, <4>3, <5>1
      <4>. QED
        BY <3>1, <4>2, <4>3
    <3>. QED
      BY <1>2, <3>3, <3>4 DEF AirInOrder, IsNotification
  <2>7. ASSUME NEW l, Behind(l), l # None
        PROVE  /\ IsNotification(l) /\ l.boot <= boot
               /\ l.boot = boot => /\ l.number <= issued'
                                   /\ \A i \in 1 .. Len(air') : l.number < air'[i].number
    <3>1. IsNotification(l) /\ l.number \in Nat /\ l.boot <= boot
      BY <2>7 DEF Behind, IsNotification
    <3>2. ASSUME l.boot = boot, NEW i \in 1 .. Len(air')
          PROVE  l.number < air'[i].number
      <4>1. l.number <= issued /\ \A k \in 1 .. Len(air) : l.number < air[k].number
        BY <2>7, <3>2 DEF Behind
      <4>2. i \in 1 .. Len(air) \/ i = Len(air) + 1
        BY <2>4
      <4>. QED
        BY <1>1, <2>1, <2>4, <3>1, <4>1, <4>2
    <3>3. l.boot = boot => l.number <= issued'
      BY <1>1, <1>2, <2>7, <3>1 DEF Behind
    <3>. QED
      BY <3>1, <3>2, <3>3
  <2>8. Behind(last)' /\ Behind(lastValue)'
    BY <1>2, <2>7 DEF LiveInv, Behind, heard, IsNotification
  <2>9. LastIsNotAhead' /\ LossIsCounted'
    BY <1>2 DEF LiveInv, LastIsNotAhead, LossIsCounted, heard
  <2>. QED
    BY <2>5, <2>6, <2>8, <2>9 DEF LiveInv
<1>. QED
  BY <1>4, <1>5 DEF NotifyChunk

(* A disconnect, a reboot and a page left empty the air.                   *)
LEMMA CutInv ==
    ASSUME LiveInv, Cut, codec' \in [chunks : Int, sent : Int],
           \/ UNCHANGED <<issued, boot>>
           \/ issued' = 0 /\ boot' = boot + 1,
           \/ UNCHANGED heard
           \/ last' = None /\ lost' = 0 /\ missed' = 0
    PROVE  LiveInv'
<1>1. IdSize \in Nat \ {0} /\ issued \in Nat /\ boot \in Nat
  BY LiveAssumption DEF LiveInv, LiveTypes
<1>2. air' = <<>> /\ lastValue' \in {lastValue, None}
  BY DEF Cut
<1>3. AirInOrder'
  BY <1>2 DEF AirInOrder
<1>4. LiveTypes'
  BY SMTT(30), <1>1, <1>2 DEF LiveInv, LiveTypes, heard
<1>5. ASSUME NEW l, Behind(l), l # None
      PROVE  /\ IsNotification(l) /\ l.boot <= boot'
             /\ l.boot = boot' => l.number <= issued'
  <2>1. IsNotification(l) /\ l.boot \in Nat /\ l.boot <= boot
    BY <1>5 DEF Behind, IsNotification
  <2>2. boot' = boot + 1 => l.boot # boot'
    BY <1>1, <2>1
  <2>3. l.boot <= boot'
    BY <1>1, <2>1
  <2>4. l.boot = boot => l.number <= issued
    BY <1>5 DEF Behind
  <2>. QED
    BY <2>1, <2>2, <2>3, <2>4
<1>6. Behind(last)' /\ Behind(lastValue)'
  <2>1. last' = None \/ last' = last
    BY DEF heard
  <2>2. Behind(last) /\ Behind(lastValue)
    BY DEF LiveInv
  <2>. QED
    BY <1>2, <1>5, <2>1, <2>2 DEF Behind, IsNotification
<1>7. LastIsNotAhead'
  BY <1>2 DEF LiveInv, LastIsNotAhead, heard
<1>8. LossIsCounted'
  <2>1. CASE UNCHANGED heard
    BY <2>1 DEF LiveInv, LossIsCounted, heard
  <2>2. CASE lost' = 0 /\ missed' = 0
    BY <1>1, <2>2 DEF LossIsCounted
  <2>. QED
    BY <2>1, <2>2
<1>. QED
  BY <1>3, <1>4, <1>6, <1>7, <1>8 DEF LiveInv

(* The first in the air is older than the rest of it.                      *)
LEMMA ArriveInv ==
    ASSUME LiveInv, Arrive
    PROVE  LiveInv'
<1>. DEFINE p == Head(air)
<1>1. air \in Seq(Packets) /\ Len(air) \in Nat /\ Len(air) > 0 /\ issued \in Nat /\ boot \in Nat
  BY DEF LiveInv, LiveTypes, Arrive
<1>2. /\ p = air[1] /\ air' \in Seq(Packets) /\ Len(air') = Len(air) - 1
      /\ \A i \in 1 .. Len(air') : air'[i] = air[i + 1]
  BY <1>1 DEF Arrive
<1>. HIDE DEF p
<1>3. /\ lastValue' = p /\ UNCHANGED <<codec, issued, boot>>
      /\ (listening /\ OnPacket(p)) \/ UNCHANGED heard
  BY DEF Arrive, device, p
<1>4. IsNotification(p) /\ p.boot = boot /\ p.number <= issued /\ p.number \in Nat
  BY <1>1, <1>2 DEF LiveInv, AirInOrder, IsNotification
<1>5. AirInOrder'
  <2>1. \A i \in 1 .. Len(air') : i + 1 \in 1 .. Len(air)
    BY <1>1, <1>2
  <2>2. \A i, j \in 1 .. Len(air') : i < j => i + 1 < j + 1
    OBVIOUS
  <2>. QED
    BY <1>2, <1>3, <2>1, <2>2 DEF LiveInv, AirInOrder, IsNotification
<1>6. \A i \in 1 .. Len(air') : p.number < air'[i].number
  <2>1. \A i \in 1 .. Len(air') : i + 1 \in 1 .. Len(air) /\ 1 < i + 1
    BY <1>1, <1>2
  <2>2. 1 \in 1 .. Len(air)
    BY <1>1
  <2>. QED
    BY <1>2, <2>1, <2>2 DEF LiveInv, AirInOrder
<1>7. Behind(lastValue)'
  BY <1>3, <1>4, <1>6 DEF Behind, IsNotification
<1>8. ASSUME UNCHANGED last
      PROVE  Behind(last)' /\ LastIsNotAhead'
  <2>1. ASSUME last # None, last.boot = boot
        PROVE  last.number < p.number /\ \A i \in 1 .. Len(air') : last.number < air'[i].number
    <3>1. \A i \in 1 .. Len(air) : last.number < air[i].number
      BY <2>1 DEF LiveInv, Behind
    <3>2. \A i \in 1 .. Len(air') : i + 1 \in 1 .. Len(air)
      BY <1>1, <1>2
    <3>3. 1 \in 1 .. Len(air)
      BY <1>1
    <3>. QED
      BY <1>2, <3>1, <3>2, <3>3
  <2>2. Behind(last)'
    BY <1>3, <1>8, <2>1 DEF LiveInv, Behind, IsNotification
  <2>3. LastIsNotAhead'
    BY <1>3, <1>4, <1>8, <2>1 DEF LastIsNotAhead
  <2>. QED
    BY <2>2, <2>3
<1>9. CASE UNCHANGED heard
  <2>1. LiveTypes'
    BY <1>1, <1>2, <1>3, <1>9 DEF LiveInv, LiveTypes, heard
  <2>2. LossIsCounted'
    BY <1>9 DEF LiveInv, LossIsCounted, heard
  <2>. QED
    BY <1>5, <1>7, <1>8, <1>9, <2>1, <2>2 DEF LiveInv, heard
<1>10. CASE OnPacket(p)
  <2>1. last' = p
    BY <1>10 DEF OnPacket
  <2>2. Behind(last)' /\ LastIsNotAhead'
    BY <1>3, <1>4, <1>6, <2>1 DEF Behind, LastIsNotAhead, IsNotification
  <2>3. Follows(p)
    <3>1. 1 \in 1 .. Len(air)
      BY <1>1
    <3>. QED
      BY <1>2, <1>4, <3>1 DEF Follows, LiveInv, Behind
  <2>4. LossIsCounted' /\ lost' \in Int /\ missed' \in Int
    BY <1>4, <1>10, <2>3, OnPacketCounts
  <2>5. LiveTypes'
    BY <1>1, <1>2, <1>3, <2>4 DEF LiveInv, LiveTypes
  <2>. QED
    BY <1>5, <1>7, <2>2, <2>4, <2>5 DEF LiveInv
<1>. QED
  BY <1>3, <1>9, <1>10

(* What a new listener is told first is no older than what was heard.      *)
LEMMA ListenInv ==
    ASSUME LiveInv, Listen
    PROVE  LiveInv'
<1>1. UNCHANGED <<codec, issued, boot, air, lastValue>>
  BY DEF Listen, device, radio
<1>2. codec \in [chunks : Int, sent : Int]
  BY DEF LiveInv, LiveTypes
<1>3. CASE lastValue = None
  BY <1>1, <1>2, <1>3, Elsewhere DEF Listen
<1>4. CASE lastValue # None
  <2>1. OnPacket(lastValue) /\ last' = lastValue
    BY <1>4 DEF Listen, OnPacket
  <2>2. IsNotification(lastValue) /\ Behind(lastValue)
    BY <1>4 DEF LiveInv, Behind
  <2>3. Follows(lastValue)
    BY <1>4 DEF Follows, LiveInv, LastIsNotAhead
  <2>4. LossIsCounted' /\ lost' \in Int /\ missed' \in Int
    BY <2>1, <2>2, <2>3, OnPacketCounts
  <2>5. Behind(last)' /\ Behind(lastValue)' /\ LastIsNotAhead'
    BY <1>1, <2>1, <2>2 DEF Behind, LastIsNotAhead, IsNotification
  <2>6. AirInOrder'
    BY <1>1 DEF LiveInv, AirInOrder, IsNotification
  <2>7. LiveTypes'
    BY <1>1, <2>4 DEF LiveInv, LiveTypes
  <2>. QED
    BY <2>4, <2>5, <2>6, <2>7 DEF LiveInv
<1>. QED
  BY <1>3, <1>4
-----------------------------------------------------------------------------
LEMMA LiveStep ==
    ASSUME LiveInv, [LiveNext]_liveVars
    PROVE  LiveInv'
<1>. USE DEF device, radio, phone
<1>0. /\ codec \in [chunks : Int, sent : Int] /\ NoPacket \in [chunks : Int, sent : Int]
      /\ boot \in Nat /\ issued \in Nat
  BY DEF LiveInv, LiveTypes, NoPacket
<1>1. CASE Toggle
  BY <1>0, <1>1, Elsewhere DEF Toggle
<1>2. CASE Encode
  <2>1. codec' \in [chunks : Int, sent : Int]
    BY <1>2 DEF Encode
  <2>. QED
    BY <1>2, <2>1, Elsewhere DEF Encode
<1>3. CASE PacketReady
  <2>1. codec' \in [chunks : Int, sent : Int]
    BY <1>0, <1>3 DEF PacketReady
  <2>. QED
    BY <1>3, <2>1, Elsewhere DEF PacketReady
<1>4. CASE NotifyChunk
  BY <1>4, NotifyChunkInv
<1>5. CASE Connect
  BY <1>0, <1>5, Elsewhere DEF Connect
<1>6. CASE Disconnect
  BY <1>0, <1>6, CutInv DEF Disconnect
<1>7. CASE DeviceReboot
  BY <1>0, <1>7, CutInv DEF DeviceReboot
<1>8. CASE Arrive
  BY <1>8, ArriveInv
<1>9. CASE Subscribe
  BY <1>0, <1>9, Elsewhere DEF Subscribe
<1>10. CASE Listen
  BY <1>10, ListenInv
<1>11. CASE StopListening
  BY <1>0, <1>11, Elsewhere DEF StopListening
<1>12. CASE Unsubscribe
  BY <1>0, <1>12, Elsewhere DEF Unsubscribe
<1>13. CASE Reopen
  BY <1>0, <1>13, CutInv DEF Reopen
<1>14. CASE UNCHANGED liveVars
  BY <1>0, <1>14, Elsewhere DEF liveVars, heard
<1>. QED
  BY <1>1, <1>2, <1>3, <1>4, <1>5, <1>6, <1>7, <1>8, <1>9, <1>10, <1>11, <1>12, <1>13, <1>14
     DEF LiveNext

(* Whatever the stack refuses, however often the link, the device or the   *)
(* page goes and comes back, and for ids of every width: what the app      *)
(* shows as lost (_onPacket's gap) is what it missed, as long as no packet *)
(* was heard twice, the device did not reboot between two packets, and     *)
(* never IdSize packets were missed in a row.                              *)
THEOREM LiveLossIsCounted == LiveSpec => []LossIsCounted
<1>1. LiveInv => LossIsCounted
  BY DEF LiveInv
<1>. QED
  BY <1>1, LiveInitInv, LiveStep, PTL DEF LiveSpec

-----------------------------------------------------------------------------
(***************************************************************************)
(* The dump, and the decoder that splits it.                               *)
(***************************************************************************)
DumpInv ==
    /\ lastValue # None => lastValue \in Packets
    /\ dump \in Seq(Packets) /\ \A i \in 1 .. Len(dump) : IsNotification(dump[i])

LEMMA DumpGrows ==
    ASSUME LiveInv, DumpInv, NEW p \in Packets, IsNotification(p), dump' = Append(dump, p),
           lastValue' # None => lastValue' \in Packets
    PROVE  DumpInv'
<1>1. /\ dump' \in Seq(Packets) /\ Len(dump') = Len(dump) + 1 /\ Len(dump) \in Nat
      /\ dump'[Len(dump) + 1] = p /\ \A i \in 1 .. Len(dump) : dump'[i] = dump[i]
  BY DEF DumpInv
<1>2. ASSUME NEW i \in 1 .. Len(dump') PROVE IsNotification(dump'[i])
  <2>1. CASE i \in 1 .. Len(dump)
    BY <1>1, <2>1 DEF DumpInv, IsNotification
  <2>2. CASE i = Len(dump) + 1
    BY <1>1, <2>2 DEF IsNotification
  <2>. QED
    BY <1>1, <2>1, <2>2
<1>. QED
  BY <1>1, <1>2 DEF DumpInv

LEMMA DumpStep ==
    ASSUME LiveInv, DumpInv, [LiveNext]_liveVars
    PROVE  DumpInv'
<1>1. CASE Toggle \/ Encode \/ PacketReady \/ NotifyChunk \/ Connect \/ Subscribe
           \/ StopListening \/ Unsubscribe \/ UNCHANGED liveVars
  <2>1. UNCHANGED <<lastValue, dump>>
    BY <1>1 DEF Toggle, Encode, PacketReady, NotifyChunk, Connect, Subscribe, StopListening,
       Unsubscribe, liveVars, phone, heard
  <2>. QED
    BY <2>1 DEF DumpInv, IsNotification
<1>2. CASE Disconnect \/ DeviceReboot \/ Reopen
  <2>1. lastValue' \in {lastValue, None} /\ dump' \in {dump, <<>>}
    BY <1>2 DEF Disconnect, DeviceReboot, Reopen, Cut, heard
  <2>2. dump' \in Seq(Packets) /\ \A i \in 1 .. Len(dump') : IsNotification(dump'[i])
    <3>1. CASE dump' = dump
      BY <3>1 DEF DumpInv
    <3>2. CASE dump' = <<>>
      BY <3>2
    <3>. QED
      BY <2>1, <3>1, <3>2
  <2>. QED
    BY <2>1, <2>2 DEF DumpInv, IsNotification
<1>3. CASE Arrive
  <2>1. Head(air) \in Packets /\ IsNotification(Head(air)) /\ lastValue' = Head(air)
    <3>1. air # <<>> /\ air \in Seq(Packets) /\ lastValue' = Head(air)
      BY <1>3 DEF Arrive, LiveInv, LiveTypes
    <3>2. Len(air) # 0
      BY <3>1, EmptySeq
    <3>3. Head(air) = air[1] /\ 1 \in 1 .. Len(air) /\ air[1] \in Packets
      BY <3>1, <3>2
    <3>. QED
      BY <3>1, <3>3 DEF LiveInv, AirInOrder
  <2>2. CASE listening
    BY <1>3, <2>1, <2>2, DumpGrows DEF Arrive, OnPacket
  <2>3. CASE ~listening
    BY <1>3, <2>1, <2>3 DEF Arrive, heard, DumpInv, IsNotification
  <2>. QED
    BY <2>2, <2>3
<1>4. CASE Listen
  <2>1. lastValue' = lastValue
    BY <1>4 DEF Listen
  <2>2. CASE lastValue = None
    BY <1>4, <2>1, <2>2 DEF Listen, heard, DumpInv, IsNotification
  <2>3. CASE lastValue # None
    <3>1. lastValue \in Packets /\ IsNotification(lastValue)
      BY <2>3 DEF DumpInv, LiveInv, Behind
    <3>. QED
      BY <1>4, <2>1, <2>3, <3>1, DumpGrows DEF Listen, OnPacket
  <2>. QED
    BY <2>2, <2>3
<1>. QED
  BY <1>1, <1>2, <1>3, <1>4 DEF LiveNext

(* The least number in a set of numbers.                                   *)
LEMMA LeastNumber ==
    ASSUME NEW S \in SUBSET Nat, S # {}
    PROVE  \E n \in S : \A m \in S : n <= m
<1>. DEFINE R == {ss \in Nat \X Nat : ss[1] < ss[2]}
<1>1. IsWellFoundedOn(R, Nat)
  BY NatLessThanWellFounded DEF OpToRel
<1>2. PICK n \in S : \A m \in S : <<m, n>> \notin R
  BY <1>1, WFMin
<1>3. \A m \in S : n <= m
  <2>. SUFFICES ASSUME NEW m \in S, m < n PROVE FALSE
    OBVIOUS
  <2>1. <<m, n>> \in R
    OBVIOUS
  <2>. QED
    BY <1>2, <2>1
<1>. QED
  BY <1>3

(* How far the id of one packet is ahead of that of another.               *)
LEMMA AheadOfIds ==
    ASSUME NEW a \in Nat, NEW b \in Nat, a - b \in 1 .. IdSize - 1
    PROVE  ((a % IdSize) - (b % IdSize)) % IdSize = a - b
<1>1. IdSize \in Nat \ {0}
  BY LiveAssumption
<1>. DEFINE da == a \div IdSize
            ra == a % IdSize
            db == b \div IdSize
            rb == b % IdSize
<1>2. da \in Int /\ ra \in Int /\ a = IdSize * da + ra
  BY <1>1, Division
<1>3. db \in Int /\ rb \in Int /\ b = IdSize * db + rb
  BY <1>1, Division
<1>. HIDE DEF da, ra, db, rb
<1>4. IdSize * (db - da) = IdSize * db - IdSize * da
  BY <1>1, <1>2, <1>3
<1>5. ra - rb = IdSize * (db - da) + (a - b) /\ db - da \in Int /\ ra - rb \in Int
  BY <1>1, <1>2, <1>3, <1>4
<1>6. (ra - rb) % IdSize = a - b
  <2>. DEFINE x == ra - rb
              q == db - da
              r == a - b
  <2>1. x = IdSize * q + r /\ r \in 0 .. IdSize - 1 /\ q \in Int /\ x \in Int
    BY <1>1, <1>5
  <2>. HIDE DEF x, q, r
  <2>2. x % IdSize = r
    BY <1>1, <2>1, RemainderUnique
  <2>. QED
    BY <2>2 DEF x, r
<1>. QED
  BY <1>6 DEF ra, rb

(* In a plain dump the header after the one at i is that at i + 1.         *)
LEMMA NextIsNext ==
    ASSUME NEW d \in Seq(Packets), \A i \in 1 .. Len(d) : IsNotification(d[i]), Plain(d),
           NEW i \in 1 .. Len(d) - 1
    PROVE  NextHeader(d, i, d[i].id) = i + 1
<1> DEFINE found == {next \in DOMAIN d : Header(d, i, d[i].id, next)}
<1>1. Len(d) \in Nat /\ DOMAIN d = 1 .. Len(d) /\ i \in 1 .. Len(d) /\ i + 1 \in 1 .. Len(d)
  OBVIOUS
<1>2. (d[i + 1].id - d[i].id) % IdSize \in 1 .. MaxGap
  <2>1. IsNotification(d[i]) /\ IsNotification(d[i + 1])
    BY <1>1
  <2>2. d[i + 1].number - d[i].number \in 1 .. MaxGap
    BY DEF Plain
  <2>3. PICK a \in Nat, b \in Nat : /\ a = d[i + 1].number - 1 /\ d[i + 1].id = a % IdSize
                                   /\ b = d[i].number - 1 /\ d[i].id = b % IdSize
    BY <2>1 DEF IsNotification
  <2>4. a - b \in 1 .. MaxGap
    <3>1. PICK m \in Nat, n \in Nat : m = d[i + 1].number /\ n = d[i].number
      BY <2>1 DEF IsNotification
    <3>2. m - n \in 1 .. MaxGap /\ a = m - 1 /\ b = n - 1
      BY <2>2, <2>3, <3>1
    <3>3. a - b = m - n
      BY <3>2
    <3>. QED
      BY <3>2, <3>3
  <2>5. a - b \in 1 .. IdSize - 1
    BY <2>4, LiveAssumption
  <2>6. ((a % IdSize) - (b % IdSize)) % IdSize = a - b
    BY <2>5, AheadOfIds
  <2>. QED
    BY <2>3, <2>4, <2>6
<1>3. i + 1 \in found
  BY <1>1, <1>2 DEF Header, Plain
<1>4. \A other \in found : other \in Nat /\ i + 1 <= other
  BY <1>1 DEF Header
<1>5. NextHeader(d, i, d[i].id) = CHOOSE next \in found : \A other \in found : next <= other
  BY <1>3 DEF NextHeader
<1>. HIDE DEF found
<1>6. \A next \in found : (\A other \in found : next <= other) => next = i + 1
  BY <1>1, <1>3, <1>4
<1>7. \E next \in found : \A other \in found : next <= other
  BY <1>3, <1>4
<1>. QED
  BY <1>5, <1>6, <1>7

(* The function FramesFromDump chooses: the frames in their order.         *)
Starts(d, at) ==
    at = [n \in 1 .. Len(d) |->
            IF n = 1 THEN 1
            ELSE IF at[n - 1] = None THEN None ELSE NextHeader(d, at[n - 1], d[at[n - 1]].id)]

LEMMA PlainSplits ==
    ASSUME NEW d \in Seq(Packets), \A i \in 1 .. Len(d) : IsNotification(d[i]), Plain(d)
    PROVE  FramesFromDump(d) = DOMAIN d
<1> DEFINE at == CHOOSE f : Starts(d, f)
           g == [n \in 1 .. Len(d) |-> n]
<1>0. Len(d) \in Nat /\ DOMAIN d = 1 .. Len(d) /\ None \notin Nat
  BY LiveAssumption
<1>1. Starts(d, g)
  <2>1. ASSUME NEW n \in 1 .. Len(d)
        PROVE  n = IF n = 1 THEN 1
                   ELSE IF g[n - 1] = None THEN None ELSE NextHeader(d, g[n - 1], d[g[n - 1]].id)
    <3>1. CASE n # 1
      <4>1. n - 1 \in 1 .. Len(d) /\ n - 1 \in 1 .. Len(d) - 1
        BY <1>0, <3>1
      <4>2. g[n - 1] = n - 1 /\ g[n - 1] # None
        BY <1>0, <4>1
      <4>3. NextHeader(d, n - 1, d[n - 1].id) = (n - 1) + 1
        BY <4>1, NextIsNext
      <4>. QED
        BY <3>1, <4>2, <4>3
    <3>. QED
      BY <3>1
  <2>. QED
    BY <2>1 DEF Starts
<1>2. Starts(d, at)
  BY <1>1
<1>3. FramesFromDump(d) = {at[n] : n \in 1 .. Len(d)} \ {None}
  BY DEF FramesFromDump, Starts
<1>. HIDE DEF at
<1>4. \A n \in 1 .. Len(d) : at[n] = n
  <2> DEFINE S == {n \in 1 .. Len(d) : at[n] # n}
  <2>. SUFFICES ASSUME S # {} PROVE FALSE
    OBVIOUS
  <2>1. PICK n \in S : \A m \in S : n <= m
    <3>1. S \in SUBSET Nat
      OBVIOUS
    <3>. HIDE DEF S
    <3>. QED
      BY <3>1, LeastNumber
  <2>2. n \in 1 .. Len(d) /\ at[n] # n
    OBVIOUS
  <2>3. at[n] = IF n = 1 THEN 1
                ELSE IF at[n - 1] = None THEN None ELSE NextHeader(d, at[n - 1], d[at[n - 1]].id)
    BY <1>2, <2>2 DEF Starts
  <2>4. n # 1
    BY <2>2, <2>3
  <2>5. n - 1 \in 1 .. Len(d) /\ n - 1 \in 1 .. Len(d) - 1
    BY <1>0, <2>2, <2>4
  <2>6. at[n - 1] = n - 1
    BY <2>1, <2>5
  <2>7. NextHeader(d, n - 1, d[n - 1].id) = (n - 1) + 1
    BY <2>5, NextIsNext
  <2>. QED
    BY <1>0, <2>2, <2>3, <2>4, <2>5, <2>6, <2>7
<1>5. {at[n] : n \in 1 .. Len(d)} = 1 .. Len(d)
  BY <1>4
<1>. QED
  BY <1>0, <1>3, <1>5

(* wr_opus_decoder.dart, framesFromDump: a dump without repeats, of        *)
(* packets in one chunk each, with no gap above _maxGap, is split into the *)
(* packets it was made of, for ids of every width and dumps of any length. *)
THEOREM LiveDumpSplitsIntoPackets == LiveSpec => []DumpSplitsIntoPackets
<1>1. LiveInit => DumpInv
  BY DEF LiveInit, DumpInv
<1>2. LiveInv /\ DumpInv => DumpSplitsIntoPackets
  BY PlainSplits DEF DumpInv, DumpSplitsIntoPackets
<1>. QED
  BY <1>1, <1>2, LiveInitInv, LiveStep, DumpStep, PTL DEF LiveSpec
=============================================================================
